---------------------------- MODULE EventJournal ----------------------------
(***************************************************************************)
(* The event journal of one capture job and the streams that read it.      *)
(*                                                                         *)
(* The job's task emits events in one order. A bounded broadcast ring      *)
(* carries them live; lifecycle events, the newest details and the latest  *)
(* progress record are also retained, so that a late or a lagging stream   *)
(* can be refilled. An event is known by its sequence number, its kind by  *)
(* the way it is retained.                                                 *)
(***************************************************************************)
EXTENDS Naturals, FiniteSets, SequencesExt

CONSTANTS
    Streams,                    \* the readers of the job's events
    EVENT_CAPACITY,             \* of the ring and of the retained details
    DIAGNOSTIC_EVENT_CAPACITY,  \* of the diagnostics recorder
    MaxEvents                   \* bound: how many events the job emits

VARIABLES
    log,              \* every event emitted so far, by kind
    guaranteed,       \* RetainedEvents::guaranteed
    details,          \* RetainedEvents::details
    latest_progress,  \* RetainedEvents::latest_progress, 0 for none
    recorded,         \* DiagnosticsRecorder::events
    dropped_events,   \* DiagnosticsRecorder::dropped_events
    stage,            \* where each stream is in poll_next
    position,         \* the next event of the ring for each stream
    held,             \* the event a stream took from the ring
    pending,          \* CaptureEvents::pending
    last_sequence,    \* CaptureEvents::last_sequence
    terminal_seen,    \* the streams with CaptureEvents::terminal_seen
    delivered         \* what each stream has yielded to its reader

journalVars == <<log, guaranteed, details, latest_progress, recorded, dropped_events>>
streamVars == <<stage, position, held, pending, last_sequence, terminal_seen, delivered>>
vars == <<journalVars, streamVars>>

Kinds == {"lifecycle", "terminal", "detail", "progress"}

Init ==
    /\ log = <<>> /\ guaranteed = <<>> /\ details = <<>> /\ latest_progress = 0
    /\ recorded = <<>> /\ dropped_events = 0
    /\ stage = [s \in Streams |-> "absent"]
    /\ position = [s \in Streams |-> 0]
    /\ held = [s \in Streams |-> 0]
    /\ pending = [s \in Streams |-> <<>>]
    /\ last_sequence = [s \in Streams |-> 0]
    /\ terminal_seen = {}
    /\ delivered = [s \in Streams |-> <<>>]
-----------------------------------------------------------------------------
(* Emission, under the gate. *)

\* A full deque that drops its oldest entry before it takes a new one.
PushBounded(deque, capacity, entry) ==
    Append(IF Len(deque) = capacity THEN Tail(deque) ELSE deque, entry)

\* Lifecycle events kept with the details.
RetainLifecycleAsDetail(kind, sequence) ==
    /\ guaranteed' = IF kind = "terminal" THEN Append(guaranteed, sequence) ELSE guaranteed
    /\ details' = IF kind \in {"lifecycle", "detail"}
                  THEN PushBounded(details, EVENT_CAPACITY, sequence) ELSE details
    /\ latest_progress' = IF kind = "progress" THEN sequence ELSE latest_progress

\* The match on retention(event).
Retain(kind, sequence) ==
    /\ guaranteed' = IF kind \in {"lifecycle", "terminal"} THEN Append(guaranteed, sequence)
                     ELSE guaranteed
    /\ details' = IF kind = "detail" THEN PushBounded(details, EVENT_CAPACITY, sequence)
                  ELSE details
    /\ latest_progress' = IF kind = "progress" THEN sequence ELSE latest_progress

\* DiagnosticsRecorder::record
Record(sequence) ==
    /\ recorded' = PushBounded(recorded, DIAGNOSTIC_EVENT_CAPACITY, sequence)
    /\ dropped_events' = IF Len(recorded) = DIAGNOSTIC_EVENT_CAPACITY
                         THEN dropped_events + 1 ELSE dropped_events

\* emit_with: observe, number, retain, broadcast. The task emits its terminal
\* event last.
Emit(kind) ==
    /\ Len(log) < MaxEvents
    /\ \A i \in DOMAIN log : log[i] # "terminal"
    /\ log' = Append(log, kind)
    /\ Retain(kind, Len(log) + 1)
    /\ Record(Len(log) + 1)
    /\ UNCHANGED streamVars
-----------------------------------------------------------------------------
(* Reading. *)

\* RetainedEvents::after: what is retained strictly between two sequence
\* numbers, in order.
After(sequence, before) ==
    LET kept == Range(guaranteed) \cup Range(details) \cup ({latest_progress} \ {0})
    IN  SetToSortSeq({e \in kept : sequence < e /\ e < before}, <)

\* A limit past every sequence number.
Unlimited == MaxEvents + 1

\* subscribe: join the ring and take the retained events, under the gate.
Subscribe(s) ==
    /\ stage[s] = "absent"
    /\ stage' = [stage EXCEPT ![s] = "idle"]
    /\ position' = [position EXCEPT ![s] = Len(log) + 1]
    /\ pending' = [pending EXCEPT ![s] = After(0, Unlimited)]
    /\ UNCHANGED <<journalVars, held, last_sequence, terminal_seen, delivered>>

\* next_pending forgetting the terminal event.
DeliverOpenEnded(s) ==
    /\ stage[s] = "idle" /\ pending[s] # <<>>
    /\ LET event == Head(pending[s])
       IN  /\ last_sequence' = [last_sequence EXCEPT ![s] = IF event > @ THEN event ELSE @]
           /\ delivered' = [delivered EXCEPT ![s] = Append(@, event)]
    /\ pending' = [pending EXCEPT ![s] = Tail(@)]
    /\ UNCHANGED <<journalVars, stage, position, held, terminal_seen>>

\* next_pending
Deliver(s) ==
    /\ stage[s] = "idle" /\ pending[s] # <<>>
    /\ LET event == Head(pending[s])
       IN  /\ last_sequence' = [last_sequence EXCEPT ![s] = IF event > @ THEN event ELSE @]
           /\ terminal_seen' = IF log[event] = "terminal" THEN terminal_seen \cup {s}
                               ELSE terminal_seen
           /\ delivered' = [delivered EXCEPT ![s] = Append(@, event)]
    /\ pending' = [pending EXCEPT ![s] = Tail(@)]
    /\ UNCHANGED <<journalVars, stage, position, held>>

\* A stream that ends when it has caught up.
EndCaughtUp(s) ==
    /\ stage[s] = "idle" /\ pending[s] = <<>> /\ position[s] > Len(log)
    /\ stage' = [stage EXCEPT ![s] = "ended"]
    /\ UNCHANGED <<journalVars, position, held, pending, last_sequence, terminal_seen, delivered>>

\* The stream ends once its terminal event was yielded.
End(s) ==
    /\ stage[s] = "idle" /\ pending[s] = <<>> /\ s \in terminal_seen
    /\ stage' = [stage EXCEPT ![s] = "ended"]
    /\ UNCHANGED <<journalVars, position, held, pending, last_sequence, terminal_seen, delivered>>

\* The ring (tokio::sync::broadcast) overwrote the stream's next event. The
\* stream learns that it lagged and goes on at the oldest event left.
Lagged(s) ==
    /\ stage[s] = "idle" /\ pending[s] = <<>> /\ s \notin terminal_seen
    /\ position[s] + EVENT_CAPACITY <= Len(log)
    /\ position' = [position EXCEPT ![s] = Len(log) - EVENT_CAPACITY + 1]
    /\ stage' = [stage EXCEPT ![s] = "lagged"]
    /\ UNCHANGED <<journalVars, held, pending, last_sequence, terminal_seen, delivered>>

\* Every event of the ring taken, whether it was yielded before or not.
ReceiveAgain(s) ==
    /\ stage[s] = "idle" /\ pending[s] = <<>> /\ s \notin terminal_seen
    /\ position[s] <= Len(log) /\ Len(log) < position[s] + EVENT_CAPACITY
    /\ position' = [position EXCEPT ![s] = @ + 1]
    /\ stage' = [stage EXCEPT ![s] = "item"]
    /\ held' = [held EXCEPT ![s] = position[s]]
    /\ UNCHANGED <<journalVars, pending, last_sequence, terminal_seen, delivered>>

\* The ring yields the stream's next event; one it already yielded is skipped.
Receive(s) ==
    /\ stage[s] = "idle" /\ pending[s] = <<>> /\ s \notin terminal_seen
    /\ position[s] <= Len(log) /\ Len(log) < position[s] + EVENT_CAPACITY
    /\ position' = [position EXCEPT ![s] = @ + 1]
    /\ IF position[s] <= last_sequence[s]
       THEN UNCHANGED <<stage, held>>
       ELSE /\ stage' = [stage EXCEPT ![s] = "item"]
            /\ held' = [held EXCEPT ![s] = position[s]]
    /\ UNCHANGED <<journalVars, pending, last_sequence, terminal_seen, delivered>>

\* retained_after, under the gate, and the extension of pending. The task may
\* have emitted more since the ring was polled.
Refill(s) ==
    /\ stage[s] \in {"item", "lagged"}
    /\ pending' = [pending EXCEPT ![s] =
         IF stage[s] = "item"
         THEN After(last_sequence[s], held[s]) \o <<held[s]>>
         ELSE After(last_sequence[s], Unlimited)]
    /\ stage' = [stage EXCEPT ![s] = "idle"]
    /\ UNCHANGED <<journalVars, position, held, last_sequence, terminal_seen, delivered>>

Poll(s) == Deliver(s) \/ End(s) \/ Lagged(s) \/ Receive(s) \/ Refill(s)

Next ==
    \/ \E kind \in Kinds : Emit(kind)
    \/ \E s \in Streams : Subscribe(s) \/ Poll(s)

\* A reader that subscribed keeps polling its stream.
Spec == Init /\ [][Next]_vars /\ \A s \in Streams : WF_vars(Poll(s))
-----------------------------------------------------------------------------
(* Properties. *)

\* A stream yields events in the order of emission and none of them twice,
\* although it joins the retained events with the ring (CaptureEvents: "an
\* ordered stream").
InOrder ==
    \A s \in Streams : \A i, k \in DOMAIN delivered[s] :
        i < k => delivered[s][i] < delivered[s][k]

\* What a stream passes over it passes over by design: a detail that
\* EVENT_CAPACITY newer details pushed out, or a progress record with a newer
\* one. No lifecycle event is ever skipped (after, retained_after).
SkipsByDesign ==
    \A s \in Streams : \A e \in 1..last_sequence[s] :
        e \in Range(delivered[s])
        \/ /\ log[e] = "detail"
           /\ Cardinality({d \in DOMAIN log : d > e /\ log[d] = "detail"}) >= EVENT_CAPACITY
        \/ /\ log[e] = "progress"
           /\ \E p \in DOMAIN log : p > e /\ log[p] = "progress"

\* A stream that ended has yielded the terminal event last, and on the way every
\* lifecycle event and the final progress record, whenever it subscribed.
EndsComplete ==
    \A s \in Streams : stage[s] = "ended" =>
        /\ delivered[s] # <<>> /\ log[Last(delivered[s])] = "terminal"
        /\ Last(delivered[s]) = Len(log)
        /\ \A e \in DOMAIN log :
            log[e] = "lifecycle" \/ e = latest_progress => e \in Range(delivered[s])

\* Once the job has emitted its terminal event every stream ends: no lag and no
\* refill leaves a stream waiting for an event that is gone (poll_next).
Ending == \E s \in Streams : stage[s] # "absent" /\ \E i \in DOMAIN log : log[i] = "terminal"
Ended == \A s \in Streams : stage[s] \in {"absent", "ended"}
=============================================================================
