------------------------ MODULE OfflineVerification -------------------------
(***************************************************************************)
(* The browser-backed check that an artifact needs no network: the page is *)
(* opened with all traffic denied, probed until it stops changing, and     *)
(* what it attempted is collected (chromium/src/offline.rs,                *)
(* page/offline.rs).                                                       *)
(*                                                                         *)
(* Frames live in processes of their own: what one frame reports, events   *)
(* and answers, arrives in order, and nothing orders two frames.           *)
(***************************************************************************)
EXTENDS Integers, FiniteSets, Sequences

CONSTANTS OtherFrames,           \* frames that may attach during the check
          Urls,                  \* network URLs the page may attempt
          STABILITY_QUIET, Deadline,      \* in poll intervals
          MAXIMUM_ATTEMPTED_URLS,
          MaxMutations           \* bound: changes each frame makes

Frames == {"main"} \cup OtherFrames

VARIABLES clock,
          attachedFrames,  \* what targets.frames() returns, and main
          mutations, busy, \* each frame: changes so far, loads pending
          lastMutation,    \* when each frame last changed
          outbox,          \* each frame: events and answers on their way
          offlineQueue,    \* events the collector has not read
          collecting,      \* the collector task: attempted urls, overflow, step
          verifying,       \* verify_offline_url: its step and locals
          reported         \* each frame: its attempts before the last answer received

offlineVars == <<clock, attachedFrames, mutations, busy, lastMutation, outbox, offlineQueue,
                 collecting, verifying, reported>>

NoSample == [f \in {} |-> 0]
Attempts(f) == {u \in Urls : <<f, u>> \in collecting.made}

OfflineInit ==
    /\ clock = 0 /\ attachedFrames = {"main"}
    /\ mutations = [f \in Frames |-> 0] /\ busy = [f \in Frames |-> FALSE]
    /\ lastMutation = [f \in Frames |-> 0]
    /\ outbox = [f \in Frames |-> <<>>] /\ offlineQueue = <<>>
    /\ collecting = [step |-> "runs", urls |-> {}, overflow |-> FALSE, made |-> {}]
    /\ verifying = [step |-> "subscribed", previous |-> NoSample, sample |-> NoSample,
                    asked |-> {}, now |-> 0, since |-> -1, stable |-> FALSE]
    /\ reported = [f \in Frames |-> {}]

-----------------------------------------------------------------------------
(* The page under verification (external). *)

pageRest == <<clock, offlineQueue, verifying, reported>>
Opened == verifying.step \in {"check", "sampling", "sleeps", "fence"}

AttachFrame(f) ==
    /\ Opened /\ f \notin attachedFrames
    /\ attachedFrames' = attachedFrames \cup {f}
    /\ UNCHANGED <<pageRest, mutations, busy, lastMutation, outbox, collecting>>

Mutate(f) ==
    /\ Opened /\ f \in attachedFrames /\ mutations[f] < MaxMutations
    /\ mutations' = [mutations EXCEPT ![f] = @ + 1]
    /\ \E loads \in BOOLEAN : busy' = [busy EXCEPT ![f] = loads]
    /\ lastMutation' = [lastMutation EXCEPT ![f] = clock]
    /\ UNCHANGED <<pageRest, attachedFrames, outbox, collecting>>

\* The network is blocked: an attempt is refused, and its event reported.
AttemptRequest(f, u) ==
    /\ Opened /\ f \in attachedFrames /\ <<f, u>> \notin collecting.made
    /\ collecting' = [collecting EXCEPT !.made = @ \cup {<<f, u>>}]
    /\ outbox' = [outbox EXCEPT ![f] = Append(@, <<"requestWillBeSent", u>>)]
    /\ UNCHANGED <<pageRest, attachedFrames, mutations, busy, lastMutation>>

\* One message of one frame reaches the client: events are queued for the
\* collector before the answer behind them completes the probe.
Deliver(f) ==
    /\ outbox[f] # <<>> /\ verifying.step \notin {"observed", "failed"}
    /\ outbox' = [outbox EXCEPT ![f] = Tail(@)]
    /\ LET message == Head(outbox[f])
       IN \/ /\ message[1] = "requestWillBeSent"
             /\ offlineQueue' = IF collecting.step = "runs" THEN Append(offlineQueue, message[2])
                                ELSE offlineQueue
             /\ UNCHANGED <<verifying, reported>>
          \/ /\ message[1] = "answer" /\ verifying.step = "sampling"
             /\ verifying' = [verifying EXCEPT
                    !.sample = [g \in DOMAIN @ \cup {f} |-> IF g = f THEN message[2] ELSE @[g]],
                    !.asked = @ \ {f}]
             /\ reported' = [reported EXCEPT ![f] = message[3]]
             /\ UNCHANGED offlineQueue
          \/ /\ message[1] = "answer" /\ verifying.step # "sampling"
             /\ UNCHANGED <<verifying, reported, offlineQueue>>
    /\ UNCHANGED <<clock, attachedFrames, mutations, busy, lastMutation, collecting>>

\* The poll interval between samples; an instant verdict takes no time.
Sleep ==
    /\ verifying.step = "sleeps" /\ clock < Deadline
    /\ clock' = clock + 1
    /\ verifying' = [verifying EXCEPT !.step = "check"]
    /\ UNCHANGED <<attachedFrames, mutations, busy, lastMutation, outbox, offlineQueue,
                   collecting, reported>>

\* Probes and their answers take time too.
Delay ==
    /\ verifying.step = "sampling" /\ clock < Deadline
    /\ clock' = clock + 1
    /\ UNCHANGED <<attachedFrames, mutations, busy, lastMutation, outbox, offlineQueue,
                   collecting, verifying, reported>>

-----------------------------------------------------------------------------
(* The collector: collect_offline_events. *)

\* AttemptedUrlEvidence::record
record_url(u) ==
    IF u \in collecting.urls \/ collecting.overflow THEN UNCHANGED collecting
    ELSE IF Cardinality(collecting.urls) >= MAXIMUM_ATTEMPTED_URLS
         THEN collecting' = [collecting EXCEPT !.overflow = TRUE]
         ELSE collecting' = [collecting EXCEPT !.urls = @ \cup {u}]

record_offline_event ==
    /\ collecting.step = "runs" /\ offlineQueue # <<>>
    /\ offlineQueue' = Tail(offlineQueue)
    /\ record_url(Head(offlineQueue))
    /\ UNCHANGED <<clock, attachedFrames, mutations, busy, lastMutation, outbox, verifying, reported>>

\* The stream of the collector lagged: the verification fails.
CollectorLags ==
    /\ collecting.step = "runs" /\ offlineQueue # <<>>
    /\ collecting' = [collecting EXCEPT !.step = "lagged"]
    /\ UNCHANGED <<clock, attachedFrames, mutations, busy, lastMutation, outbox, offlineQueue,
                   verifying, reported>>

-----------------------------------------------------------------------------
(* verify_offline_url. *)

verifyRest == <<clock, attachedFrames, mutations, busy, lastMutation, offlineQueue>>
Go(step) == verifying' = [verifying EXCEPT !.step = step]

\* The proxy denies all, the events are subscribed to, then the targets and
\* the main session are blocked; the page is opened only after that.
block_network ==
    /\ verifying.step = "subscribed"
    /\ Go("blocked") \/ Go("failed")
    /\ UNCHANGED <<verifyRest, outbox, collecting, reported>>

OpenArtifact ==
    /\ verifying.step = "blocked"
    /\ Go("check") \/ Go("failed")
    /\ UNCHANGED <<verifyRest, outbox, collecting, reported>>

\* The head of wait_for_stability; sample asks every frame at once.
TakeSample ==
    /\ verifying.step = "check"
    /\ IF clock >= Deadline
       THEN Go("fence")
       ELSE verifying' = [verifying EXCEPT !.step = "sampling", !.now = clock,
                                           !.sample = NoSample, !.asked = attachedFrames]
    /\ UNCHANGED <<verifyRest, outbox, collecting, reported>>

\* A frame runs the probe: what it attempted before is reported before.
AnswerProbe(f) ==
    /\ verifying.step = "sampling" /\ f \in verifying.asked
    /\ \A i \in 1..Len(outbox[f]) : outbox[f][i][1] # "answer"
    /\ outbox' = [outbox EXCEPT ![f] =
                     Append(@, <<"answer", [mutations |-> mutations[f], busy |-> busy[f]], Attempts(f)>>)]
    /\ UNCHANGED <<verifyRest, collecting, verifying, reported>>

\* A probe fails or times out: an unstable verdict, or an error.
SampleFails ==
    /\ verifying.step = "sampling"
    /\ Go("fence") \/ Go("failed")
    /\ UNCHANGED <<verifyRest, outbox, collecting, reported>>

settled(sample) == \A f \in DOMAIN sample : ~sample[f].busy
Unchanged(previous, sample) == settled(sample) /\ previous = sample
Since(now) == IF verifying.since = -1 THEN now ELSE verifying.since

\* The sample is equal to the one before: the quiet time goes on.
JudgeRunning ==
    /\ verifying.step = "sampling" /\ verifying.asked = {}
    /\ LET quiet == Unchanged(verifying.previous, verifying.sample)
           since == IF quiet \/ verifying.since # -1 THEN Since(verifying.now) ELSE -1
           stable == quiet /\ verifying.now - since >= STABILITY_QUIET
       IN verifying' = [verifying EXCEPT !.step = IF stable THEN "fence" ELSE "sleeps",
                                         !.previous = verifying.sample, !.since = since,
                                         !.stable = stable]
    /\ UNCHANGED <<verifyRest, outbox, collecting, reported>>

JudgeSample ==
    /\ verifying.step = "sampling" /\ verifying.asked = {}
    /\ LET quiet == Unchanged(verifying.previous, verifying.sample)
           since == IF quiet THEN Since(verifying.now) ELSE -1
           stable == quiet /\ verifying.now - since >= STABILITY_QUIET
       IN verifying' = [verifying EXCEPT !.step = IF stable THEN "fence" ELSE "sleeps",
                                         !.previous = verifying.sample, !.since = since,
                                         !.stable = stable]
    /\ UNCHANGED <<verifyRest, outbox, collecting, reported>>

\* An evaluation on the main session; none when no time is left.
fence_events ==
    /\ verifying.step = "fence"
    /\ IF clock >= Deadline THEN Go("stop")
       ELSE Go("failed") \/ (outbox["main"] = <<>> /\ Go("stop"))
    /\ UNCHANGED <<verifyRest, outbox, collecting, reported>>

\* stop: the cancelled collector first takes what is pending.
StopAtOnce ==
    /\ verifying.step = "stop"
    /\ Go(IF collecting.step = "lagged" \/ collecting.overflow THEN "failed" ELSE "observed")
    /\ collecting' = [collecting EXCEPT !.step = "stopped"]
    /\ UNCHANGED <<verifyRest, outbox, reported>>

finish ==
    /\ verifying.step = "stop"
    /\ LET urls == collecting.urls \cup {offlineQueue[i] : i \in 1..Len(offlineQueue)}
           over == collecting.overflow \/ Cardinality(urls) > MAXIMUM_ATTEMPTED_URLS
       IN /\ Go(IF collecting.step = "lagged" \/ over THEN "failed" ELSE "observed")
          /\ collecting' = [collecting EXCEPT !.step = "stopped", !.urls = urls, !.overflow = over]
    /\ offlineQueue' = <<>>
    /\ UNCHANGED <<clock, attachedFrames, mutations, busy, lastMutation, outbox, reported>>

OfflineNext ==
    \/ \E f \in Frames : \/ AttachFrame(f) \/ Mutate(f) \/ Deliver(f) \/ AnswerProbe(f)
                         \/ \E u \in Urls : AttemptRequest(f, u)
    \/ Sleep \/ Delay \/ record_offline_event \/ CollectorLags
    \/ block_network \/ OpenArtifact \/ TakeSample \/ SampleFails \/ JudgeSample
    \/ fence_events \/ finish

OfflineSpec == OfflineInit /\ [][OfflineNext]_offlineVars

-----------------------------------------------------------------------------
Verdict == verifying.step = "observed"

\* Types; attempted URLs are kept up to MAXIMUM_ATTEMPTED_URLS.
OfflineTypeOK ==
    /\ clock \in 0..Deadline /\ attachedFrames \subseteq Frames
    /\ collecting.urls \subseteq Urls /\ verifying.since \in -1..Deadline
    /\ Cardinality(collecting.urls) <= MAXIMUM_ATTEMPTED_URLS

\* An observation names every URL a probed frame attempted before its
\* last answer to a probe arrived, although the collector runs on its own and may be far behind
\* when the verdict falls: stop drains what was pending.
AttemptsObserved ==
    Verdict => \A f \in DOMAIN verifying.previous : reported[f] \subseteq collecting.urls

\* A page is called stable only after each of its frames left its document
\* unchanged for the whole quiet period.
StableMeansQuiet ==
    Verdict /\ verifying.stable =>
        \A f \in DOMAIN verifying.previous :
            \/ lastMutation[f] >= verifying.now
            \/ lastMutation[f] <= verifying.now - STABILITY_QUIET
=============================================================================
