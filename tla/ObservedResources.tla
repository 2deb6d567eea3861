------------------------- MODULE ObservedResources -------------------------
(***************************************************************************)
(* How a page keeps the bodies of the responses it watches, so that a      *)
(* resource is embedded from the bytes the page itself received            *)
(* (chromium/src/resources.rs and resources/*.rs).                         *)
(*                                                                         *)
(* Three parties share one locked table: the observer task that applies    *)
(* the browser's Network events in order (with a task per service-worker   *)
(* body), the interceptor of each paused response (page/interception), and *)
(* the loader that asks for the bytes of a URL.  Each action below is one  *)
(* critical section of the lock, so a value read in one section may be     *)
(* stale in the next.                                                      *)
(*                                                                         *)
(* A key is a (session, request) pair; Matching holds those whose session, *)
(* frame and URL identity match the URL the loader asks for.  A body is    *)
(* the sequence of its unit-sized chunks 1..n.                             *)
(***************************************************************************)
EXTENDS Integers, FiniteSets, SequencesExt

CONSTANTS Keys, Matching,
          Workers,              \* the keys a service worker answers
          Variants, BodySizes,
          maximum_resource_bytes, maximum_total_resource_bytes,
          MAXIMUM_OBSERVED_RESPONSES, MAXIMUM_RESOURCE_BODY_TASKS,
          MaxRedirects          \* bound: redirects the browser follows per request

VARIABLES requests, records, bodyBytes, sequence, requestOrder, order,
          observer, measured, bodyTasks, interceptor, wireEvents, remote, loaded

tableVars == <<requests, records, bodyBytes, sequence, requestOrder, order>>
resourceVars == <<tableVars, observer, measured, bodyTasks, interceptor,
                  wireEvents, remote, loaded>>

Streaming(data) == [kind |-> "streaming", data |-> data]
Complete(data)  == [kind |-> "complete",  data |-> data]
Unavailable     == [kind |-> "unavailable", data |-> <<>>]
TooLarge        == [kind |-> "toolarge", data |-> <<>>]

BodyLen(body) == Len(body.data)
Whole(n) == [i \in 1..n |-> i]
Reusable(variant) == variant # "post"

ObservedInit ==
    /\ requests = <<>> /\ records = <<>>
    /\ bodyBytes = 0 /\ sequence = 0
    /\ requestOrder = <<>> /\ order = <<>>
    /\ observer = "running" /\ measured = "none"
    /\ bodyTasks = [k \in Keys |-> <<>>]
    /\ interceptor = [k \in Keys |-> [phase |-> "idle", read |-> 0]]
    /\ wireEvents = <<>>
    /\ remote = [k \in Keys |-> [phase |-> "idle", size |-> 0, worker |-> k \in Workers,
                                 variant |-> "none", sent |-> 0, streams |-> FALSE,
                                 responded |-> FALSE, redirects |-> 0]]
    /\ loaded = [key |-> "none", data |-> <<>>]

-----------------------------------------------------------------------------
(* The table: every operator is one critical section.                      *)

Minus(a, b) == IF b > a THEN 0 ELSE a - b

\* The entry whose body a write reaches: the response record before the request.
Held(k) == IF k \in DOMAIN records THEN records[k].body
           ELSE IF k \in DOMAIN requests THEN requests[k].body
           ELSE Unavailable

observed_body_bytes(k) == BodyLen(Held(k))

SetBody(k, body) ==
    /\ records'  = IF k \in DOMAIN records
                   THEN [records EXCEPT ![k].body = body] ELSE records
    /\ requests' = IF k \in DOMAIN requests /\ k \notin DOMAIN records
                   THEN [requests EXCEPT ![k].body = body] ELSE requests

\* The same, also clearing stream_pending.
Settle(k, body) ==
    /\ records'  = IF k \in DOMAIN records
                   THEN [records EXCEPT ![k].body = body, ![k].pending = FALSE] ELSE records
    /\ requests' = IF k \in DOMAIN requests /\ k \notin DOMAIN records
                   THEN [requests EXCEPT ![k].body = body, ![k].pending = FALSE] ELSE requests

\* Oldest first, skipping entries whose key was replaced since.
Prune(table, queue, maximum) ==
    LET Step(acc, e) ==
            IF Cardinality(DOMAIN acc.table) <= maximum THEN acc
            ELSE LET hit == e[1] \in DOMAIN acc.table /\ acc.table[e[1]].sequence = e[2]
                 IN [table |-> IF hit THEN Restrict(acc.table, DOMAIN acc.table \ {e[1]})
                               ELSE acc.table,
                     queue |-> Tail(acc.queue),
                     freed |-> acc.freed + IF hit THEN BodyLen(acc.table[e[1]].body) ELSE 0]
    IN FoldLeft(Step, [table |-> table, queue |-> queue, freed |-> 0], queue)

NewRequest(k, v, network) ==
    [sequence |-> sequence + 1, variant |-> v, body |-> Streaming(<<>>),
     attempted |-> FALSE, pending |-> FALSE, network |-> network]

\* Mutant: an interceptor looks only for a pending request.
NeverRecorded(k, network) == FALSE

\* Fetch may be seen after the response was recorded.
AlreadyRecorded(k, network) == ~network /\ k \in DOMAIN records

\* A second Network observation of a pending request is a redirect: start again.
observe_request_id(k, v, network) ==
    IF AlreadyRecorded(k, network) THEN UNCHANGED tableVars
    ELSE LET existed == k \in DOMAIN requests
             reset   == existed /\ network /\ requests[k].network
             old     == IF existed THEN requests[k] ELSE NewRequest(k, v, network)
             kept    == IF reset THEN [old EXCEPT !.body = Streaming(<<>>),
                                                  !.attempted = FALSE, !.pending = FALSE]
                        ELSE old
             entry   == [kept EXCEPT !.network = @ \/ network, !.variant = v]
             queue   == IF existed THEN requestOrder
                        ELSE Append(requestOrder, <<k, sequence + 1>>)
             pruned  == Prune((k :> entry) @@ requests, queue, MAXIMUM_OBSERVED_RESPONSES)
         IN /\ sequence' = IF existed THEN sequence ELSE sequence + 1
            /\ requests' = pruned.table
            /\ requestOrder' = pruned.queue
            /\ bodyBytes' = Minus(bodyBytes, pruned.freed
                                    + IF reset THEN BodyLen(old.body) ELSE 0)
            /\ UNCHANGED <<records, order>>

\* The response takes over what its request gathered.
record_response(k, worker) ==
    LET known == k \in DOMAIN requests
        entry == [sequence |-> sequence + 1, worker |-> worker,
                  variant   |-> IF known THEN requests[k].variant ELSE "none",
                  body      |-> IF known THEN requests[k].body ELSE Unavailable,
                  attempted |-> known /\ requests[k].attempted,
                  pending   |-> known /\ requests[k].pending,
                  finished  |-> FALSE, failed |-> FALSE]
        replaced == IF k \in DOMAIN records THEN BodyLen(records[k].body) ELSE 0
        pruned == Prune((k :> entry) @@ records, Append(order, <<k, sequence + 1>>),
                        MAXIMUM_OBSERVED_RESPONSES)
    IN [requests |-> Restrict(requests, DOMAIN requests \ {k}),
        records  |-> pruned.table, order |-> pruned.queue,
        bytes    |-> Minus(bodyBytes, replaced + pruned.freed)]

CanBegin(entry) == ~entry.attempted /\ entry.variant # "none" /\ Reusable(entry.variant)

\* A stream is begun once for each observed request.
begin_observed_stream(k, table) ==
    LET e == table[k]
    IN [table EXCEPT ![k].attempted = TRUE, ![k].pending = TRUE,
                     ![k].body = IF "finished" \in DOMAIN e THEN Streaming(<<>>) ELSE @]

Available(k) == LET mine == observed_body_bytes(k)
                    other == Minus(bodyBytes, mine)
                IN Min({Minus(maximum_resource_bytes, mine),
                        Minus(maximum_total_resource_bytes, other)})

\* Mutant: only the limit of one resource is looked at again.
ExceedsOwn(own, total) == own > maximum_resource_bytes

Exceeds(own, total) == own > maximum_resource_bytes \/ total > maximum_total_resource_bytes

\* chunk is what was decoded, <<>> when the caller judged it too large; size
\* is what it would have held.
append_observed_chunk(k, chunk, size, prepend) ==
    LET mine  == observed_body_bytes(k)
        total == Minus(bodyBytes, mine) + mine + size
        held  == Held(k)
        takes == \/ held.kind = "streaming"
                 \/ held.kind = "complete" /\ prepend /\ k \in DOMAIN records
        joined == IF prepend THEN chunk \o held.data ELSE held.data \o chunk
    IN /\ IF Exceeds(mine + size, total)
          THEN /\ SetBody(k, TooLarge)
               /\ bodyBytes' = Minus(bodyBytes, mine)
          ELSE IF takes /\ chunk # <<>>
          THEN /\ SetBody(k, [held EXCEPT !.data = joined])
               /\ bodyBytes' = total
          ELSE UNCHANGED <<requests, records, bodyBytes>>
       /\ UNCHANGED <<sequence, requestOrder, order>>

mark_observed_body_unavailable(k) ==
    /\ Settle(k, IF Held(k).kind = "toolarge" THEN TooLarge ELSE Unavailable)
    /\ bodyBytes' = Minus(bodyBytes, observed_body_bytes(k))
    /\ UNCHANGED <<sequence, requestOrder, order>>

mark_observed_body_too_large(k) ==
    /\ Settle(k, TooLarge)
    /\ bodyBytes' = Minus(bodyBytes, observed_body_bytes(k))
    /\ UNCHANGED <<sequence, requestOrder, order>>

update_observed_completion(k, finished) ==
    /\ IF k \in DOMAIN records
       THEN LET r == records[k]
                body == IF ~finished \/ ~r.attempted THEN Unavailable
                        ELSE IF r.body.kind = "streaming" THEN Complete(r.body.data)
                        ELSE r.body
            IN /\ records' = [records EXCEPT ![k].body = body, ![k].pending = FALSE,
                                             ![k].finished = finished, ![k].failed = ~finished]
               /\ bodyBytes' = IF finished THEN bodyBytes ELSE Minus(bodyBytes, BodyLen(r.body))
               /\ UNCHANGED requests
       ELSE IF k \in DOMAIN requests /\ ~finished
       THEN /\ Settle(k, IF Held(k).kind = "toolarge" THEN TooLarge ELSE Unavailable)
            /\ bodyBytes' = Minus(bodyBytes, observed_body_bytes(k))
       ELSE UNCHANGED <<requests, records, bodyBytes>>
    /\ UNCHANGED <<sequence, requestOrder, order>>

-----------------------------------------------------------------------------
(* The browser (external): what Chromium may report for each request.       *)

\* An event waits for the observer, and goes nowhere once it has stopped.
Report(method, k, chunk) ==
    wireEvents' = IF observer = "running" THEN Append(wireEvents, <<method, k, chunk>>) ELSE <<>>
quietVars == <<tableVars, observer, measured, bodyTasks, interceptor, loaded>>

SendRequest(k, n, v) ==
    /\ remote[k].phase = "idle"
    /\ remote' = [remote EXCEPT ![k].phase = "sent", ![k].size = n, ![k].variant = v]
    /\ Report("request", k, 0)
    /\ UNCHANGED quietVars

FollowRedirect(k) ==
    /\ remote[k].phase = "sent" /\ ~remote[k].responded
    /\ remote[k].redirects < MaxRedirects
    /\ remote' = [remote EXCEPT ![k].redirects = @ + 1]
    /\ Report("request", k, 0)
    /\ UNCHANGED quietVars

\* A response paused for interception; Network may report it before it is resolved.
PauseResponse(k) ==
    /\ remote[k].phase = "sent" /\ ~remote[k].worker /\ ~remote[k].responded
    /\ remote' = [remote EXCEPT ![k].phase = "paused"]
    /\ interceptor' = [interceptor EXCEPT ![k].phase = "arrived"]
    /\ UNCHANGED <<tableVars, observer, measured, bodyTasks, wireEvents, loaded>>

ReportResponse(k) ==
    /\ ~remote[k].responded
    /\ remote[k].phase \in (IF remote[k].worker THEN {"sent"} ELSE {"paused", "resolved"})
    /\ remote' = [remote EXCEPT ![k].responded = TRUE]
    /\ Report("response", k, 0)
    /\ UNCHANGED quietVars

\* Data is reported only once the body of the request is being streamed.
DeliverData(k) ==
    /\ remote[k].worker /\ remote[k].responded /\ remote[k].phase = "sent"
    /\ remote[k].sent < remote[k].size
    /\ remote' = [remote EXCEPT ![k].sent = @ + 1]
    /\ IF remote[k].streams THEN Report("data", k, remote[k].sent + 1)
       ELSE UNCHANGED wireEvents
    /\ UNCHANGED quietVars

ReportFinished(k) ==
    /\ remote[k].responded
    /\ \/ remote[k].phase = "resolved"
       \/ remote[k].worker /\ remote[k].phase = "sent" /\ remote[k].sent = remote[k].size
    /\ remote' = [remote EXCEPT ![k].phase = "done"]
    /\ Report("finished", k, 0)
    /\ UNCHANGED quietVars

ReportFailed(k) ==
    /\ remote[k].phase \in {"sent", "rejected"}
    /\ remote' = [remote EXCEPT ![k].phase = "done"]
    /\ Report("failed", k, 0)
    /\ UNCHANGED quietVars

-----------------------------------------------------------------------------
(* Body tasks: the tasks of one key run in the order they were spawned.     *)

HasCapacity == SumFunction([k \in Keys |-> Len(bodyTasks[k])]) < MAXIMUM_RESOURCE_BODY_TASKS
Spawn(k, kind) == bodyTasks' = [bodyTasks EXCEPT
                      ![k] = Append(@, [kind |-> kind, phase |-> "ready", data |-> <<>>])]
Advance(k, phase, data) == bodyTasks' = [bodyTasks EXCEPT
                      ![k][1].phase = phase, ![k][1].data = data]
Leave(k) == bodyTasks' = [bodyTasks EXCEPT ![k] = Tail(@)]
Runs(k, kind, phase) == /\ bodyTasks[k] # <<>>
                        /\ bodyTasks[k][1].kind = kind /\ bodyTasks[k][1].phase = phase
taskRest == <<observer, measured, interceptor, wireEvents, loaded>>

\* Network.streamResourceContent: what the browser buffered so far, or a refusal.
AnswerStream(k) ==
    /\ Runs(k, "buffered", "ready")
    /\ \/ /\ Advance(k, "answered", Whole(remote[k].sent))
          /\ remote' = [remote EXCEPT ![k].streams = TRUE]
       \/ Leave(k) /\ UNCHANGED remote
    /\ UNCHANGED <<tableVars, taskRest>>

service_worker_body_pending(k) ==
    /\ k \in DOMAIN records
    /\ records[k].worker /\ records[k].attempted
    /\ records[k].body = Streaming(<<>>)

\* The body is asked for whole unless its declared length has no room.
capture_service_worker_body(k) ==
    /\ Runs(k, "body", "ready")
    /\ IF ~service_worker_body_pending(k)
       THEN Advance(k, "complete", <<>>) /\ UNCHANGED tableVars
       ELSE IF remote[k].size > Available(k)
       THEN /\ Advance(k, "complete", <<>>)
            /\ append_observed_chunk(k, <<>>, remote[k].size, FALSE)
       ELSE \/ Advance(k, "answered", Whole(remote[k].size)) /\ UNCHANGED tableVars
            \/ Advance(k, "complete", <<>>) /\ mark_observed_body_unavailable(k)
    /\ UNCHANGED <<remote, taskRest>>

\* append_observed_data_at reads the room left and only then takes the lock
\* again to append.
MeasureAnswer(k) ==
    /\ \E kind \in {"buffered", "body"} : Runs(k, kind, "answered")
    /\ Advance(k, IF Len(bodyTasks[k][1].data) > Available(k) THEN "unfit" ELSE "fit",
               bodyTasks[k][1].data)
    /\ UNCHANGED <<tableVars, remote, taskRest>>

AppendAnswer(k) ==
    /\ bodyTasks[k] # <<>> /\ bodyTasks[k][1].phase \in {"fit", "unfit"}
    /\ LET t == bodyTasks[k][1]
       IN /\ append_observed_chunk(k, IF t.phase = "fit" THEN t.data ELSE <<>>,
                                   Len(t.data), t.kind = "buffered")
          /\ IF t.kind = "buffered" THEN Leave(k) ELSE Advance(k, "complete", <<>>)
    /\ UNCHANGED <<remote, taskRest>>

CompleteBody(k) ==
    /\ Runs(k, "body", "complete")
    /\ update_observed_completion(k, TRUE)
    /\ Leave(k)
    /\ UNCHANGED <<remote, taskRest>>

-----------------------------------------------------------------------------
(* The observer applies the browser's events one at a time.                 *)

Next1 == Head(wireEvents)
Handles(method) == observer = "running" /\ wireEvents # <<>> /\ Next1[1] = method
observerRest == <<observer, interceptor, remote, loaded>>

ObserveRequest ==
    /\ Handles("request") /\ wireEvents' = Tail(wireEvents)
    /\ observe_request_id(Next1[2], remote[Next1[2]].variant, TRUE)
    /\ UNCHANGED <<measured, bodyTasks, observerRest>>

ObserveResponse ==
    /\ Handles("response") /\ wireEvents' = Tail(wireEvents)
    /\ LET k == Next1[2]
           r == record_response(k, remote[k].worker)
           streams == remote[k].worker /\ k \in DOMAIN r.records
       IN /\ requests' = r.requests /\ order' = r.order
          /\ sequence' = sequence + 1
          /\ UNCHANGED <<requestOrder, measured, observerRest>>
          /\ IF streams /\ ~HasCapacity
             THEN /\ records' = [r.records EXCEPT ![k].pending = FALSE,
                          ![k].body = IF @.kind = "toolarge" THEN @ ELSE Unavailable]
                  /\ bodyBytes' = Minus(r.bytes, BodyLen(r.records[k].body))
                  /\ UNCHANGED bodyTasks
             ELSE IF streams /\ CanBegin(r.records[k])
             THEN /\ records' = begin_observed_stream(k, r.records)
                  /\ bodyBytes' = Minus(r.bytes, BodyLen(r.records[k].body))
                  /\ Spawn(k, "buffered")
             ELSE /\ records' = r.records /\ bodyBytes' = r.bytes
                  /\ UNCHANGED bodyTasks

MeasureData ==
    /\ Handles("data") /\ measured = "none"
    /\ measured' = IF 1 > Available(Next1[2]) THEN "unfit" ELSE "fit"
    /\ UNCHANGED <<tableVars, bodyTasks, wireEvents, observerRest>>

AppendData ==
    /\ Handles("data") /\ measured # "none"
    /\ append_observed_chunk(Next1[2], IF measured = "fit" THEN <<Next1[3]>> ELSE <<>>, 1, FALSE)
    /\ measured' = "none" /\ wireEvents' = Tail(wireEvents)
    /\ UNCHANGED <<bodyTasks, observerRest>>

ObserveFinished ==
    /\ Handles("finished") /\ wireEvents' = Tail(wireEvents)
    /\ LET k == Next1[2]
       IN IF service_worker_body_pending(k) /\ HasCapacity
          THEN Spawn(k, "body") /\ UNCHANGED tableVars
          ELSE IF service_worker_body_pending(k)
          THEN /\ records' = [records EXCEPT ![k].body = Unavailable, ![k].pending = FALSE,
                                             ![k].finished = TRUE]
               /\ UNCHANGED <<requests, bodyBytes, sequence, requestOrder, order, bodyTasks>>
          ELSE update_observed_completion(k, TRUE) /\ UNCHANGED bodyTasks
    /\ UNCHANGED <<measured, observerRest>>

ObserveFailed ==
    /\ Handles("failed") /\ wireEvents' = Tail(wireEvents)
    /\ update_observed_completion(Next1[2], FALSE)
    /\ UNCHANGED <<measured, bodyTasks, observerRest>>

\* A lagging event stream or an undecodable body stops the observer with an
\* error; close stops it without one.  Either aborts the body tasks.
StopObserver(how) ==
    /\ observer = "running"
    /\ observer' = how
    /\ bodyTasks' = [k \in Keys |-> <<>>]
    /\ wireEvents' = <<>> /\ measured' = "none"
    /\ UNCHANGED <<tableVars, interceptor, remote, loaded>>

-----------------------------------------------------------------------------
(* The interceptor of a paused response (begin_stream, then the capture).   *)

Enters(k, phase) == interceptor' = [interceptor EXCEPT ![k].phase = phase]
interceptorRest == <<observer, measured, bodyTasks, wireEvents, loaded>>
Stage(k) == interceptor[k].phase
Read(k) == interceptor[k].read

LookUp(k) ==
    /\ Stage(k) = "arrived"
    /\ Enters(k, IF k \in DOMAIN requests \cup DOMAIN records THEN "begin" ELSE "observe")
    /\ UNCHANGED <<tableVars, remote, interceptorRest>>

ObserveFetch(k) ==
    /\ Stage(k) = "observe"
    /\ observe_request_id(k, remote[k].variant, FALSE)
    /\ Enters(k, "begin")
    /\ UNCHANGED <<remote, interceptorRest>>

Refreshed(table, k) == [table EXCEPT ![k].variant = remote[k].variant]

BeginStream(k) ==
    /\ Stage(k) = "begin"
    /\ LET inRequests == k \in DOMAIN requests
           table == Refreshed(IF inRequests THEN requests ELSE records, k)
           known == inRequests \/ k \in DOMAIN records
       IN IF known /\ CanBegin(table[k])
          THEN /\ Enters(k, "capture")
               /\ requests' = IF inRequests THEN begin_observed_stream(k, table) ELSE requests
               /\ records' = IF inRequests THEN records ELSE begin_observed_stream(k, table)
               /\ bodyBytes' = IF inRequests THEN bodyBytes
                               ELSE Minus(bodyBytes, BodyLen(records[k].body))
               /\ UNCHANGED remote
          ELSE /\ Enters(k, "idle")
               /\ remote' = [remote EXCEPT ![k].phase = "resolved"]
               /\ UNCHANGED <<requests, records, bodyBytes>>
    /\ UNCHANGED <<sequence, requestOrder, order, interceptorRest>>

\* The next chunk of the stream; the stream itself stops past the limit.
CaptureChunk(k) ==
    /\ Stage(k) = "capture" /\ Read(k) < remote[k].size
    /\ IF Read(k) + 1 > maximum_resource_bytes
       THEN mark_observed_body_too_large(k) /\ Enters(k, "reject")
       ELSE /\ append_observed_chunk(k, <<Read(k) + 1>>, 1, FALSE)
            /\ interceptor' = [interceptor EXCEPT ![k] =
                   IF Held(k)'.kind = "toolarge" THEN [phase |-> "reject", read |-> 0]
                   ELSE [phase |-> "capture", read |-> @.read + 1]]
    /\ UNCHANGED <<remote, interceptorRest>>

\* complete_observed_stream, then the declared length against the bytes held.
CompleteStream(k) ==
    /\ Stage(k) = "capture" /\ Read(k) = remote[k].size
    /\ LET held == Held(k)
       IN IF held.kind \in {"streaming", "complete"}
          THEN /\ Settle(k, Complete(held.data))
               /\ \/ Enters(k, "idle") /\ remote' = [remote EXCEPT ![k].phase = "resolved"]
                  \/ Enters(k, "reject") /\ UNCHANGED remote
          ELSE Enters(k, "reject") /\ UNCHANGED <<requests, records, remote>>
    /\ UNCHANGED <<bodyBytes, sequence, requestOrder, order, interceptorRest>>

\* The stream breaks or interception is cancelled.
AbandonStream(k) ==
    /\ Stage(k) = "capture"
    /\ Enters(k, "reject")
    /\ UNCHANGED <<tableVars, remote, interceptorRest>>

reject_intercepted_response(k) ==
    /\ Stage(k) = "reject"
    /\ mark_observed_body_unavailable(k)
    /\ Enters(k, "idle")
    /\ remote' = [remote EXCEPT ![k].phase = "rejected"]
    /\ UNCHANGED interceptorRest

-----------------------------------------------------------------------------
(* The loader.                                                              *)

MatchingRequests == DOMAIN requests \cap Matching
Candidates == DOMAIN records \cap Matching
BodyKinds(table, S) == {table[k].body.kind : k \in S}

ReadySet == {k \in Candidates : /\ records[k].finished /\ ~records[k].failed
                                /\ records[k].body.kind = "complete"}
Latest == CHOOSE k \in ReadySet : \A x \in ReadySet : records[x].sequence <= records[k].sequence

select_reusable_response ==
    CASE Candidates = {} ->
            (CASE "toolarge" \in BodyKinds(requests, MatchingRequests) -> "toolarge"
               [] "unavailable" \in BodyKinds(requests, MatchingRequests) -> "unavailable"
               [] MatchingRequests = {} -> "missing"
               [] OTHER -> "pending")
      [] Candidates # {} /\ ( \/ MatchingRequests # {}
                              \/ \E k \in Candidates : records[k].pending \/ ~records[k].finished)
            -> "pending"
      [] OTHER ->
            IF \/ Cardinality({records[k].variant : k \in Candidates} \ {"none"}) # 1
               \/ \E k \in Candidates : records[k].variant = "none" \/ ~Reusable(records[k].variant)
            THEN "ambiguous"
            ELSE IF ReadySet = {}
            THEN IF "toolarge" \in BodyKinds(records, Candidates) THEN "toolarge" ELSE "unavailable"
            ELSE IF \E k \in Candidates : records[k].body # records[Latest].body
            THEN "ambiguous" ELSE "ready"

Load ==
    /\ observer = "running" /\ select_reusable_response = "ready"
    /\ loaded' = [key |-> Latest, data |-> records[Latest].body.data]
    /\ UNCHANGED <<tableVars, observer, measured, bodyTasks, interceptor, wireEvents, remote>>

ObservedNext ==
    \/ \E k \in Keys, n \in BodySizes, v \in Variants : SendRequest(k, n, v)
    \/ \E k \in Keys : \/ FollowRedirect(k) \/ PauseResponse(k) \/ ReportResponse(k)
                       \/ DeliverData(k) \/ ReportFinished(k) \/ ReportFailed(k)
                       \/ AnswerStream(k) \/ capture_service_worker_body(k)
                       \/ MeasureAnswer(k) \/ AppendAnswer(k) \/ CompleteBody(k)
                       \/ LookUp(k) \/ ObserveFetch(k) \/ BeginStream(k)
                       \/ CaptureChunk(k) \/ CompleteStream(k) \/ AbandonStream(k)
                       \/ reject_intercepted_response(k)
    \/ ObserveRequest \/ ObserveResponse \/ MeasureData \/ AppendData
    \/ ObserveFinished \/ ObserveFailed
    \/ \E how \in {"failed", "closed"} : StopObserver(how)
    \/ Load

ObservedSpec == ObservedInit /\ [][ObservedNext]_resourceVars

-----------------------------------------------------------------------------
BodyType == [kind : {"streaming", "complete", "unavailable", "toolarge"},
             data : Seq(1..(maximum_resource_bytes + 1))]

\* Types of the tables, the bodies and the interceptors.
ObservedTypeOK ==
    /\ DOMAIN requests \subseteq Keys /\ DOMAIN records \subseteq Keys
    /\ \A k \in DOMAIN requests : requests[k].body \in BodyType
    /\ \A k \in DOMAIN records : records[k].body \in BodyType
    /\ bodyBytes \in Nat
    /\ interceptor \in [Keys -> [phase : {"idle", "arrived", "observe", "begin", "capture", "reject"},
                                 read : 0..maximum_resource_bytes]]

Retained == SumFunction([k \in DOMAIN requests |-> BodyLen(requests[k].body)])
            + SumFunction([k \in DOMAIN records |-> BodyLen(records[k].body)])

\* However the observer, its body tasks, the interceptors and pruning
\* interleave, the bytes held in the table never exceed what body_bytes
\* accounts for, nor does the account exceed maximum_total_resource_bytes:
\* append_observed_chunk re-checks both limits under the lock in which it
\* appends, whatever was measured before.
RetainedWithinBudget ==
    Retained <= bodyBytes /\ bodyBytes <= maximum_total_resource_bytes

\* A response recorded while its interceptor waited for the lock is not
\* reopened by it: once the browser is done with a request, its events are
\* applied and its interceptor has left, no pending request shadows the
\* finished record (observe_request_id returns for a recorded key, and
\* record_response takes the request with it), so a load is not held up by it.
LateFetchHarmless ==
    \A k \in DOMAIN records :
        (records[k].finished /\ wireEvents = <<>> /\ Stage(k) = "idle") => k \notin DOMAIN requests

\* A load answers with all the bytes the browser received for the response.
ObservedBytesPreserved ==
    loaded.key # "none" => loaded.data = Whole(remote[loaded.key].size)
=============================================================================
