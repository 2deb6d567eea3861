-------------------------- MODULE PageInterception --------------------------
(***************************************************************************)
(* Every request and response the browser pauses for the page is resolved  *)
(* by a task of its own (chromium/src/page/interception.rs,                *)
(* page/interception/paused.rs), while navigate waits for the document     *)
(* (page/navigation.rs) and must not report a document the network policy  *)
(* refused as loaded.                                                      *)
(*                                                                         *)
(* A pause is one Fetch.requestPaused event.  Main is the document request *)
(* of the navigation; Responses holds the pauses at the response stage,    *)
(* the others are requests that the guard must decide.  A failure is       *)
(* recorded only when the loop joins the task, after the browser has       *)
(* already acted on the verdict.                                           *)
(***************************************************************************)
EXTENDS Integers, FiniteSets, Sequences

CONSTANTS Pauses, Responses, Main, MAXIMUM_INTERCEPTION_TASKS,
          MAXIMUM_DNS_DECISIONS, MAXIMUM_RESPONSE_STREAMS, RedirectLimit,
          MaxHops         \* bound: redirects the browser follows

VARIABLES pausedEvents,   \* pauses the loop has not read
          loop,           \* running, draining, ended
          cancelled,      \* the cancellation token of the controller
          task,           \* each pause: its step
          resolution,     \* the terminal commands the browser got for each pause
          failures,       \* what the task of each pause will report when joined
          interceptErrors,\* the recorded (owner, document) keys
          navEvents,      \* navigation events the browser reported, unread
          navigation,     \* idle, asked, waits, loaded, refused, failed, timeout
          hops, counted,  \* redirects of the document: made, and counted by navigate
          fetchEnabled    \* whether the browser still pauses requests

interceptVars == <<pausedEvents, loop, cancelled, task, resolution, failures,
                   interceptErrors, navEvents, navigation, hops, counted, fetchEnabled>>

Holding == {p \in Pauses : task[p] \notin {"none", "queued", "dropped", "joined", "overload"}}

InterceptInit ==
    /\ pausedEvents = <<>> /\ loop = "running" /\ cancelled = FALSE
    /\ task = [p \in Pauses |-> "none"]
    /\ resolution = [p \in Pauses |-> {}]
    /\ failures = [p \in Pauses |-> {}]
    /\ interceptErrors = {} /\ navEvents = <<>>
    /\ navigation = "idle" /\ hops = 0 /\ counted = 0 /\ fetchEnabled = TRUE

Step(p, from, to) == task[p] = from /\ task' = [task EXCEPT ![p] = to]

-----------------------------------------------------------------------------
(* The browser (external). *)

\* Page.navigate first follows redirects, each reported as an event.
Pause(p) ==
    /\ task[p] = "none" /\ fetchEnabled
    /\ p = Main => navigation = "asked"
    /\ task' = [task EXCEPT ![p] = IF loop = "running" THEN "queued" ELSE "dropped"]
    /\ pausedEvents' = IF loop = "running" THEN Append(pausedEvents, p) ELSE <<>>
    /\ UNCHANGED <<loop, cancelled, resolution, failures, interceptErrors, navEvents,
                   navigation, hops, counted, fetchEnabled>>

Redirect ==
    /\ navigation = "asked" /\ resolution[Main] = {} /\ hops < MaxHops
    /\ hops' = hops + 1
    /\ navEvents' = Append(navEvents, "redirect")
    /\ UNCHANGED <<pausedEvents, loop, cancelled, task, resolution, failures,
                   interceptErrors, navigation, counted, fetchEnabled>>

-----------------------------------------------------------------------------
(* The loop of NetworkInterception::start. *)

loopRest == <<resolution, failures, navEvents, navigation, hops, counted, fetchEnabled>>
record(keys) == interceptErrors' = interceptErrors \cup keys

\* cancel and drain: pauses still unread are never taken up.
Stop ==
    /\ loop' = "draining" /\ cancelled' = TRUE
    /\ pausedEvents' = <<>>
    /\ task' = [p \in Pauses |-> IF task[p] = "queued" THEN "dropped" ELSE task[p]]

TakePause ==
    /\ loop = "running" /\ ~cancelled /\ pausedEvents # <<>>
    /\ LET p == Head(pausedEvents)
       IN IF Cardinality(Holding) >= MAXIMUM_INTERCEPTION_TASKS
          THEN /\ task' = [task EXCEPT ![p] = "overload"]
               /\ record({<<"none", FALSE>>})
          ELSE /\ task' = [task EXCEPT ![p] = "prepare"]
               /\ UNCHANGED interceptErrors
    /\ pausedEvents' = Tail(pausedEvents)
    /\ UNCHANGED <<loop, cancelled, loopRest>>

\* A lagging stream or a pause without an identifier.
LoopFails ==
    /\ loop = "running"
    /\ Stop
    /\ record({<<"none", TRUE>>})
    /\ UNCHANGED loopRest

SeeCancellation ==
    /\ loop = "running" /\ cancelled
    /\ Stop
    /\ UNCHANGED <<interceptErrors, loopRest>>

\* record_interception_task_completion
JoinTask(p) ==
    /\ loop # "ended" /\ Step(p, "finished", "joined")
    /\ record(failures[p])
    /\ UNCHANGED <<pausedEvents, loop, cancelled, loopRest>>

Drained ==
    /\ loop = "draining" /\ Holding = {}
    /\ loop' = "ended"
    /\ UNCHANGED <<pausedEvents, cancelled, task, interceptErrors, loopRest>>

-----------------------------------------------------------------------------
(* The task of one pause: PausedRequest::run. *)

taskRest == <<pausedEvents, loop, cancelled, interceptErrors, navigation, hops, counted, fetchEnabled>>
Owner(p) == IF p = Main THEN "main" ELSE "other"
Fails(p, key) == failures' = [failures EXCEPT ![p] = @ \cup {key}]

\* prepare_response: most responses go on as they are, the rest is captured.
\* prepare_request: an unusable URL is refused, the rest is guarded.
Prepare(p) ==
    /\ IF p \in Responses
       THEN (Step(p, "prepare", "ContinueResponse") \/ Step(p, "prepare", "capture")) /\ UNCHANGED failures
       ELSE \/ Step(p, "prepare", "guard") /\ UNCHANGED failures
            \/ Step(p, "prepare", "Fail") /\ Fails(p, <<Owner(p), p = Main>>)
    /\ UNCHANGED <<taskRest, resolution, navEvents>>

Permits(step, limit) == Cardinality({q \in Pauses : task[q] = step}) < limit

AcquirePermit(p) ==
    /\ \/ Step(p, "guard", "deciding") /\ Permits("deciding", MAXIMUM_DNS_DECISIONS)
       \/ Step(p, "capture", "streaming") /\ Permits("streaming", MAXIMUM_RESPONSE_STREAMS)
    /\ UNCHANGED <<taskRest, failures, resolution, navEvents>>

\* bounded_guard_destination: the deadline covers the wait for a permit too.
Decide(p) ==
    /\ \/ Step(p, "deciding", "ContinueRequest") /\ UNCHANGED failures
       \/ /\ \E s \in {"guard", "deciding"} : Step(p, s, "Fail")
          /\ Fails(p, <<Owner(p), p = Main>>)
    /\ UNCHANGED <<taskRest, resolution, navEvents>>

\* capture_response; a failure is a resource failure, never the document's.
CaptureEnds(p) ==
    /\ \/ Step(p, "streaming", "Fulfill") /\ UNCHANGED failures
       \/ Step(p, "streaming", "Fail") /\ Fails(p, <<Owner(p), FALSE>>)
    /\ UNCHANGED <<taskRest, resolution, navEvents>>

\* Mutant: a cancelled task ends without a terminal command.
CancelUnresolved(p) ==
    /\ cancelled
    /\ \E s \in {"guard", "deciding", "capture", "streaming"} : Step(p, s, "finished")
    /\ UNCHANGED <<taskRest, failures, resolution, navEvents>>

CancelTask(p) ==
    /\ cancelled
    /\ \E s \in {"guard", "deciding", "capture", "streaming"} : Step(p, s, "Fail")
    /\ UNCHANGED <<taskRest, failures, resolution, navEvents>>

Verdicts == {"ContinueRequest", "ContinueResponse", "Fulfill", "Fail"}

\* The terminal command; the browser acts on it before the task is joined.
Resolve(p) ==
    /\ task[p] \in Verdicts
    /\ task' = [task EXCEPT ![p] = "finished"]
    /\ \/ /\ resolution' = [resolution EXCEPT ![p] = @ \cup {task[p]}]
          /\ UNCHANGED failures
       \/ Fails(p, <<"none", TRUE>>) /\ UNCHANGED resolution
    /\ UNCHANGED <<taskRest, navEvents>>

\* fail_overloaded: the command is not waited for.
FailOverloaded(p) ==
    /\ Step(p, "overload", "joined")
    /\ resolution' = [resolution EXCEPT ![p] = @ \cup {"Fail"}]
    /\ UNCHANGED <<taskRest, failures, navEvents>>

-----------------------------------------------------------------------------
(* navigate. *)

navigateRest == <<loop, cancelled, task, resolution, failures, interceptErrors, pausedEvents,
                  counted, fetchEnabled>>

\* interception_error(frame, false): a document error of this frame or of no frame.
DocumentError == <<"main", TRUE>> \in interceptErrors \/ <<"none", TRUE>> \in interceptErrors
Returns(result) == navigation' = result
MainVerdict == resolution[Main]

Navigate ==
    /\ navigation = "idle" /\ Returns("asked")
    /\ UNCHANGED <<navigateRest, navEvents, hops>>

\* Page.navigate is answered once the document request has its verdict, with
\* an error text when it was refused; the loaded document reports its milestone.
NavigateAnswered ==
    /\ navigation = "asked" /\ MainVerdict # {}
    /\ IF "Fail" \in MainVerdict
       THEN (Returns("refused") \/ Returns("failed")) /\ UNCHANGED navEvents
       ELSE /\ Returns("waits")
            /\ \E last \in {"milestone", "loadingFailed"} : navEvents' = Append(navEvents, last)
    /\ UNCHANGED <<navigateRest, hops>>

NavigateTimesOut ==
    /\ navigation \in {"asked", "waits"} /\ Returns("timeout")
    /\ UNCHANGED <<navigateRest, navEvents, hops>>

HeadEvent(event) == navigation = "waits" /\ navEvents # <<>> /\ Head(navEvents) = event

\* Mutant: the limit is compared before the hop at hand is counted.
SeeRedirectLate ==
    /\ HeadEvent("redirect") /\ navEvents' = Tail(navEvents)
    /\ counted' = counted + 1
    /\ IF counted > RedirectLimit THEN Returns("failed") ELSE UNCHANGED navigation
    /\ UNCHANGED <<loop, cancelled, task, resolution, failures, interceptErrors,
                   pausedEvents, fetchEnabled, hops>>

\* The hops are counted as their events are read, after the browser made them.
SeeRedirect ==
    /\ HeadEvent("redirect") /\ navEvents' = Tail(navEvents)
    /\ counted' = counted + 1
    /\ IF counted + 1 > RedirectLimit THEN Returns("failed") ELSE UNCHANGED navigation
    /\ UNCHANGED <<loop, cancelled, task, resolution, failures, interceptErrors,
                   pausedEvents, fetchEnabled, hops>>

\* loadingFailed of the main request: any recorded error explains it.
SeeLoadingFailed ==
    /\ HeadEvent("loadingFailed") /\ navEvents' = Tail(navEvents)
    /\ Returns(IF interceptErrors # {} THEN "refused" ELSE "failed")
    /\ UNCHANGED <<navigateRest, hops>>

SeeMilestone ==
    /\ HeadEvent("milestone") /\ navEvents' = Tail(navEvents)
    /\ Returns(IF DocumentError THEN "refused" ELSE "loaded")
    /\ UNCHANGED <<navigateRest, hops>>

\* The probe polls the page between events: those reported before the answer
\* are read before its first interval has passed.
ReadinessProbe ==
    /\ navigation = "waits" /\ "redirect" \notin {navEvents[i] : i \in 1..Len(navEvents)}
    /\ Returns(IF DocumentError THEN "refused" ELSE "loaded")
    /\ UNCHANGED <<navigateRest, navEvents, hops>>

\* ChromiumPage::close: Fetch.disable releases what is paused, then close.
CloseInterception ==
    /\ navigation \notin {"asked", "waits"} /\ ~cancelled
    /\ cancelled' = TRUE /\ fetchEnabled' = FALSE
    /\ UNCHANGED <<loop, task, resolution, failures, interceptErrors, pausedEvents,
                   navEvents, navigation, hops, counted>>

TaskStep(p) == \/ Prepare(p) \/ AcquirePermit(p) \/ Decide(p) \/ CaptureEnds(p)
               \/ CancelTask(p) \/ Resolve(p) \/ FailOverloaded(p) \/ JoinTask(p)
LoopStep == TakePause \/ SeeCancellation \/ Drained

InterceptNext ==
    \/ \E p \in Pauses : Pause(p) \/ TaskStep(p)
    \/ Redirect
    \/ LoopStep \/ LoopFails
    \/ Navigate \/ NavigateAnswered \/ NavigateTimesOut
    \/ SeeRedirect \/ SeeLoadingFailed \/ SeeMilestone \/ ReadinessProbe
    \/ CloseInterception

\* Each task is scheduled by the runtime; DNS decisions and body streams end
\* because of their deadlines.
InterceptFairness == WF_interceptVars(LoopStep) /\ \A p \in Pauses : WF_interceptVars(TaskStep(p))
InterceptSpec == InterceptInit /\ [][InterceptNext]_interceptVars /\ InterceptFairness

-----------------------------------------------------------------------------
\* Types; decisions and body streams stay within their permits.
InterceptTypeOK ==
    /\ loop \in {"running", "draining", "ended"} /\ cancelled \in BOOLEAN
    /\ resolution \in [Pauses -> SUBSET Verdicts]
    /\ interceptErrors \subseteq {"none", "main", "other"} \X BOOLEAN
    /\ navigation \in {"idle", "asked", "waits", "loaded", "refused", "failed", "timeout"}
    /\ Cardinality({p \in Pauses : task[p] = "deciding"}) <= MAXIMUM_DNS_DECISIONS
    /\ Cardinality({p \in Pauses : task[p] = "streaming"}) <= MAXIMUM_RESPONSE_STREAMS

\* navigate never reports a document as loaded that interception refused, nor
\* one reached over more than redirect_limit hops: the verdict reaches it in the
\* answer of Page.navigate although the loop records it later, and the hops are
\* read from the event queue before any milestone or readiness probe.
LoadedWithinPolicy ==
    navigation = "loaded" => "Fail" \notin resolution[Main] /\ hops <= RedirectLimit

\* Every request the browser paused is resolved, unless interception stopped
\* before reading it: waiting for a permit, denial, timeout, a failing body
\* stream, overload and cancellation all end in a terminal command.
SomeQueued == \E p \in Pauses : task[p] = "queued"
AllResolved == \A p \in Pauses : \/ task[p] \in {"none", "dropped"}
                                 \/ resolution[p] # {} \/ <<"none", TRUE>> \in failures[p]

=============================================================================
