-------------------------- MODULE NetworkActivity ---------------------------
(***************************************************************************)
(* Which requests of a page are in flight, and how settle waits for them   *)
(* (chromium/src/page/activity.rs, settle in page.rs).                     *)
(*                                                                         *)
(* One task reads the activity events and wakes the waiters after every    *)
(* change.  A waiter takes its place among them before it reads the state: *)
(* a change after the read then wakes it.  Time is a clock that counts how *)
(* long nothing has changed, up to the quiet period.                       *)
(***************************************************************************)
EXTENDS Integers, FiniteSets, Sequences

CONSTANTS Requests,      \* tracked requests
          Untracked,     \* web sockets, event sources, blob: and data: URLs
          Quiet          \* the quiet period, in ticks

VARIABLES activityEvents,  \* what the browser reported and the task has not read
          inFlight,        \* ActivityState.active
          sinceChange,     \* ticks since last_change, at most Quiet
          activityError, activityTask,
          requestState,    \* each request: none, sent or done
          settling         \* the settle call: step, waits left, state seen

activityVars == <<activityEvents, inFlight, sinceChange, activityError, activityTask,
                  requestState, settling>>

AllRequests == Requests \cup Untracked
\* settle of RenderIdle waits twice for quiet, settle of NetworkIdle once for idle.
Waits == {<<"quiet", "quiet">>, <<"idle">>, <<>>}

ActivityInit ==
    /\ activityEvents = <<>> /\ inFlight = {} /\ sinceChange = 0
    /\ activityError = FALSE /\ activityTask = "runs"
    /\ requestState = [r \in AllRequests |-> "none"]
    /\ \E waits \in Waits : settling = [step |-> "next", waits |-> waits, notified |-> FALSE,
                                           seen |-> "none"]

-----------------------------------------------------------------------------
(* The browser (external). *)

ReportActivity(r, from, to, method) ==
    /\ requestState[r] = from
    /\ requestState' = [requestState EXCEPT ![r] = to]
    /\ activityEvents' = Append(activityEvents, <<method, r>>)
    /\ UNCHANGED <<inFlight, sinceChange, activityError, activityTask, settling>>

RequestWillBeSent(r) == ReportActivity(r, "none", "sent", "requestWillBeSent")
LoadingEnds(r) == ReportActivity(r, "sent", "done", "loadingEnds")

-----------------------------------------------------------------------------
(* The task of NetworkActivity::start. *)

tracks_readiness_request(r) == r \notin Untracked
notify_waiters == settling' = [settling EXCEPT !.notified = TRUE]

ReadActivity ==
    /\ activityTask = "runs" /\ activityEvents # <<>>
    /\ activityEvents' = Tail(activityEvents)
    /\ LET r == Head(activityEvents)[2]
           starts == Head(activityEvents)[1] = "requestWillBeSent"
       IN IF IF starts THEN tracks_readiness_request(r) ELSE r \in inFlight
          THEN /\ inFlight' = IF starts THEN inFlight \cup {r} ELSE inFlight \ {r}
               /\ sinceChange' = 0 /\ notify_waiters
          ELSE UNCHANGED <<inFlight, sinceChange, settling>>
    /\ UNCHANGED <<activityError, activityTask, requestState>>

\* A lagging or closed stream ends the task with its error recorded.
ActivityFails ==
    /\ activityTask = "runs"
    /\ activityTask' = "ended" /\ activityError' = TRUE
    /\ notify_waiters
    /\ UNCHANGED <<activityEvents, inFlight, sinceChange, requestState>>

Elapse ==
    /\ sinceChange < Quiet
    /\ sinceChange' = sinceChange + 1
    /\ UNCHANGED <<activityEvents, inFlight, activityError, activityTask, requestState, settling>>

-----------------------------------------------------------------------------
(* wait_for_quiet and wait_for_idle, called by settle. *)

waiterRest == <<activityEvents, inFlight, sinceChange, activityError, activityTask, requestState>>
Settle(step) == settling' = [settling EXCEPT !.step = step]

\* changed.notified(): wakeups are received from here on.
Register ==
    /\ settling.step = "next" /\ settling.waits # <<>>
    /\ settling' = [settling EXCEPT !.step = "read", !.notified = FALSE]
    /\ UNCHANGED waiterRest

\* The state is read under its lock and acted on after the lock is released.
ReadState ==
    /\ settling.step = "read"
    /\ settling' = [settling EXCEPT !.step = "decide",
                       !.seen = IF activityError THEN "error"
                                ELSE IF Head(settling.waits) = "idle" /\ inFlight # {} THEN "busy"
                                ELSE IF sinceChange < Quiet THEN "recent" ELSE "quiet"]
    /\ UNCHANGED waiterRest

WaitUnregistered ==
    /\ settling.step = "decide"
    /\ settling' = CASE settling.seen = "error" -> [settling EXCEPT !.step = "failed"]
                      [] settling.seen = "busy" -> [settling EXCEPT !.step = "awaits", !.notified = FALSE]
                      [] settling.seen = "recent" -> [settling EXCEPT !.step = "sleeps"]
                      [] OTHER -> [settling EXCEPT !.step = "next", !.waits = Tail(@)]
    /\ UNCHANGED waiterRest

ActOnState ==
    /\ settling.step = "decide"
    /\ settling' = CASE settling.seen = "error" -> [settling EXCEPT !.step = "failed"]
                      [] settling.seen = "busy" -> [settling EXCEPT !.step = "awaits"]
                      [] settling.seen = "recent" -> [settling EXCEPT !.step = "sleeps"]
                      [] OTHER -> [settling EXCEPT !.step = "next", !.waits = Tail(@)]
    /\ UNCHANGED waiterRest

WakeUp ==
    /\ settling.step \in {"awaits", "sleeps"}
    /\ settling.notified \/ (settling.step = "sleeps" /\ sinceChange = Quiet)
    /\ Settle("next")
    /\ UNCHANGED waiterRest

\* freeze_rendering, then the in-flight count of the observation.
Settled ==
    /\ settling.step = "next" /\ settling.waits = <<>>
    /\ Settle(IF activityError THEN "failed" ELSE "settled")
    /\ UNCHANGED waiterRest

SettleStep == Register \/ ReadState \/ ActOnState \/ WakeUp \/ Settled

ActivityNext ==
    \/ \E r \in AllRequests : RequestWillBeSent(r) \/ LoadingEnds(r)
    \/ ReadActivity \/ ActivityFails \/ Elapse
    \/ SettleStep

\* Requests that were sent finish or fail, time passes, and the runtime
\* schedules the task and the waiter.
ActivityFairness ==
    /\ WF_activityVars(ReadActivity) /\ WF_activityVars(Elapse) /\ WF_activityVars(SettleStep)
    /\ \A r \in Requests : WF_activityVars(LoadingEnds(r))
ActivitySpec == ActivityInit /\ [][ActivityNext]_activityVars /\ ActivityFairness

-----------------------------------------------------------------------------
\* Types; only requests that exist are in flight.
ActivityTypeOK ==
    /\ inFlight \subseteq Requests /\ sinceChange \in 0..Quiet
    /\ activityError \in BOOLEAN /\ settling.waits \in Seq({"quiet", "idle"})

\* settle returns although it waits without a timer while requests are in
\* flight: no change slips between reading the state and waiting for the next
\* one, and a failing event stream wakes the waiter too.
Returned == settling.step \in {"settled", "failed"}

=============================================================================
