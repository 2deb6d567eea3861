---------------------------- MODULE CaptureJobs ----------------------------
(***************************************************************************)
(* Capture jobs and the runtime that owns them: how a job is admitted, how *)
(* its pipeline advances, how cancellation, the deadline and the commit of *)
(* the artifact compete for one terminal decision, how the outcome becomes *)
(* the status, the terminal event and the result, and how closing the      *)
(* runtime cancels and waits for every registered job.                     *)
(*                                                                         *)
(* One job is one spawned task; callers of `cancel` and of `close` run on  *)
(* other threads and interleave with it at every atomic access.            *)
(***************************************************************************)
EXTENDS Naturals

CONSTANTS
    Jobs,            \* the captures a client may start
    Closers,         \* the callers of `close`
    MaxPanics,       \* how many pipelines may panic
    ShutdownTimers   \* whether the ten-second shutdown timers may expire

ASSUME JobsAssumption == MaxPanics \in Nat /\ ShutdownTimers \in BOOLEAN

VARIABLES
    phase,        \* RuntimeLifecycle::phase
    shutdown,     \* the runtime's cancellation token
    registry,     \* RuntimeState::jobs
    locked,       \* the closing thread holds the registry lock
    decision,     \* JobControl::terminal_decision
    claimedBy,    \* who first moved the decision away from undecided
    token,        \* the jobs whose own cancellation token is cancelled
    signalling,   \* <<job, thread>>: claimed cancellation, token not yet set
    armed,        \* the jobs whose deadline still races the pipeline
    timedOut,     \* the jobs whose deadline won the cancellation
    status,       \* CaptureStateMachine::status
    pc,           \* where the job's task is
    outcome,      \* what the pipeline returned
    verdict,      \* what the task made of it
    committed,    \* the jobs whose artifact is at its destination
    events,       \* the terminal event a job emitted, "several" after two
    result,       \* JobState::result
    panics,       \* panics so far
    closer,       \* where each caller of `close` is
    closing,      \* where the shutdown is
    swept,        \* the jobs the closing thread already visited
    woken,        \* a registry change was notified since the last arming
    closeError,   \* the first error of the shutdown so far
    closeResult   \* RuntimeLifecycle::terminal

controlVars == <<decision, claimedBy, token, signalling, armed, timedOut>>
jobVars == <<status, pc, outcome, verdict, committed, events, result, panics>>
closeVars == <<phase, shutdown, locked, closer, closing, swept, closeError, closeResult>>
vars == <<phase, shutdown, registry, locked, decision, claimedBy, token,
          signalling, armed, timedOut, status, pc, outcome, verdict, committed,
          events, result, panics, closer, closing, swept, woken, closeError, closeResult>>

Pipeline == {"created", "validating", "waitingForBrowser", "navigating",
             "waitingForReadiness", "collecting", "resolvingResources",
             "transforming", "encoding", "verifying", "committing"}
Terminal == {"succeeded", "failed", "cancelled"}

\* The order the pipeline visits its stages in.
Following ==
    [created |-> "validating", validating |-> "waitingForBrowser",
     waitingForBrowser |-> "navigating", navigating |-> "waitingForReadiness",
     waitingForReadiness |-> "collecting", collecting |-> "resolvingResources",
     resolvingResources |-> "transforming", transforming |-> "encoding",
     encoding |-> "verifying", verifying |-> "committing"]

\* The transitions the state machine accepts.
can_transition(current, next) ==
    \/ current \in DOMAIN Following /\ next = Following[current]
    \/ current = "committing" /\ next = "succeeded"
    \/ current = "cancelling" /\ next \in {"cancelled", "failed"}
    \/ current \in Pipeline /\ next \in {"cancelling", "failed"}

Init ==
    /\ phase = "OPEN" /\ shutdown = FALSE /\ registry = {} /\ locked = FALSE
    /\ decision = [j \in Jobs |-> "undecided"]
    /\ claimedBy = [j \in Jobs |-> "nobody"]
    /\ token = {} /\ signalling = {} /\ armed = {} /\ timedOut = {}
    /\ status = [j \in Jobs |-> "created"]
    /\ pc = [j \in Jobs |-> "new"]
    /\ outcome = [j \in Jobs |-> "none"]
    /\ verdict = [j \in Jobs |-> "none"]
    /\ committed = {}
    /\ events = [j \in Jobs |-> "none"]
    /\ result = [j \in Jobs |-> "none"]
    /\ panics = 0
    /\ closer = [c \in Closers |-> "idle"]
    /\ closing = "none" /\ swept = {} /\ woken = FALSE
    /\ closeError = "none" /\ closeResult = "none"
-----------------------------------------------------------------------------
(* The terminal decision. *)

\* is_cancelled: a job's token is a child of the runtime's shutdown token.
Cancelled(j) == j \in token \/ shutdown

\* request_cancel, first half: the compare-and-swap. The thread that finds
\* the decision undecided or already cancelled goes on to cancel the token.
ClaimCancellation(j, who) ==
    /\ decision' = [decision EXCEPT ![j] = IF @ = "undecided" THEN "cancellation" ELSE @]
    /\ claimedBy' = [claimedBy EXCEPT ![j] = IF decision[j] = "undecided" THEN who ELSE @]
    /\ signalling' = IF decision[j] = "commit" THEN signalling
                     ELSE signalling \cup {<<j, who>>}

\* request_cancel, second half: cancelling the token.
Signal(j, who) ==
    /\ <<j, who>> \in signalling
    /\ signalling' = signalling \ {<<j, who>>}
    /\ token' = token \cup {j}
    /\ UNCHANGED <<decision, claimedBy, armed, timedOut, registry, woken, jobVars, closeVars>>

\* CaptureJob::cancel, which only a client holding the job can call.
Cancel(j) ==
    /\ pc[j] \notin {"new", "admitted", "refused"}
    /\ <<j, "caller">> \notin signalling
    /\ result[j] = "none"
    /\ ClaimCancellation(j, "caller")
    /\ UNCHANGED <<token, armed, timedOut, registry, woken, jobVars, closeVars>>

-----------------------------------------------------------------------------
(* Admission. *)

\* CaptureService::start up to the registration: ensure_open, validation and
\* the diagnostics directory.
Start(j) ==
    /\ pc[j] = "new"
    /\ pc' = [pc EXCEPT ![j] = IF phase = "OPEN" THEN "admitted" ELSE "refused"]
    /\ UNCHANGED <<registry, woken, status, outcome, verdict, committed, events,
                   result, panics, controlVars, closeVars>>

\* The same without the second look at the lifecycle phase.
RegisterUnchecked(j) ==
    /\ pc[j] = "admitted" /\ ~locked
    /\ registry' = registry \cup {j}
    /\ woken' = TRUE
    /\ armed' = armed \cup {j}
    /\ pc' = [pc EXCEPT ![j] = "running"]
    /\ UNCHANGED <<status, outcome, verdict, committed, events, result, panics,
                   decision, claimedBy, token, signalling, timedOut, closeVars>>

\* register_job under the registry lock, then the spawned task starts.
Register(j) ==
    /\ pc[j] = "admitted" /\ ~locked
    /\ IF phase = "OPEN"
       THEN /\ registry' = registry \cup {j}
            /\ woken' = TRUE
            /\ armed' = armed \cup {j}
            /\ pc' = [pc EXCEPT ![j] = "running"]
       ELSE /\ pc' = [pc EXCEPT ![j] = "refused"]
            /\ UNCHANGED <<registry, woken, armed>>
    /\ UNCHANGED <<status, outcome, verdict, committed, events, result, panics,
                   decision, claimedBy, token, signalling, timedOut, closeVars>>

-----------------------------------------------------------------------------
(* The pipeline, run by the job's task. It looks at its token before and    *)
(* after every stage and at every cancellable wait inside one.              *)

pipelineFrame == <<registry, woken, claimedBy, signalling, timedOut,
                   verdict, events, result, closeVars>>

\* The pipeline returns: what it returns, and the settling that follows.
Return(j, what) ==
    /\ outcome' = [outcome EXCEPT ![j] = what]
    /\ pc' = [pc EXCEPT ![j] = "settle"]

\* transition: check, set the status, yield.
Advance(j) ==
    /\ pc[j] = "running" /\ ~Cancelled(j)
    /\ status[j] \in DOMAIN Following
    /\ can_transition(status[j], Following[status[j]])
    /\ status' = [status EXCEPT ![j] = Following[@]]
    /\ UNCHANGED <<pc, outcome, committed, panics, decision, token, armed, pipelineFrame>>

\* check_cancelled and cancellable: the stage stops with a cancellation error.
Interrupt(j) ==
    /\ pc[j] = "running" /\ Cancelled(j)
    /\ Return(j, "cancelled")
    /\ UNCHANGED <<status, committed, panics, decision, token, armed, pipelineFrame>>

\* A stage fails for a reason of its own.
StageFails(j) ==
    /\ pc[j] = "running" /\ status[j] # "created"
    /\ Return(j, "error")
    /\ UNCHANGED <<status, committed, panics, decision, token, armed, pipelineFrame>>

\* The pipeline panics; the task catches the unwinding.
Panic(j) ==
    /\ pc[j] = "running" /\ panics < MaxPanics
    /\ panics' = panics + 1
    /\ Return(j, "panic")
    /\ UNCHANGED <<status, committed, decision, token, armed, pipelineFrame>>

\* The same reporting a timeout even when another cancellation came first.
DeadlineAlwaysTimesOut(j) ==
    /\ pc[j] = "running" /\ j \in armed /\ ~Cancelled(j)
    /\ armed' = armed \ {j}
    /\ decision' = [decision EXCEPT ![j] = IF @ = "undecided" THEN "cancellation" ELSE @]
    /\ claimedBy' = [claimedBy EXCEPT ![j] = IF decision[j] = "undecided" THEN "deadline" ELSE @]
    /\ timedOut' = timedOut \cup {j}
    /\ token' = token \cup {j}
    /\ UNCHANGED <<registry, woken, signalling, jobVars, closeVars>>

\* The deadline branch of the select, polled after the pipeline and the token.
Deadline(j) ==
    /\ pc[j] = "running" /\ j \in armed /\ ~Cancelled(j)
    /\ armed' = armed \ {j}
    /\ decision' = [decision EXCEPT ![j] = IF @ = "undecided" THEN "cancellation" ELSE @]
    /\ claimedBy' = [claimedBy EXCEPT ![j] = IF decision[j] = "undecided" THEN "deadline" ELSE @]
    /\ timedOut' = IF decision[j] = "undecided" THEN timedOut \cup {j} ELSE timedOut
    /\ token' = token \cup {j}
    /\ UNCHANGED <<registry, woken, signalling, jobVars, closeVars>>

\* The artifact is staged and verified: the last look at the token before the
\* synchronous claim.
ReachCommit(j) ==
    /\ pc[j] = "running" /\ status[j] = "committing" /\ ~Cancelled(j)
    /\ pc' = [pc EXCEPT ![j] = "claim"]
    /\ UNCHANGED <<status, outcome, committed, panics, decision, token, armed, pipelineFrame>>

\* claim_commit: a token cancelled meanwhile turns into a cancellation claim.
ObserveToken(j) ==
    /\ pc[j] = "claim"
    /\ pc' = [pc EXCEPT ![j] = "swap"]
    /\ IF Cancelled(j) /\ decision[j] = "undecided"
       THEN /\ decision' = [decision EXCEPT ![j] = "cancellation"]
            /\ claimedBy' = [claimedBy EXCEPT ![j] = "token"]
            /\ token' = token \cup {j}
       ELSE UNCHANGED <<decision, claimedBy, token>>
    /\ UNCHANGED <<registry, woken, signalling, timedOut, armed, status, outcome,
                   verdict, committed, events, result, panics, closeVars>>

\* The compare-and-swap whose failure is ignored.
ClaimIgnoringFailure(j) ==
    /\ pc[j] = "swap"
    /\ decision' = [decision EXCEPT ![j] = IF @ = "undecided" THEN "commit" ELSE @]
    /\ claimedBy' = [claimedBy EXCEPT ![j] = IF decision[j] = "undecided" THEN "task" ELSE @]
    /\ pc' = [pc EXCEPT ![j] = "commit"]
    /\ UNCHANGED <<registry, woken, token, signalling, timedOut, armed, status, outcome,
                   verdict, committed, events, result, panics, closeVars>>

\* claim_commit: the compare-and-swap against cancellation.
ClaimCommit(j) ==
    /\ pc[j] = "swap"
    /\ IF decision[j] = "undecided"
       THEN /\ decision' = [decision EXCEPT ![j] = "commit"]
            /\ claimedBy' = [claimedBy EXCEPT ![j] = "task"]
            /\ pc' = [pc EXCEPT ![j] = "commit"]
            /\ UNCHANGED outcome
       ELSE /\ Return(j, "cancelled")
            /\ UNCHANGED <<decision, claimedBy>>
    /\ UNCHANGED <<registry, woken, token, signalling, timedOut, armed, status,
                   verdict, committed, events, result, panics, closeVars>>

\* staged.commit: the artifact reaches its destination, or the commit fails
\* and leaves it untouched.
Commit(j) ==
    /\ pc[j] = "commit"
    /\ \/ committed' = committed \cup {j} /\ Return(j, "ok")
       \/ UNCHANGED committed /\ Return(j, "error")
    /\ UNCHANGED <<status, panics, decision, token, armed, pipelineFrame>>
-----------------------------------------------------------------------------
(* Settling: the outcome becomes a status, one terminal event and a result. *)

settleFrame == <<outcome, committed, panics, controlVars, closeVars>>

\* finish_failed_job and finish_after_panic: failed, or the refused transition.
Fail(j) ==
    /\ status' = [status EXCEPT ![j] = IF can_transition(@, "failed") THEN "failed" ELSE @]
    /\ verdict' = [verdict EXCEPT ![j] = "failed"]
    /\ pc' = [pc EXCEPT ![j] = "emit"]

\* The match on the pipeline's result and on cancellation_won.
Settle(j) ==
    /\ pc[j] = "settle"
    /\ \/ /\ outcome[j] = "ok"
          /\ IF can_transition(status[j], "succeeded")
             THEN /\ status' = [status EXCEPT ![j] = "succeeded"]
                  /\ verdict' = [verdict EXCEPT ![j] = "ok"]
                  /\ pc' = [pc EXCEPT ![j] = "emit"]
             ELSE Fail(j)
       \/ /\ outcome[j] \in {"error", "cancelled"} /\ decision[j] = "cancellation"
          /\ IF can_transition(status[j], "cancelling")
             THEN /\ status' = [status EXCEPT ![j] = "cancelling"]
                  /\ pc' = [pc EXCEPT ![j] = "cancelling"]
                  /\ UNCHANGED verdict
             ELSE Fail(j)
       \/ /\ \/ outcome[j] \in {"error", "cancelled"} /\ decision[j] # "cancellation"
             \/ outcome[j] = "panic"
          /\ Fail(j)
    /\ UNCHANGED <<registry, woken, events, result, settleFrame>>

\* The second transition of a cancelled job.
SettleCancelled(j) ==
    /\ pc[j] = "cancelling"
    /\ IF can_transition(status[j], "cancelled")
       THEN /\ status' = [status EXCEPT ![j] = "cancelled"]
            /\ verdict' = [verdict EXCEPT ![j] = IF j \in timedOut THEN "timeout" ELSE "cancelled"]
            /\ pc' = [pc EXCEPT ![j] = "emit"]
       ELSE Fail(j)
    /\ UNCHANGED <<registry, woken, events, result, settleFrame>>

\* The terminal event of each kind of result.
EventOf == [ok |-> "succeeded", failed |-> "failed", cancelled |-> "cancelled",
            timeout |-> "cancelled"]

\* emit of the terminal event.
Emit(j) ==
    /\ pc[j] = "emit"
    /\ events' = [events EXCEPT ![j] = IF @ = "none" THEN EventOf[verdict[j]] ELSE "several"]
    /\ pc' = [pc EXCEPT ![j] = "finish"]
    /\ UNCHANGED <<registry, woken, status, verdict, result, settleFrame>>

\* unregister_job run before the result is published.
FinishAfterUnregister(j) ==
    /\ pc[j] = "finish" /\ ~locked
    /\ registry' = registry \ {j}
    /\ pc' = [pc EXCEPT ![j] = "unregister"]
    /\ UNCHANGED <<woken, status, verdict, events, result, settleFrame>>

\* finish: the result every clone of the job handle waits for.
Finish(j) ==
    /\ pc[j] = "finish"
    /\ result' = [result EXCEPT ![j] = verdict[j]]
    /\ pc' = [pc EXCEPT ![j] = "unregister"]
    /\ UNCHANGED <<registry, woken, status, verdict, events, settleFrame>>

\* unregister_job: the removal under the lock.
Unregister(j) ==
    /\ pc[j] = "unregister" /\ ~locked
    /\ registry' = registry \ {j}
    /\ pc' = [pc EXCEPT ![j] = "notify"]
    /\ UNCHANGED <<woken, status, verdict, events, result, settleFrame>>

\* unregister_job without its notification.
NotifyNobody(j) ==
    /\ pc[j] = "notify"
    /\ pc' = [pc EXCEPT ![j] = "gone"]
    /\ UNCHANGED <<registry, woken, status, verdict, events, result, settleFrame>>

\* unregister_job: the notification, after the lock is released.
Notify(j) ==
    /\ pc[j] = "notify"
    /\ woken' = TRUE
    /\ pc' = [pc EXCEPT ![j] = "gone"]
    /\ UNCHANGED <<registry, status, verdict, events, result, settleFrame>>

-----------------------------------------------------------------------------
(* Closing the runtime. *)

\* begin_close: the first caller leads, the others only wait for its result.
BeginClose(c) ==
    /\ closer[c] = "idle"
    /\ closer' = [closer EXCEPT ![c] = "waiting"]
    /\ IF phase = "OPEN"
       THEN phase' = "CLOSING" /\ closing' = "lock"
       ELSE UNCHANGED <<phase, closing>>
    /\ UNCHANGED <<registry, woken, shutdown, locked, swept, closeError, closeResult,
                   controlVars, jobVars>>

\* Waking the observers before claiming the cancellation of the jobs.
LockRegistryAfterShutdown ==
    /\ closing = "lock"
    /\ locked' = TRUE
    /\ shutdown' = TRUE
    /\ closing' = "sweep"
    /\ UNCHANGED <<registry, woken, phase, closer, swept, closeError, closeResult,
                   controlVars, jobVars>>

\* close takes the registry lock.
LockRegistry ==
    /\ closing = "lock"
    /\ locked' = TRUE
    /\ closing' = "sweep"
    /\ UNCHANGED <<registry, woken, phase, shutdown, closer, swept, closeError, closeResult,
                   controlVars, jobVars>>

\* One iteration of the loop over the registered jobs; the token of the job
\* before is cancelled first.
Sweep(j) ==
    /\ closing = "sweep"
    /\ j \in registry \ swept
    /\ \A i \in Jobs : <<i, "close">> \notin signalling
    /\ ClaimCancellation(j, "close")
    /\ swept' = swept \cup {j}
    /\ UNCHANGED <<registry, woken, phase, shutdown, locked, closer, closing, closeError,
                   closeResult, token, armed, timedOut, jobVars>>

\* Every registered job was visited: the lock is released.
UnlockRegistry ==
    /\ closing = "sweep"
    /\ registry \subseteq swept
    /\ \A i \in Jobs : <<i, "close">> \notin signalling
    /\ locked' = FALSE
    /\ closing' = "cancel"
    /\ UNCHANGED <<registry, woken, phase, shutdown, closer, swept, closeError, closeResult,
                   controlVars, jobVars>>

\* The runtime's token wakes every observer of a child token.
CancelShutdown ==
    /\ closing = "cancel"
    /\ shutdown' = TRUE
    /\ closing' = "checkpoints"
    /\ UNCHANGED <<registry, woken, phase, locked, closer, swept, closeError, closeResult,
                   controlVars, jobVars>>

\* One step of finish_close that ends well or with an error; the first error
\* is the one `close` reports.
ShutdownStep(from, to, failing) ==
    /\ closing = from
    /\ closing' = to
    /\ closeError' \in {closeError} \cup (IF failing /\ closeError = "none" THEN {from} ELSE {})
    /\ UNCHANGED <<registry, woken, phase, shutdown, locked, closer, swept, closeResult,
                   controlVars, jobVars>>

\* The checkpoint owners and the browser contexts belong to other components.
AwaitCheckpoints == ShutdownStep("checkpoints", "arm", ShutdownTimers)
AwaitContexts == ShutdownStep("contexts", "backend", ShutdownTimers)
CloseBackend == ShutdownStep("backend", "complete", TRUE)

\* The wait for the jobs: arm the notification, look, sleep.
ArmNotification ==
    /\ woken' = FALSE
    /\ closing = "arm" /\ closing' = "inspect"
    /\ UNCHANGED <<registry, phase, shutdown, locked, closer, swept, closeError, closeResult,
                   controlVars, jobVars>>

InspectRegistry ==
    /\ closing = "inspect"
    /\ closing' = IF registry = {} THEN "contexts" ELSE "sleep"
    /\ UNCHANGED <<registry, woken, phase, shutdown, locked, closer, swept, closeError,
                   closeResult, controlVars, jobVars>>

Wake ==
    /\ closing = "sleep" /\ woken
    /\ closing' = "arm"
    /\ UNCHANGED <<registry, woken, phase, shutdown, locked, closer, swept, closeError,
                   closeResult, controlVars, jobVars>>

JobsTimeout ==
    /\ ShutdownTimers /\ closing = "sleep"
    /\ closing' = "contexts"
    /\ closeError' = IF closeError = "none" THEN "jobs" ELSE closeError
    /\ UNCHANGED <<registry, woken, phase, shutdown, locked, closer, swept, closeResult,
                   controlVars, jobVars>>

\* complete: the phase first, then the result the callers wait for.
MarkClosed ==
    /\ closing = "complete"
    /\ phase' = "CLOSED"
    /\ closing' = "publish"
    /\ UNCHANGED <<registry, woken, shutdown, locked, closer, swept, closeError, closeResult,
                   controlVars, jobVars>>

Publish ==
    /\ closing = "publish"
    /\ closeResult' = IF closeError = "none" THEN "ok" ELSE closeError
    /\ closing' = "done"
    /\ UNCHANGED <<registry, woken, phase, shutdown, locked, closer, swept, closeError,
                   controlVars, jobVars>>

\* RuntimeLifecycle::wait
CloseReturns(c) ==
    /\ closer[c] = "waiting" /\ closeResult # "none"
    /\ closer' = [closer EXCEPT ![c] = closeResult]
    /\ UNCHANGED <<registry, woken, phase, shutdown, locked, closing, swept, closeError,
                   closeResult, controlVars, jobVars>>
-----------------------------------------------------------------------------
\* What the task does once its pipeline stopped waiting.
TaskStep(j) ==
    \/ Interrupt(j) \/ ReachCommit(j) \/ ObserveToken(j) \/ ClaimCommit(j) \/ Commit(j)
    \/ Settle(j) \/ SettleCancelled(j) \/ Emit(j) \/ Finish(j) \/ Unregister(j) \/ Notify(j)

Job(j) ==
    \/ Start(j) \/ Register(j) \/ Cancel(j) \/ Deadline(j)
    \/ Advance(j) \/ StageFails(j) \/ Panic(j) \/ TaskStep(j)

Shutdown ==
    \/ LockRegistry \/ UnlockRegistry \/ CancelShutdown
    \/ \E j \in Jobs : Sweep(j)
    \/ AwaitCheckpoints \/ ArmNotification \/ InspectRegistry \/ Wake
    \/ AwaitContexts \/ CloseBackend \/ MarkClosed \/ Publish

Next ==
    \/ \E j \in Jobs : Job(j) \/ \E who \in {"caller", "close"} : Signal(j, who)
    \/ \E c \in Closers : BeginClose(c) \/ CloseReturns(c)
    \/ Shutdown
    \/ JobsTimeout

\* A task that can run is polled, a thread inside request_cancel goes on, the
\* deadline timer fires, the spawned shutdown task is polled. Nothing obliges a
\* stage of the pipeline to make progress: its waits are only bounded by the
\* deadline and by cancellation.
Fairness ==
    /\ \A j \in Jobs :
        /\ WF_vars(TaskStep(j)) /\ WF_vars(Deadline(j))
        /\ \A who \in {"caller", "close"} : WF_vars(Signal(j, who))
    /\ WF_vars(Shutdown)
    /\ \A c \in Closers : WF_vars(CloseReturns(c))

Spec == Init /\ [][Next]_vars /\ Fairness

-----------------------------------------------------------------------------
(* Properties. *)

Decisions == {"undecided", "cancellation", "commit"}
Claimants == {"nobody", "caller", "close", "deadline", "token", "task"}
Statuses == Pipeline \cup Terminal \cup {"cancelling"}
Places == {"new", "admitted", "refused", "running", "claim", "swap", "commit", "settle",
           "cancelling", "emit", "finish", "unregister", "notify", "gone"}
Outcomes == {"none", "ok", "error", "cancelled", "panic"}
Verdicts == {"none", "ok", "failed", "cancelled", "timeout"}
ShutdownErrors == {"none", "checkpoints", "jobs", "contexts", "backend"}
ShutdownPlaces == {"none", "lock", "sweep", "cancel", "checkpoints", "arm", "inspect",
                   "sleep", "contexts", "backend", "complete", "publish", "done"}

\* Types of the state of the runtime and of its jobs.
TypeOK ==
    /\ phase \in {"OPEN", "CLOSING", "CLOSED"}
    /\ shutdown \in BOOLEAN /\ locked \in BOOLEAN /\ woken \in BOOLEAN
    /\ registry \subseteq Jobs /\ token \subseteq Jobs /\ armed \subseteq Jobs
    /\ timedOut \subseteq Jobs /\ committed \subseteq Jobs /\ swept \subseteq Jobs
    /\ signalling \subseteq Jobs \X {"caller", "close"}
    /\ decision \in [Jobs -> Decisions]
    /\ claimedBy \in [Jobs -> Claimants]
    /\ status \in [Jobs -> Statuses]
    /\ pc \in [Jobs -> Places]
    /\ outcome \in [Jobs -> Outcomes]
    /\ verdict \in [Jobs -> Verdicts]
    /\ events \in [Jobs -> Terminal \cup {"none", "several"}]
    /\ result \in [Jobs -> Verdicts]
    /\ panics \in Nat
    /\ closer \in [Closers -> ShutdownErrors \cup {"idle", "waiting", "ok"}]
    /\ closing \in ShutdownPlaces
    /\ closeError \in ShutdownErrors
    /\ closeResult \in ShutdownErrors \cup {"ok"}

\* Cancellation and commit compete for one terminal decision: once a caller,
\* the deadline, the shutdown or a cancelled token claimed it, the artifact
\* never reaches its destination (JobControl, claim_commit before commit).
CancellationLeavesDestination ==
    \A j \in Jobs :
        decision[j] = "cancellation" \/ claimedBy[j] \notin {"nobody", "task"}
            => j \notin committed

\* The four faces of a finished job agree: the receipt is returned exactly when
\* the artifact was committed, the status is the terminal one, the event stream
\* carries exactly that one terminal event, and "timeout" is reported exactly
\* when the deadline is what cancelled the job.
TerminalAgreement ==
    \A j \in Jobs : result[j] # "none" =>
        /\ result[j] = "ok" <=> j \in committed
        /\ status[j] = EventOf[result[j]]
        /\ events[j] = EventOf[result[j]]
        /\ result[j] = "timeout" => claimedBy[j] = "deadline"
        /\ result[j] = "cancelled" => claimedBy[j] \in {"caller", "close", "token"}

\* A pipeline stopped by its token is reported as cancelled or timed out, never
\* as failed. This rests on close claiming every registered job's decision
\* before the runtime's token wakes them.
CancellationNeverFails ==
    \A j \in Jobs :
        outcome[j] = "cancelled" /\ verdict[j] # "none" => verdict[j] \in {"cancelled", "timeout"}

\* A successful close means the registry is empty, and every job that was ever
\* registered has its result.
ClosedMeansSettled ==
    closeResult = "ok" =>
        /\ registry = {}
        /\ \A j \in Jobs : pc[j] \notin {"new", "admitted", "refused"} => result[j] # "none"

\* No job enters the registry once the closing thread has taken its lock, and a
\* published result, a terminal event or a terminal decision never changes.
NoLateChange ==
    [][/\ closing \notin {"none", "lock"} => registry' \subseteq registry
       /\ \A j \in Jobs : /\ result[j] # "none" => result'[j] = result[j]
                          /\ events[j] # "none" => events'[j] = events[j]
                          /\ decision[j] # "undecided" => decision'[j] = decision[j]]_vars

=============================================================================
