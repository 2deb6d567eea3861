---------------------------- MODULE PageTargets ----------------------------
(***************************************************************************)
(* The targets a page spawns (frames of other processes, workers, service  *)
(* workers, popups) and the policies they must run under                   *)
(* (chromium/src/targets.rs).                                              *)
(*                                                                         *)
(* The browser attaches every new target paused.  The manager task admits, *)
(* routes, configures and resumes one target at a time, holding the policy *)
(* lock for reading from before it reads the policy until the target runs. *)
(* apply_policy holds it for writing while it changes the targets already  *)
(* managed and commits the change last.                                    *)
(***************************************************************************)
EXTENDS Integers, FiniteSets, Sequences

CONSTANTS Documents, ServiceWorkers, DedicatedWorkers, Popups,  \* sessions by kind
          maximum_frames, maximum_targets

Targets == Documents \cup ServiceWorkers \cup DedicatedWorkers \cup Popups
Policies == {"EnableFetch", "BlockNetwork"}

VARIABLES targetEvents,  \* what the browser reported and the manager has not read
          managed, frames, targetError, routed,
          policy,        \* the committed policies
          readers,       \* whether the manager holds the policy lock for reading
          manager,       \* the manager task: its step and the target it handles
          applier,       \* the apply_policy call: its step, change and targets left
          live,          \* each target: absent, paused, running, closed or detached
          applied        \* the policies in force on each target's session

targetVars == <<targetEvents, managed, frames, targetError, routed, policy, readers,
                manager, applier, live, applied>>

NoTarget == "no target"
Idle == [step |-> "idle", change |-> "none", todo |-> {}, count |-> 0]

TargetsInit ==
    /\ targetEvents = <<>>
    /\ managed = {} /\ frames = {} /\ targetError = "none" /\ routed = {}
    /\ policy = {} /\ readers = FALSE
    /\ manager = [step |-> "recv", target |-> NoTarget]
    /\ applier = Idle
    /\ live = [t \in Targets |-> "absent"]
    /\ applied = [t \in Targets |-> {}]

-----------------------------------------------------------------------------
(* The browser (external). *)

AttachTarget(t) ==
    /\ live[t] = "absent"
    /\ live' = [live EXCEPT ![t] = "paused"]
    /\ targetEvents' = Append(targetEvents, <<"attached", t>>)
    /\ UNCHANGED <<managed, frames, targetError, routed, policy, readers, manager, applier, applied>>

DetachTarget(t) ==
    /\ live[t] \in {"paused", "running"}
    /\ live' = [live EXCEPT ![t] = "detached"]
    /\ targetEvents' = Append(targetEvents, <<"detached", t>>)
    /\ UNCHANGED <<managed, frames, targetError, routed, policy, readers, manager, applier, applied>>

-----------------------------------------------------------------------------
(* The manager task. *)

set_target_error(error) == targetError' = IF targetError = "none" THEN error ELSE targetError
At(step) == manager.step = step
Goes(step, t) == manager' = [step |-> step, target |-> t]
HeadIs(kind) == At("recv") /\ targetEvents # <<>> /\ Head(targetEvents)[1] = kind
HeadTarget == Head(targetEvents)[2]
TakeHead == targetEvents' = Tail(targetEvents)

\* Target.closeTarget, which the browser may refuse.
close_target(t) ==
    \/ live' = [live EXCEPT ![t] = IF @ = "detached" THEN @ ELSE "closed"]
    \/ UNCHANGED live

\* A popup is never managed: it is closed while still paused.
reject_popup ==
    /\ HeadIs("attached") /\ HeadTarget \in Popups
    /\ TakeHead
    /\ \/ /\ live' = [live EXCEPT ![HeadTarget] = IF @ = "detached" THEN @ ELSE "closed"]
          /\ UNCHANGED targetError
       \/ UNCHANGED live /\ set_target_error("popup")
    /\ UNCHANGED <<managed, frames, routed, policy, readers, manager, applier, applied>>

OverLimit(t) == \/ Cardinality(managed) >= maximum_targets
                \/ t \in Documents /\ Cardinality(frames) >= maximum_frames

\* A target over the limits is closed before anything is recorded for it.
reserve_target ==
    /\ HeadIs("attached") /\ HeadTarget \notin Popups
    /\ TakeHead
    /\ IF OverLimit(HeadTarget)
       THEN /\ close_target(HeadTarget) /\ set_target_error("limit")
            /\ UNCHANGED <<managed, frames, routed, manager>>
       ELSE /\ managed' = managed \cup {HeadTarget}
            /\ frames' = frames \cup ({HeadTarget} \cap Documents)
            /\ routed' = routed \cup {HeadTarget}
            /\ Goes("policy", HeadTarget)
            /\ UNCHANGED <<live, targetError>>
    /\ UNCHANGED <<policy, readers, applier, applied>>

\* Mutant: the policy is read without its lock.
ReadPolicyAtOnce ==
    /\ At("policy")
    /\ readers' = TRUE
    /\ Goes("configure", manager.target)
    /\ UNCHANGED <<targetEvents, managed, frames, targetError, routed, policy, applier, live, applied>>

\* policy.read(): waits while apply_policy holds the lock.
ReadPolicy ==
    /\ At("policy") /\ applier.step # "applies"
    /\ readers' = TRUE
    /\ Goes("configure", manager.target)
    /\ UNCHANGED <<targetEvents, managed, frames, targetError, routed, policy, applier, live, applied>>

\* What configure_target_session puts in force on a session of each kind.
Configured(t) ==
    IF t \in ServiceWorkers THEN policy \cap {"EnableFetch"}
    ELSE IF t \in DedicatedWorkers THEN policy \cap {"BlockNetwork"}
    ELSE policy

configure_target_session ==
    /\ At("configure")
    /\ \/ /\ live[manager.target] # "detached"
          /\ applied' = [applied EXCEPT ![manager.target] = @ \cup Configured(manager.target)]
          /\ Goes("resume", manager.target)
       \/ Goes("undo", manager.target) /\ UNCHANGED applied
    /\ UNCHANGED <<targetEvents, managed, frames, targetError, routed, policy, readers, applier, live>>

\* Runtime.runIfWaitingForDebugger; nothing answers it.
resume_target ==
    /\ At("resume")
    /\ \/ /\ live' = [live EXCEPT ![manager.target] = IF @ = "paused" THEN "running" ELSE @]
          /\ readers' = FALSE
          /\ Goes("recv", NoTarget)
       \/ Goes("undo", manager.target) /\ UNCHANGED <<live, readers>>
    /\ UNCHANGED <<targetEvents, managed, frames, targetError, routed, policy, applier, applied>>

\* A target that cannot be configured or resumed is unrouted, closed and
\* forgotten, and the manager reports the error.
remove_target ==
    /\ At("undo")
    /\ routed' = routed \ {manager.target}
    /\ managed' = managed \ {manager.target}
    /\ frames' = frames \ {manager.target}
    /\ close_target(manager.target)
    /\ set_target_error("configure")
    /\ readers' = FALSE
    /\ Goes("recv", NoTarget)
    /\ UNCHANGED <<targetEvents, policy, applier, applied>>

record_detached_target ==
    /\ HeadIs("detached")
    /\ TakeHead
    /\ routed' = routed \ {HeadTarget}
    /\ managed' = managed \ {HeadTarget}
    /\ frames' = frames \ {HeadTarget}
    /\ IF HeadTarget \in frames /\ HeadTarget \in managed
       THEN set_target_error("detached") ELSE UNCHANGED targetError
    /\ UNCHANGED <<policy, readers, manager, applier, live, applied>>

\* A lagging event stream or an undecodable event.  Only the first ends the task.
EventsFail ==
    /\ At("recv")
    /\ set_target_error("lag")
    /\ \/ Goes("ended", NoTarget) /\ UNCHANGED targetEvents
       \/ targetEvents # <<>> /\ TakeHead /\ UNCHANGED manager
    /\ UNCHANGED <<managed, frames, routed, policy, readers, applier, live, applied>>

\* The cancellation ends the task where it stands, dropping the lock it held.
Cancelled == manager' = [step |-> "ended", target |-> NoTarget] /\ readers' = FALSE

CloseManager ==
    /\ manager.step \notin {"ended", "undo"}
    /\ Cancelled
    /\ UNCHANGED <<targetEvents, managed, frames, targetError, routed, policy, applier, live, applied>>

-----------------------------------------------------------------------------
(* apply_policy. *)

applierRest == <<targetEvents, managed, frames, routed, live>>

\* enable_fetch reaches documents and service workers, block_network all.
applies_to(change) ==
    IF change = "EnableFetch" THEN managed \cap (Documents \cup ServiceWorkers) ELSE managed

ApplyPolicy(change) ==
    /\ applier.step \in {"idle", "done"} /\ change \notin policy
    /\ applier' = [Idle EXCEPT !.step = "waits", !.change = change]
    /\ UNCHANGED <<applierRest, targetError, policy, readers, manager, applied>>

WritePolicy ==
    /\ applier.step = "waits" /\ ~readers
    /\ applier' = IF targetError # "none" THEN [applier EXCEPT !.step = "refused"]
                  ELSE [applier EXCEPT !.step = "applies", !.todo = applies_to(applier.change)]
    /\ UNCHANGED <<applierRest, targetError, policy, readers, manager, applied>>

\* One target; the first failure leaves every target as it was, a later one
\* ends the manager with the error recorded.
ApplyTo(t) ==
    /\ applier.step = "applies" /\ t \in applier.todo
    /\ \/ /\ live[t] \notin {"detached", "closed"}
          /\ applied' = [applied EXCEPT ![t] = @ \cup {applier.change}]
          /\ applier' = [applier EXCEPT !.todo = @ \ {t}, !.count = @ + 1]
          /\ UNCHANGED <<targetError, manager, readers>>
       \/ /\ UNCHANGED applied
          /\ applier' = [applier EXCEPT !.step = "refused", !.todo = {}]
          /\ IF applier.count > 0
             THEN set_target_error("policy") /\ Cancelled
             ELSE UNCHANGED <<targetError, manager, readers>>
    /\ UNCHANGED <<applierRest, policy>>

CommitPolicy ==
    /\ applier.step = "applies" /\ applier.todo = {}
    /\ policy' = policy \cup {applier.change}
    /\ applier' = [applier EXCEPT !.step = "done"]
    /\ UNCHANGED <<applierRest, targetError, readers, manager, applied>>

ManagerStep == \/ reject_popup \/ reserve_target \/ ReadPolicy \/ configure_target_session
               \/ resume_target \/ remove_target \/ record_detached_target
ApplierStep == WritePolicy \/ CommitPolicy \/ \E t \in Targets : ApplyTo(t)

TargetsNext ==
    \/ \E t \in Targets : AttachTarget(t) \/ DetachTarget(t)
    \/ ManagerStep \/ EventsFail \/ CloseManager
    \/ \E change \in Policies : ApplyPolicy(change)
    \/ ApplierStep

\* The two tasks are scheduled by the runtime, and every command is answered or
\* times out.
TargetsFairness == WF_targetVars(ManagerStep) /\ WF_targetVars(ApplierStep)
TargetsSpec == TargetsInit /\ [][TargetsNext]_targetVars /\ TargetsFairness

-----------------------------------------------------------------------------
\* Types; every frame listed is a managed target.
TargetsTypeOK ==
    /\ managed \subseteq Targets /\ frames \subseteq managed /\ routed \subseteq Targets
    /\ policy \subseteq Policies /\ readers \in BOOLEAN
    /\ live \in [Targets -> {"absent", "paused", "running", "closed", "detached"}]
    /\ applied \in [Targets -> SUBSET Policies]

Enforceable(t) == IF t \in ServiceWorkers THEN {"EnableFetch"}
                  ELSE IF t \in DedicatedWorkers THEN {"BlockNetwork"} ELSE Policies

\* No target runs without the committed policies its kind takes, whether it was
\* attached before, during or after apply_policy: the manager reads the policy
\* under the lock it keeps until the target is resumed, and apply_policy reaches
\* every managed target before it commits.
ResumedUnderPolicy ==
    \A t \in Targets : live[t] = "running" => policy \cap Enforceable(t) \subseteq applied[t]

\* While no error is recorded, frames() misses no frame: every document target
\* that runs is listed and its events are routed.
FramesComplete ==
    targetError = "none" =>
        \A t \in Documents : live[t] = "running" => t \in frames /\ t \in routed

\* Both: the policies hold on every target of the page, and none is missed.
TargetsUnderPolicy == ResumedUnderPolicy /\ FramesComplete

\* apply_policy always returns: the manager gives the read lock back whatever
\* the target did, and a failing change never waits for the task it ends.
PolicyAsked == applier.step = "waits"
PolicyDecided == applier.step \in {"done", "refused"}

=============================================================================
