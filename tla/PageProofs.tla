----------------------------- MODULE PageProofs -----------------------------
(***************************************************************************)
(* Proofs about a page: its targets, its proxy, the requests it intercepts *)
(* and the commands it sends; for any number of targets, connections,      *)
(* requests, redirects and callers.                                        *)
(***************************************************************************)
EXTENDS PageTargets, ValidatingProxy, PageInterception, CdpCommands, TLAPS

-----------------------------------------------------------------------------
(***************************************************************************)
(* PageTargets: every target runs under the policies in force.             *)
(***************************************************************************)
Events == {"attached", "detached"} \X Targets
Handling == {"policy", "configure", "resume", "undo"}

Applying == [step : {"idle", "waits", "applies", "done", "refused"},
             change : Policies \cup {"none"}, todo : SUBSET Targets, count : Int]

TargetsType ==
    /\ targetEvents \in Seq(Events)
    /\ managed \subseteq Targets \ Popups /\ policy \subseteq Policies /\ readers \in BOOLEAN
    /\ manager \in [step : Handling \cup {"recv", "ended"}, target : Targets \cup {NoTarget}]
    /\ live \in [Targets -> {"absent", "paused", "running", "closed", "detached"}]
    /\ applied \in [Targets -> SUBSET Policies]
    /\ applier \in Applying

\* A target is reported once, before it runs, and a detached one stays detached.
EventInv ==
    /\ \A i \in 1..Len(targetEvents) :
         /\ targetEvents[i][1] = "detached" => live[targetEvents[i][2]] = "detached"
         /\ targetEvents[i][1] = "attached" =>
              /\ live[targetEvents[i][2]] \notin {"absent", "running"}
              /\ manager.step \in Handling => manager.target # targetEvents[i][2]
    /\ \A i, j \in 1..Len(targetEvents) :
         targetEvents[i][1] = "attached" /\ targetEvents[j][1] = "attached" /\ i # j =>
              targetEvents[i][2] # targetEvents[j][2]

\* What the manager handles is managed and does not run yet; what runs is managed.
ManagedInv ==
    /\ manager.step \in Handling =>
         manager.target \in managed /\ live[manager.target] \notin {"absent", "running"}
    /\ \A t \in Targets : live[t] = "running" => t \in managed
    /\ managed \cap Documents \subseteq frames /\ managed \subseteq routed

\* The policy lock: no policy is applied between its reading and the resumption.
PolicyLockInv ==
    /\ manager.step \in {"configure", "resume", "undo"} => readers
    /\ readers => applier.step # "applies"

\* The target about to be resumed has the policy; while a change is applied, a
\* running target has it or is still to come.
PolicyInv ==
    /\ manager.step = "resume" => policy \cap Enforceable(manager.target) \subseteq applied[manager.target]
    /\ applier.step = "waits" => applier.change \in Policies
    /\ applier.step = "applies" =>
         /\ applier.change \in Policies
         /\ \A t \in Targets : live[t] = "running" /\ applier.change \in Enforceable(t) =>
                t \in applier.todo \/ applier.change \in applied[t]

TargetsInv == TargetsType /\ EventInv /\ ManagedInv /\ PolicyLockInv /\ PolicyInv /\ ResumedUnderPolicy

USE DEF Handling, Policies, Applying

\* The initial states satisfy the invariant.
LEMMA TargetsInitial == TargetsInit => TargetsInv
<1> SUFFICES ASSUME TargetsInit PROVE TargetsInv
  BY Zenon
<1>1. readers \in BOOLEAN /\ ~readers
  BY Zenon DEF TargetsInit
<1> QED
  <2>1. TargetsType
    BY <1>1, SMTT(60) DEF TargetsInit, TargetsType, Events, Idle
  <2>2. EventInv
    BY SMTT(60) DEF TargetsInit, EventInv
  <2>3. ManagedInv /\ PolicyLockInv /\ PolicyInv /\ ResumedUnderPolicy
    BY <1>1, Zenon DEF TargetsInit, ManagedInv, PolicyLockInv, PolicyInv, ResumedUnderPolicy, Idle
  <2> QED
    BY <2>1, <2>2, <2>3, Zenon DEF TargetsInv

\* The queue after the browser reported something.
LEMMA Reported ==
  ASSUME targetEvents \in Seq(Events), NEW e \in Events, targetEvents' = Append(targetEvents, e)
  PROVE  /\ targetEvents' \in Seq(Events) /\ Len(targetEvents) \in Nat
         /\ Len(targetEvents') = Len(targetEvents) + 1
         /\ targetEvents'[Len(targetEvents) + 1] = e
         /\ \A i \in 1..Len(targetEvents) : targetEvents'[i] = targetEvents[i]
  BY SMTT(60)

\* The queue after the manager read its head.
LEMMA Read ==
  ASSUME targetEvents \in Seq(Events), targetEvents # <<>>, TakeHead
  PROVE  /\ targetEvents' \in Seq(Events) /\ Len(targetEvents) \in Nat \ {0}
         /\ Len(targetEvents') = Len(targetEvents) - 1
         /\ Head(targetEvents) = targetEvents[1] /\ targetEvents[1] \in Events
         /\ \A i \in 1..Len(targetEvents') : targetEvents'[i] = targetEvents[i + 1]
  BY DEF TakeHead

\* The browser attaches and detaches targets.
LEMMA BrowserStep ==
  ASSUME TargetsInv, NEW t \in Targets, AttachTarget(t) \/ DetachTarget(t)
  PROVE  TargetsInv'
<1>1. PICK kind \in {"attached", "detached"} :
         /\ targetEvents' = Append(targetEvents, <<kind, t>>)
         /\ kind = "attached" => live[t] = "absent" /\ live' = [live EXCEPT ![t] = "paused"]
         /\ kind = "detached" => /\ live[t] \in {"paused", "running"}
                                 /\ live' = [live EXCEPT ![t] = "detached"]
  BY Zenon DEF AttachTarget, DetachTarget
<1>2. UNCHANGED <<managed, frames, targetError, routed, policy, readers, manager, applier, applied>>
  BY Zenon DEF AttachTarget, DetachTarget
<1> DEFINE n == Len(targetEvents)
<1>3. <<kind, t>> \in Events
  BY Zenon DEF Events
<1>4. /\ targetEvents' \in Seq(Events) /\ n \in Nat /\ Len(targetEvents') = n + 1
      /\ targetEvents'[n + 1] = <<kind, t>>
      /\ \A i \in 1..n : targetEvents'[i] = targetEvents[i]
  BY <1>1, <1>3, Reported, Zenon DEF TargetsInv, TargetsType
<1>5. TargetsType'
  BY <1>1, <1>2, <1>4, ZenonT(60) DEF TargetsInv, TargetsType
<1>6. \A u \in Targets : /\ u # t => live'[u] = live[u]
                         /\ live'[u] = "running" => live[u] = "running"
                         /\ live'[u] = "absent" => live[u] = "absent"
                         /\ live[u] = "detached" => live'[u] = "detached"
  BY <1>1, ZenonT(60) DEF TargetsInv, TargetsType
<1>7. EventInv'
  <2> HIDE DEF n
  <2>1. \A i \in 1..n : targetEvents[i] \in Events
    BY SMTT(60) DEF TargetsInv, TargetsType, n
  <2>2. ASSUME NEW i \in 1..(n + 1)
        PROVE  /\ targetEvents'[i][1] = "detached" => live'[targetEvents'[i][2]] = "detached"
               /\ targetEvents'[i][1] = "attached" =>
                    /\ live'[targetEvents'[i][2]] \notin {"absent", "running"}
                    /\ manager'.step \in Handling => manager'.target # targetEvents'[i][2]
    <3>1. CASE i = n + 1
      <4>1. targetEvents'[i][1] = kind /\ targetEvents'[i][2] = t
        BY <1>4, <3>1, SMTT(60)
      <4>2. /\ kind = "detached" => live'[t] = "detached"
            /\ kind = "attached" => live'[t] = "paused"
        BY <1>1, ZenonT(60) DEF TargetsInv, TargetsType
      <4>3. kind = "attached" /\ manager.step \in Handling => manager.target # t
        BY <1>1, Zenon DEF TargetsInv, ManagedInv
      <4>4. manager' = manager
        BY <1>2, Zenon
      <4> QED
        BY <4>1, <4>2, <4>3, <4>4, Zenon
    <3>2. CASE i \in 1..n
      <4>1. targetEvents[i][2] \in Targets /\ targetEvents'[i] = targetEvents[i]
        BY <1>4, <2>1, <3>2, Zenon DEF Events
      <4> QED
        BY <1>2, <1>6, <3>2, <4>1, SMTT(60) DEF TargetsInv, EventInv, n
    <3> QED
      BY <1>4, <3>1, <3>2, SMTT(60)
  <2>3. ASSUME NEW i \in 1..(n + 1), NEW j \in 1..(n + 1), i # j,
               targetEvents'[i][1] = "attached", targetEvents'[j][1] = "attached"
        PROVE  targetEvents'[i][2] # targetEvents'[j][2]
    <3>1. ASSUME NEW k \in 1..n, targetEvents[k][1] = "attached", kind = "attached"
          PROVE  targetEvents[k][2] # t
      BY <1>1, <3>1, Zenon DEF TargetsInv, EventInv, n
    <3>2. CASE i \in 1..n /\ j \in 1..n
      BY <1>4, <2>3, <3>2, SMTT(60) DEF TargetsInv, EventInv, n
    <3>3. CASE i = n + 1 /\ j \in 1..n
      BY <1>4, <2>3, <3>1, <3>3, SMTT(60)
    <3>4. CASE i \in 1..n /\ j = n + 1
      BY <1>4, <2>3, <3>1, <3>4, SMTT(60)
    <3> QED
      BY <1>4, <2>3, <3>2, <3>3, <3>4, SMTT(60)
  <2> QED
    BY <1>4, <2>2, <2>3, Zenon DEF EventInv
<1>8. ManagedInv' /\ PolicyLockInv' /\ PolicyInv' /\ ResumedUnderPolicy'
  BY <1>2, <1>6, ZenonT(60)
     DEF TargetsInv, TargetsType, ManagedInv, PolicyLockInv, PolicyInv, ResumedUnderPolicy, Enforceable
<1> QED
  BY <1>5, <1>7, <1>8, Zenon DEF TargetsInv

\* What reading the head of the queue leaves of the invariant about it.
LEMMA EventsRead ==
  ASSUME TargetsInv, targetEvents # <<>>, TakeHead,
         manager'.step \in Handling => Head(targetEvents) = <<"attached", manager'.target>>,
         \A t \in Targets : /\ live'[t] = "running" => live[t] = "running"
                            /\ live'[t] = "absent" => live[t] = "absent"
                            /\ live[t] = "detached" => live'[t] = "detached"
  PROVE  EventInv' /\ targetEvents' \in Seq(Events)
<1> DEFINE n == Len(targetEvents)
<1>1. /\ targetEvents' \in Seq(Events) /\ n \in Nat \ {0} /\ Len(targetEvents') = n - 1
      /\ Head(targetEvents) = targetEvents[1]
      /\ \A i \in 1..(n - 1) : targetEvents'[i] = targetEvents[i + 1]
  BY Read, Zenon DEF TargetsInv, TargetsType
<1>2. \A i \in 1..n : targetEvents[i] \in Events /\ targetEvents[i][2] \in Targets
  BY SMTT(60) DEF TargetsInv, TargetsType, Events
<1> HIDE DEF n
<1>3. ASSUME NEW i \in 1..(n - 1)
      PROVE  /\ targetEvents'[i][1] = "detached" => live'[targetEvents'[i][2]] = "detached"
             /\ targetEvents'[i][1] = "attached" =>
                  /\ live'[targetEvents'[i][2]] \notin {"absent", "running"}
                  /\ manager'.step \in Handling => manager'.target # targetEvents'[i][2]
  <2>1. /\ i + 1 \in 1..n /\ targetEvents'[i] = targetEvents[i + 1]
        /\ 1 \in 1..n /\ i + 1 # 1
    BY <1>1, SMTT(60)
  <2>2. manager'.step \in Handling =>
          targetEvents[1][1] = "attached" /\ targetEvents[1][2] = manager'.target
    BY <1>1, SMTT(60)
  <2> QED
    BY <1>2, <2>1, <2>2, ZenonT(60) DEF TargetsInv, EventInv, n
<1>4. ASSUME NEW i \in 1..(n - 1), NEW j \in 1..(n - 1), i # j,
             targetEvents'[i][1] = "attached", targetEvents'[j][1] = "attached"
      PROVE  targetEvents'[i][2] # targetEvents'[j][2]
  <2>1. /\ i + 1 \in 1..n /\ targetEvents'[i] = targetEvents[i + 1]
        /\ j + 1 \in 1..n /\ targetEvents'[j] = targetEvents[j + 1] /\ i + 1 # j + 1
    BY <1>1, <1>4, SMTT(60)
  <2> QED
    BY <1>4, <2>1, SMTT(60) DEF TargetsInv, EventInv, n
<1> QED
  BY <1>1, <1>3, <1>4, ZenonT(60) DEF EventInv

\* The head of the queue is an event, and says what its target is.
LEMMA HeadFacts ==
  ASSUME TargetsInv, targetEvents # <<>>
  PROVE  /\ Head(targetEvents) \in Events /\ HeadTarget \in Targets
         /\ Head(targetEvents) = <<Head(targetEvents)[1], HeadTarget>>
         /\ Head(targetEvents)[1] = "detached" => live[HeadTarget] = "detached"
         /\ Head(targetEvents)[1] = "attached" => live[HeadTarget] \notin {"absent", "running"}
<1>1. Len(targetEvents) \in Nat \ {0} /\ Head(targetEvents) = targetEvents[1]
  BY DEF TargetsInv, TargetsType
<1>2. targetEvents[1] \in Events
  BY <1>1, SMTT(60) DEF TargetsInv, TargetsType
<1> QED
  BY <1>1, <1>2, SMTT(60) DEF TargetsInv, EventInv, HeadTarget, Events

\* Closing a target makes none run.
LEMMA Closed ==
  ASSUME TargetsInv, NEW t \in Targets, close_target(t)
  PROVE  /\ live' \in [Targets -> {"absent", "paused", "running", "closed", "detached"}]
         /\ \A u \in Targets : /\ live'[u] = "running" => live[u] = "running"
                               /\ live'[u] = "absent" => live[u] = "absent"
                               /\ live[u] = "detached" => live'[u] = "detached"
                               /\ live[u] \notin {"absent", "running"} => live'[u] \notin {"absent", "running"}
  BY ZenonT(60) DEF TargetsInv, TargetsType, close_target

\* Policies stay in force while nothing new runs.
LEMMA PolicyKept ==
  ASSUME TargetsInv, policy' = policy, applied' = applied, applier' = applier, manager'.step # "resume",
         \A t \in Targets : live'[t] = "running" => live[t] = "running"
  PROVE  PolicyInv' /\ ResumedUnderPolicy'
<1>1. PolicyInv'
  BY Zenon DEF TargetsInv, PolicyInv, Enforceable
<1>2. ResumedUnderPolicy'
  BY Zenon DEF TargetsInv, ResumedUnderPolicy, Enforceable
<1> QED
  BY <1>1, <1>2, Zenon

\* The queue and the managed targets stand while the manager takes up nothing.
LEMMA HandlingKept ==
  ASSUME TargetsInv, targetEvents' = targetEvents, live' = live,
         managed' = managed, frames' = frames, routed' = routed,
         manager'.step \in Handling => manager.step \in Handling /\ manager'.target = manager.target
  PROVE  EventInv' /\ ManagedInv'
<1>1. EventInv'
  BY ZenonT(60) DEF TargetsInv, EventInv
<1>2. ManagedInv'
  BY ZenonT(60) DEF TargetsInv, ManagedInv
<1> QED
  BY <1>1, <1>2, Zenon

\* The manager reads an event that starts nothing: a popup, a target over the
\* limits, a detached target, or an event that it cannot use.
LEMMA DiscardStep ==
  ASSUME TargetsInv,
         \/ reject_popup \/ record_detached_target
         \/ reserve_target /\ OverLimit(HeadTarget)
         \/ EventsFail /\ UNCHANGED manager
  PROVE  TargetsInv'
<1>1. targetEvents # <<>> /\ TakeHead /\ manager.step = "recv"
  BY SMTT(60) DEF reject_popup, record_detached_target, reserve_target, EventsFail, HeadIs, At, Goes
<1>2. UNCHANGED <<policy, readers, manager, applier, applied>>
  BY Zenon DEF reject_popup, record_detached_target, reserve_target, EventsFail, HeadIs, At, Goes
<1>3. /\ live' \in [Targets -> {"absent", "paused", "running", "closed", "detached"}]
      /\ \A u \in Targets : /\ live'[u] = "running" => live[u] = "running"
                            /\ live'[u] = "absent" => live[u] = "absent"
                            /\ live[u] = "detached" => live'[u] = "detached"
  BY <1>1, HeadFacts, Closed, ZenonT(60)
     DEF reject_popup, record_detached_target, reserve_target, EventsFail, close_target, TargetsInv, TargetsType
<1>4. EventInv' /\ targetEvents' \in Seq(Events)
  <2>1. manager'.step \notin Handling
    BY <1>1, <1>2, Zenon
  <2> QED
    BY <1>1, <1>3, <2>1, EventsRead, Zenon
<1>5. /\ \A t \in Targets : live'[t] = "running" => t \in managed'
      /\ managed' \subseteq managed
      /\ managed' \cap Documents \subseteq frames' /\ managed' \subseteq routed'
  <2>1. CASE record_detached_target
    <3>1. live[HeadTarget] = "detached" /\ live' = live
      BY <1>1, <2>1, HeadFacts, Zenon DEF record_detached_target, HeadIs
    <3> QED
      BY <2>1, <3>1, Zenon DEF record_detached_target, TargetsInv, ManagedInv
  <2>2. CASE UNCHANGED <<managed, frames, routed>>
    <3>1. managed' = managed /\ frames' = frames /\ routed' = routed
      BY <2>2, Zenon
    <3>2. \A t \in Targets : live'[t] = "running" => t \in managed
      BY <1>3, Zenon DEF TargetsInv, ManagedInv
    <3>3. managed \cap Documents \subseteq frames /\ managed \subseteq routed
      BY Zenon DEF TargetsInv, ManagedInv
    <3> QED
      BY <3>1, <3>2, <3>3, Zenon
  <2> QED
    BY <2>1, <2>2, Zenon DEF reject_popup, reserve_target, EventsFail
<1>6. manager' = manager /\ policy' = policy /\ readers' = readers /\ applier' = applier /\ applied' = applied
  BY <1>2, Zenon
<1>7. TargetsType'
  BY <1>3, <1>4, <1>5, <1>6, ZenonT(60) DEF TargetsInv, TargetsType
<1>8. ManagedInv' /\ PolicyLockInv'
  BY <1>1, <1>5, <1>6, Zenon DEF TargetsInv, ManagedInv, PolicyLockInv
<1>9. PolicyInv' /\ ResumedUnderPolicy'
  BY <1>1, <1>3, <1>6, PolicyKept, Zenon
<1> QED
  BY <1>4, <1>7, <1>8, <1>9, Zenon DEF TargetsInv

\* reserve_target within the limits: the target is managed before it runs.
LEMMA ReserveStep ==
  ASSUME TargetsInv, reserve_target, ~OverLimit(HeadTarget)
  PROVE  TargetsInv'
<1>1. /\ targetEvents # <<>> /\ TakeHead /\ Head(targetEvents)[1] = "attached"
      /\ HeadTarget \notin Popups
      /\ managed' = managed \cup {HeadTarget}
      /\ frames' = frames \cup ({HeadTarget} \cap Documents)
      /\ routed' = routed \cup {HeadTarget}
      /\ manager' = [step |-> "policy", target |-> HeadTarget]
      /\ UNCHANGED <<live, policy, readers, applier, applied>>
  BY Zenon DEF reserve_target, HeadIs, Goes
<1>2. /\ HeadTarget \in Targets /\ live[HeadTarget] \notin {"absent", "running"}
      /\ Head(targetEvents) = <<"attached", HeadTarget>>
  BY <1>1, HeadFacts, Zenon
<1>3. EventInv' /\ targetEvents' \in Seq(Events)
  BY <1>1, <1>2, EventsRead, Zenon
<1>4. TargetsType' /\ ManagedInv' /\ PolicyLockInv' /\ PolicyInv' /\ ResumedUnderPolicy'
  BY <1>1, <1>2, <1>3, ZenonT(60)
     DEF TargetsInv, TargetsType, ManagedInv, PolicyLockInv, PolicyInv, ResumedUnderPolicy, Enforceable
<1> QED
  BY <1>3, <1>4, Zenon DEF TargetsInv

\* The manager configures, resumes or gives up the target it handles, under the
\* policy lock, or is cancelled.
LEMMA HandleStep ==
  ASSUME TargetsInv,
         \/ ReadPolicy \/ configure_target_session \/ resume_target \/ remove_target
         \/ CloseManager
         \/ EventsFail /\ UNCHANGED targetEvents
  PROVE  TargetsInv'
<1> DEFINE t == manager.target
<1>1. CASE ReadPolicy
  <2>1. /\ manager.step = "policy" /\ applier.step # "applies" /\ readers' = TRUE
        /\ manager' = [step |-> "configure", target |-> t]
        /\ targetEvents' = targetEvents /\ managed' = managed /\ frames' = frames /\ routed' = routed
        /\ policy' = policy /\ applier' = applier /\ live' = live /\ applied' = applied
    BY <1>1, Zenon DEF ReadPolicy, At, Goes
  <2>2. TargetsType'
    BY <2>1, ZenonT(60) DEF TargetsInv, TargetsType
  <2>3. EventInv' /\ ManagedInv'
    BY <2>1, HandlingKept, Zenon
  <2>4. PolicyLockInv'
    BY <2>1, Zenon DEF PolicyLockInv
  <2>5. PolicyInv' /\ ResumedUnderPolicy'
    BY <2>1, PolicyKept, Zenon
  <2> QED
    BY <2>2, <2>3, <2>4, <2>5, Zenon DEF TargetsInv
<1>2. CASE configure_target_session
  <2>1. /\ t \in managed /\ manager.step = "configure" /\ readers = TRUE /\ t \in Targets
        /\ UNCHANGED <<targetEvents, managed, frames, routed, policy, readers, applier, live>>
        /\ manager' = [step |-> manager'.step, target |-> t] /\ manager'.step \in {"resume", "undo"}
    BY <1>2, SMTT(60) DEF configure_target_session, TargetsInv, TargetsType, ManagedInv, PolicyLockInv, At, Goes
  <2>2. \/ manager'.step = "resume" /\ applied' = [applied EXCEPT ![t] = @ \cup Configured(t)]
        \/ manager'.step = "undo" /\ applied' = applied
    BY <1>2, SMTT(60) DEF configure_target_session, Goes
  <2>3. Configured(t) = policy \cap Enforceable(t)
    BY Zenon DEF Configured, Enforceable, TargetsInv, TargetsType
  <2>4. /\ \A u \in Targets : applied[u] \subseteq applied'[u]
        /\ applied' \in [Targets -> SUBSET Policies]
        /\ manager'.step = "resume" => policy \cap Enforceable(t) \subseteq applied'[t]
    BY <2>1, <2>2, <2>3, SMTT(60) DEF TargetsInv, TargetsType, ManagedInv
  <2>5. TargetsType' /\ ManagedInv' /\ PolicyLockInv'
    BY <2>1, <2>4, SMTT(60) DEF TargetsInv, TargetsType, ManagedInv, PolicyLockInv
  <2>6. EventInv'
    BY <2>1, SMTT(60) DEF TargetsInv, EventInv
  <2>7. PolicyInv' /\ ResumedUnderPolicy'
    BY <2>1, <2>4, SMTT(60) DEF Enforceable, TargetsInv, PolicyInv, ResumedUnderPolicy
  <2> QED
    BY <2>5, <2>6, <2>7, Zenon DEF TargetsInv
<1>3. CASE resume_target
  <2>1. /\ t \in managed /\ manager.step = "resume" /\ readers = TRUE /\ t \in Targets
        /\ live[t] \notin {"absent", "running"}
        /\ UNCHANGED <<targetEvents, managed, frames, routed, policy, applier, applied>>
    BY <1>3, Zenon DEF resume_target, TargetsInv, TargetsType, ManagedInv, PolicyLockInv, At, Goes
  <2>2. CASE /\ live' = [live EXCEPT ![t] = IF @ = "paused" THEN "running" ELSE @]
             /\ readers' = FALSE /\ manager' = [step |-> "recv", target |-> NoTarget]
    <3>1. TargetsType' /\ ManagedInv' /\ PolicyLockInv'
      BY <2>1, <2>2, ZenonT(60) DEF TargetsInv, TargetsType, ManagedInv, PolicyLockInv
    <3>2. \A u \in Targets : u # t => live'[u] = live[u]
      BY <2>2, ZenonT(60) DEF TargetsInv, TargetsType, ManagedInv, PolicyLockInv, At, Goes
    <3>3. live[t] = "detached" => live'[t] = "detached"
      BY <2>1, <2>2, SMTT(60) DEF TargetsType
    <3>4. EventInv'
      <4>1. \A i \in 1..Len(targetEvents) : targetEvents[i] \in Events /\ targetEvents[i][2] \in Targets
        BY SMTT(60) DEF Events, TargetsInv, TargetsType
      <4>2. \A i \in 1..Len(targetEvents) : targetEvents[i][1] = "attached" => targetEvents[i][2] # t
        BY <2>1, Zenon DEF TargetsInv, EventInv
      <4>3. targetEvents' = targetEvents /\ manager'.step \notin Handling
        BY <2>1, <2>2, Zenon
      <4> QED
        BY <3>2, <3>3, <4>1, <4>2, <4>3, ZenonT(60) DEF TargetsInv, EventInv
    <3>5. PolicyInv' /\ ResumedUnderPolicy'
      BY <2>1, <2>2, <3>2, ZenonT(60) DEF TargetsInv, PolicyInv, PolicyLockInv, ResumedUnderPolicy, Enforceable
    <3> QED
      BY <3>1, <3>4, <3>5, Zenon DEF TargetsInv
  <2>3. CASE manager' = [step |-> "undo", target |-> t] /\ UNCHANGED <<live, readers>>
    <3>1. /\ targetEvents' = targetEvents /\ managed' = managed /\ frames' = frames /\ routed' = routed
          /\ policy' = policy /\ applier' = applier /\ live' = live /\ applied' = applied /\ readers' = readers
      BY <2>1, <2>3, Zenon
    <3>2. TargetsType'
      BY <2>1, <2>3, <3>1, ZenonT(60) DEF TargetsInv, TargetsType
    <3>3. EventInv' /\ ManagedInv'
      BY <2>1, <2>3, <3>1, HandlingKept, Zenon
    <3>4. PolicyLockInv'
      BY <2>1, <2>3, <3>1, Zenon DEF TargetsInv, PolicyLockInv
    <3>5. PolicyInv' /\ ResumedUnderPolicy'
      BY <2>3, <3>1, PolicyKept, Zenon
    <3> QED
      BY <3>2, <3>3, <3>4, <3>5, Zenon DEF TargetsInv
  <2> QED
    BY <1>3, <2>2, <2>3, Zenon DEF resume_target, Goes
<1>4. CASE remove_target
  <2>1. /\ t \in managed /\ manager.step = "undo" /\ t \in Targets /\ live[t] # "running"
        /\ routed' = routed \ {t} /\ managed' = managed \ {t} /\ frames' = frames \ {t}
        /\ close_target(t) /\ readers' = FALSE /\ manager' = [step |-> "recv", target |-> NoTarget]
        /\ UNCHANGED <<targetEvents, policy, applier, applied>>
    BY <1>4, Zenon DEF remove_target, TargetsInv, TargetsType, ManagedInv, PolicyLockInv, At, Goes
  <2>2. /\ live' \in [Targets -> {"absent", "paused", "running", "closed", "detached"}]
        /\ \A u \in Targets :
             /\ live'[u] = "running" => live[u] = "running"
             /\ live[u] = "detached" => live'[u] = "detached"
             /\ live[u] \notin {"absent", "running"} => live'[u] \notin {"absent", "running"}
    BY <2>1, Closed, Zenon
  <2>3. TargetsType' /\ ManagedInv' /\ PolicyLockInv'
    BY <2>1, <2>2, Zenon DEF TargetsInv, TargetsType, ManagedInv, PolicyLockInv
  <2>4. EventInv'
    <3>1. \A i \in 1..Len(targetEvents) : targetEvents[i] \in Events /\ targetEvents[i][2] \in Targets
      BY DEF Events, TargetsInv, TargetsType, At, Goes
    <3> QED
      BY <2>1, <2>2, <3>1, ZenonT(60) DEF TargetsInv, EventInv
  <2>5. PolicyInv' /\ ResumedUnderPolicy'
    BY <2>1, <2>2, Zenon DEF Enforceable, TargetsInv, TargetsType, PolicyInv, ResumedUnderPolicy
  <2> QED
    BY <2>3, <2>4, <2>5, Zenon DEF TargetsInv
<1>5. CASE CloseManager
  <2>1. /\ manager' = [step |-> "ended", target |-> NoTarget] /\ readers' = FALSE
        /\ UNCHANGED <<targetEvents, managed, frames, routed, policy, applier, live, applied>>
    BY <1>5, Zenon DEF CloseManager, Cancelled, TargetsType, Goes
  <2>2. readers' \in BOOLEAN
    BY <2>1, Zenon
  <2>3. TargetsType' /\ EventInv' /\ ManagedInv'
    BY <2>1, <2>2, HandlingKept, ZenonT(60) DEF TargetsInv, TargetsType
  <2>4. PolicyLockInv'
    BY <2>1, Zenon DEF PolicyLockInv
  <2>5. PolicyInv' /\ ResumedUnderPolicy'
    BY <2>1, PolicyKept, Zenon
  <2> QED
    BY <2>3, <2>4, <2>5, Zenon DEF TargetsInv
<1>6. CASE EventsFail /\ UNCHANGED targetEvents
  <2>1. CASE manager' = [step |-> "ended", target |-> NoTarget]
    <3>1. /\ targetEvents' = targetEvents /\ managed' = managed /\ frames' = frames /\ routed' = routed
          /\ policy' = policy /\ applier' = applier /\ live' = live /\ applied' = applied /\ readers' = readers
      BY <1>6, Zenon DEF EventsFail
    <3>2. TargetsType' /\ EventInv' /\ ManagedInv'
      BY <2>1, <3>1, HandlingKept, ZenonT(60) DEF TargetsInv, TargetsType
    <3>3. PolicyLockInv'
      BY <2>1, <3>1, Zenon DEF TargetsInv, PolicyLockInv
    <3>4. PolicyInv' /\ ResumedUnderPolicy'
      BY <2>1, <3>1, PolicyKept, Zenon
    <3> QED
      BY <3>2, <3>3, <3>4, Zenon DEF TargetsInv
  <2>2. CASE UNCHANGED manager
    BY <1>6, <2>2, DiscardStep, Zenon
  <2> QED
    BY <1>6, <2>1, <2>2, Zenon DEF EventsFail, Goes
<1> QED
  BY <1>1, <1>2, <1>3, <1>4, <1>5, <1>6, Zenon DEF TargetsInv

\* apply_policy: no target starts to run while the lock is held for writing, and
\* the change is committed when every managed target has it.
LEMMA ApplyStep ==
  ASSUME TargetsInv,
         \/ \E change \in Policies : ApplyPolicy(change)
         \/ WritePolicy \/ CommitPolicy
         \/ \E t \in Targets : ApplyTo(t)
  PROVE  TargetsInv'
<1>1. UNCHANGED <<targetEvents, managed, frames, routed, live>>
  BY Zenon DEF ApplyPolicy, WritePolicy, CommitPolicy, ApplyTo, applierRest
<1>2. ASSUME NEW change \in Policies, ApplyPolicy(change) PROVE TargetsInv'
  <2>1. /\ applier' = [step |-> "waits", change |-> change, todo |-> {}, count |-> 0]
        /\ UNCHANGED <<policy, readers, manager, applied>>
    BY <1>2, Zenon DEF ApplyPolicy, Idle, At
  <2>2. TargetsType' /\ EventInv' /\ ManagedInv'
    <3>1. applier' \in Applying
      BY <2>1, SMTT(60)
    <3>2. TargetsType'
      BY <1>1, <2>1, <3>1, Zenon DEF TargetsInv, TargetsType
    <3>3. EventInv' /\ ManagedInv'
      BY <1>1, <2>1, ZenonT(60) DEF TargetsInv, EventInv, ManagedInv
    <3> QED
      BY <3>2, <3>3, Zenon
  <2>3. applier'.step = "waits" /\ applier'.change \in Policies
    BY <2>1, Zenon
  <2>4. PolicyLockInv'
    BY <2>1, <2>3, Zenon DEF TargetsInv, PolicyLockInv
  <2>5. PolicyInv'
    BY <1>1, <2>1, <2>3, Zenon DEF Enforceable, TargetsInv, PolicyInv
  <2>6. ResumedUnderPolicy'
    BY <1>1, <2>1, Zenon DEF Enforceable, TargetsInv, ResumedUnderPolicy
  <2> QED
    BY <2>2, <2>4, <2>5, <2>6, Zenon DEF TargetsInv
<1>3. CASE WritePolicy
  <2>1. applier.step = "waits" /\ ~readers /\ UNCHANGED <<policy, readers, manager, applied>>
    BY <1>3, Zenon DEF WritePolicy
  <2>2. \/ applier' = [applier EXCEPT !.step = "refused"]
        \/ applier' = [applier EXCEPT !.step = "applies", !.todo = applies_to(applier.change)]
    BY <1>3, Zenon DEF WritePolicy, TargetsInv
  <2>3. \A t \in managed : applier.change \in Enforceable(t) => t \in applies_to(applier.change)
    BY <2>1, Zenon DEF applies_to, Enforceable, Targets, TargetsInv, TargetsType
  <2>4. applies_to(applier.change) \subseteq Targets
    BY Zenon DEF applies_to, TargetsInv, TargetsType, ManagedInv, PolicyLockInv
  <2>5. /\ applier' \in Applying
        /\ applier'.change = applier.change
        /\ applier'.step \in {"refused", "applies"}
        /\ applier'.step = "applies" => applier'.todo = applies_to(applier.change)
    <3>1. CASE applier' = [applier EXCEPT !.step = "refused"]
      BY <3>1, Zenon DEF TargetsInv, TargetsType, PolicyLockInv, ResumedUnderPolicy, At, Goes
    <3>2. CASE applier' = [applier EXCEPT !.step = "applies", !.todo = applies_to(applier.change)]
      <4>1. applier' = [step |-> "applies", change |-> applier.change,
                        todo |-> applies_to(applier.change), count |-> applier.count]
        BY <3>2, Zenon DEF TargetsInv, TargetsType
      <4> QED
        BY <2>4, <4>1, Zenon DEF TargetsInv, TargetsType
    <3> QED
      BY <2>2, <3>1, <3>2, Zenon DEF TargetsInv
  <2>6. TargetsType' /\ EventInv' /\ ManagedInv'
    <3>1. /\ targetEvents' = targetEvents /\ managed' = managed /\ frames' = frames /\ routed' = routed
          /\ live' = live /\ manager' = manager
      BY <1>1, <2>1, Zenon
    <3>2. EventInv' /\ ManagedInv'
      BY <3>1, HandlingKept, Zenon
    <3>3. TargetsType'
      BY <2>1, <2>5, <3>1, ZenonT(60) DEF TargetsInv, TargetsType
    <3> QED
      BY <3>2, <3>3, Zenon
  <2>7. PolicyLockInv'
    BY <2>1, <2>5, Zenon DEF TargetsInv, PolicyLockInv
  <2>8. PolicyInv'
    <3>1. ASSUME NEW t \in Targets, live'[t] = "running", applier'.change \in Enforceable(t),
                 applier'.step = "applies"
          PROVE  t \in applier'.todo
      BY <1>1, <2>3, <2>5, <3>1, ZenonT(60) DEF TargetsInv, ManagedInv
    <3>2. applier.change \in Policies /\ manager' = manager /\ policy' = policy /\ applied' = applied
      BY <2>1, Zenon DEF TargetsInv, PolicyInv
    <3> QED
      BY <2>5, <3>1, <3>2, Zenon DEF TargetsInv, PolicyInv, Enforceable
  <2>9. ResumedUnderPolicy'
    BY <1>1, <2>1, Zenon DEF Enforceable, TargetsInv, TargetsType, ResumedUnderPolicy
  <2> QED
    BY <2>6, <2>7, <2>8, <2>9, Zenon DEF TargetsInv
<1>4. CASE CommitPolicy
  <2>1. /\ targetEvents' = targetEvents /\ managed' = managed /\ frames' = frames /\ routed' = routed
        /\ live' = live /\ manager' = manager /\ readers' = readers /\ applied' = applied
    BY <1>1, <1>4, Zenon DEF CommitPolicy
  <2>2. /\ applier.step = "applies" /\ applier.todo = {} /\ applier' = [applier EXCEPT !.step = "done"]
        /\ policy' = policy \cup {applier.change} /\ applier.change \in Policies
    BY <1>4, Zenon DEF CommitPolicy, TargetsInv, PolicyInv
  <2>3. applier' \in Applying /\ applier'.step = "done"
    BY <2>2, Zenon DEF TargetsInv, TargetsType
  <2>4. EventInv' /\ ManagedInv'
    BY <2>1, HandlingKept, Zenon
  <2>5. TargetsType'
    BY <2>1, <2>2, <2>3, ZenonT(60) DEF TargetsInv, TargetsType
  <2>6. PolicyLockInv' /\ manager.step # "resume"
    BY <2>1, <2>2, <2>3, Zenon DEF TargetsInv, PolicyLockInv
  <2>7. PolicyInv'
    BY <2>1, <2>3, <2>6, Zenon DEF PolicyInv
  <2>8. ResumedUnderPolicy'
    BY <2>1, <2>2, ZenonT(60) DEF TargetsInv, PolicyInv, ResumedUnderPolicy, Enforceable
  <2> QED
    BY <2>4, <2>5, <2>6, <2>7, <2>8, Zenon DEF TargetsInv
<1>5. ASSUME NEW t \in Targets, ApplyTo(t) PROVE TargetsInv'
  <2>1. applier.step = "applies" /\ policy' = policy
    BY <1>5, Zenon DEF ApplyTo
  <2>2. CASE /\ applied' = [applied EXCEPT ![t] = @ \cup {applier.change}]
             /\ applier' = [applier EXCEPT !.todo = @ \ {t}, !.count = @ + 1]
             /\ UNCHANGED <<manager, readers>>
    <3>1. /\ \A u \in Targets : applied[u] \subseteq applied'[u]
          /\ applier.change \in applied'[t] /\ applied' \in [Targets -> SUBSET Policies]
      BY <2>1, <2>2, ZenonT(60) DEF TargetsInv, TargetsType, PolicyInv
    <3>2. /\ applier' \in Applying
          /\ applier'.step = "applies" /\ applier'.change = applier.change
          /\ applier'.todo = applier.todo \ {t}
      <4>1. applier' = [step |-> "applies", change |-> applier.change,
                        todo |-> applier.todo \ {t}, count |-> applier.count + 1]
        BY <2>1, <2>2, Zenon DEF TargetsInv, TargetsType, ManagedInv, PolicyLockInv, At, Goes
      <4> QED
        BY <4>1, SMTT(60) DEF TargetsInv, TargetsType
    <3>3. manager' = manager /\ readers' = readers
      BY <2>2, Zenon DEF ManagedInv, PolicyLockInv
    <3>4. TargetsType' /\ EventInv' /\ ManagedInv' /\ PolicyLockInv'
      <4>1. /\ targetEvents' = targetEvents /\ managed' = managed /\ frames' = frames /\ routed' = routed
            /\ live' = live
        BY <1>1, Zenon
      <4>2. EventInv' /\ ManagedInv'
        BY <3>3, <4>1, HandlingKept, Zenon
      <4>3. TargetsType'
        BY <2>1, <3>1, <3>2, <3>3, <4>1, ZenonT(60) DEF TargetsInv, TargetsType
      <4>4. PolicyLockInv'
        BY <2>1, <3>2, <3>3, Zenon DEF TargetsInv, PolicyLockInv
      <4> QED
        BY <4>2, <4>3, <4>4, Zenon
    <3>5. PolicyInv' /\ ResumedUnderPolicy'
      <4>1. live' = live /\ policy' = policy /\ manager' = manager
        BY <1>1, <2>1, <3>3, Zenon
      <4>2. manager.step = "resume" => manager.target \in Targets
        BY Zenon DEF TargetsInv, TargetsType, ManagedInv
      <4>3. \A u \in Targets : live[u] = "running" /\ applier.change \in Enforceable(u) =>
                u \in applier'.todo \/ applier.change \in applied'[u]
        BY <2>1, <3>1, <3>2, Zenon DEF TargetsInv, PolicyInv
      <4>4. PolicyInv'
        BY <2>1, <3>1, <3>2, <4>1, <4>2, <4>3, Zenon DEF TargetsInv, PolicyInv, Enforceable
      <4>5. ResumedUnderPolicy'
        BY <3>1, <4>1, Zenon DEF TargetsInv, ResumedUnderPolicy, Enforceable
      <4> QED
        BY <4>4, <4>5, Zenon
    <3> QED
      BY <3>4, <3>5, Zenon DEF TargetsInv
  <2>3. CASE /\ applied' = applied /\ applier' = [applier EXCEPT !.step = "refused", !.todo = {}]
             /\ Cancelled \/ UNCHANGED <<manager, readers>>
    <3>1. /\ applier' \in Applying
          /\ applier'.step = "refused"
      BY <2>3, Zenon DEF TargetsInv, TargetsType, At
    <3>2. \/ manager' = [step |-> "ended", target |-> NoTarget] /\ readers' = FALSE
          \/ manager' = manager /\ readers' = readers
      BY <2>3, Zenon DEF Cancelled, ManagedInv, Goes
    <3>3. readers' \in BOOLEAN
      <4>1. CASE readers' = FALSE
        BY <4>1, Zenon
      <4>2. CASE readers' = readers
        BY <4>2, Zenon DEF TargetsInv, TargetsType
      <4> QED
        BY <3>2, <4>1, <4>2, Zenon DEF TargetsInv
    <3>4. TargetsType' /\ EventInv' /\ ManagedInv'
      <4>1. /\ targetEvents' = targetEvents /\ managed' = managed /\ frames' = frames /\ routed' = routed
            /\ live' = live
        BY <1>1, Zenon
      <4>2. EventInv' /\ ManagedInv'
        <5>1. CASE manager' = [step |-> "ended", target |-> NoTarget]
          BY <4>1, <5>1, HandlingKept, Zenon
        <5>2. CASE manager' = manager
          BY <4>1, <5>2, HandlingKept, Zenon
        <5> QED
          BY <3>2, <5>1, <5>2, Zenon
      <4>3. manager' \in [step : Handling \cup {"recv", "ended"}, target : Targets \cup {NoTarget}]
        <5>1. CASE manager' = [step |-> "ended", target |-> NoTarget]
          BY <5>1, Zenon
        <5>2. CASE manager' = manager
          BY <5>2, Zenon DEF TargetsInv, TargetsType
        <5> QED
          BY <3>2, <5>1, <5>2, Zenon
      <4>4. TargetsType'
        BY <2>1, <2>3, <3>1, <3>3, <4>1, <4>3, ZenonT(60) DEF TargetsInv, TargetsType
      <4> QED
        BY <4>2, <4>4, Zenon
    <3>6. PolicyLockInv'
      <4>1. CASE manager' = [step |-> "ended", target |-> NoTarget]
        BY <3>1, <4>1, Zenon DEF PolicyLockInv
      <4>2. CASE manager' = manager /\ readers' = readers
        BY <3>1, <4>2, Zenon DEF TargetsInv, ManagedInv, PolicyLockInv
      <4> QED
        BY <3>2, <4>1, <4>2, Zenon
    <3>5. PolicyInv' /\ ResumedUnderPolicy'
      <4>1. live' = live /\ policy' = policy /\ applied' = applied
        BY <1>1, <2>1, <2>3, Zenon
      <4>2. ResumedUnderPolicy'
        BY <4>1, Zenon DEF TargetsInv, ResumedUnderPolicy, Enforceable
      <4>3. PolicyInv'
        <5>1. CASE manager' = [step |-> "ended", target |-> NoTarget]
          BY <3>1, <4>1, <5>1, Zenon DEF PolicyInv
        <5>2. CASE manager' = manager
          BY <3>1, <4>1, <5>2, Zenon DEF TargetsInv, PolicyInv, Enforceable
        <5> QED
          BY <3>2, <5>1, <5>2, Zenon
      <4> QED
        BY <4>2, <4>3, Zenon
    <3> QED
      BY <3>4, <3>5, <3>6, Zenon DEF TargetsInv
  <2> QED
    BY <1>5, <2>2, <2>3, Zenon DEF ApplyTo
<1> QED
  BY <1>2, <1>3, <1>4, <1>5, Zenon

\* Every step preserves the invariant.
LEMMA TargetsStep == TargetsInv /\ [TargetsNext]_targetVars => TargetsInv'
<1> SUFFICES ASSUME TargetsInv, [TargetsNext]_targetVars PROVE TargetsInv'
  BY Zenon
<1>1. CASE UNCHANGED targetVars
  <2>1. TargetsType' /\ EventInv'
    BY <1>1, HandlingKept, ZenonT(60) DEF targetVars, TargetsInv, TargetsType
  <2>2. ManagedInv' /\ PolicyLockInv'
    <3>1. ManagedInv'
      BY <1>1, Zenon DEF targetVars, TargetsInv, ManagedInv
    <3>2. PolicyLockInv'
      BY <1>1, Zenon DEF targetVars, TargetsInv, PolicyLockInv
    <3> QED
      BY <3>1, <3>2, Zenon
  <2>3. PolicyInv' /\ ResumedUnderPolicy'
    BY <1>1, Zenon DEF targetVars, TargetsInv, PolicyInv, ResumedUnderPolicy, Enforceable
  <2> QED
    BY <2>1, <2>2, <2>3, Zenon DEF TargetsInv
<1>2. CASE EventsFail
  BY <1>2, DiscardStep, HandleStep, Zenon DEF EventsFail
<1>3. CASE reserve_target
  BY <1>3, DiscardStep, ReserveStep, Zenon
<1>4. CASE ManagerStep \/ CloseManager
  <2>1. CASE reject_popup \/ record_detached_target
    BY <2>1, DiscardStep, Zenon
  <2>2. CASE ReadPolicy \/ configure_target_session \/ resume_target \/ remove_target \/ CloseManager
    BY <2>2, HandleStep, Zenon
  <2> QED
    BY <1>3, <1>4, <2>1, <2>2, Zenon DEF ManagerStep
<1>5. CASE ApplierStep \/ \E change \in Policies : ApplyPolicy(change)
  BY <1>5, ApplyStep, Zenon DEF ApplierStep
<1>6. CASE \E t \in Targets : AttachTarget(t) \/ DetachTarget(t)
  BY <1>6, BrowserStep, Zenon
<1> QED
  BY <1>1, <1>2, <1>4, <1>5, <1>6, Zenon DEF TargetsNext

\* The invariant holds in every reachable state.
THEOREM TargetsInvariance == TargetsSpec => []TargetsInv
  BY TargetsInitial, TargetsStep, PTL DEF TargetsSpec

\* configure_target_session and apply_policy: no target ever runs without the
\* committed policies of its kind.
THEOREM PolicyInForce == TargetsSpec => []ResumedUnderPolicy
  BY TargetsInvariance, PTL DEF TargetsInv

\* reserve_target and remove_target: no running frame is missing from frames().
THEOREM FramesListed == TargetsSpec => []FramesComplete
<1>1. TargetsInv => FramesComplete
  BY Zenon DEF TargetsInv, ManagedInv, FramesComplete, Targets
<1> QED
  BY <1>1, TargetsInvariance, PTL

\* Both together, for any targets and whatever the browser reports in whatever
\* order while policies change.
THEOREM TargetsObey == TargetsSpec => []TargetsUnderPolicy
  BY PolicyInForce, FramesListed, PTL DEF TargetsUnderPolicy
-----------------------------------------------------------------------------
(***************************************************************************)
(* ValidatingProxy: connections go to judged addresses.                    *)
(***************************************************************************)
Unread == {"none", "waiting", "accepted", "head", "rejecting", "judging"}

ProxyType ==
    /\ connection \in [Connections -> Unread \cup {"resolving", "connecting", "forwarding", "finished", "closed"}]
    /\ judged \in [Connections -> GuardPolicies \cup {"none", "Pending", "DenyAll"}]
    /\ policyNow \in GuardPolicies \cup {"Pending", "DenyAll"}
    /\ pinned \in [Connections -> SUBSET (Addresses \X Hosts)]
    /\ upstream \in [Connections -> SUBSET (Addresses \X Hosts)]
    /\ late \subseteq Connections

\* The accept loop admits the connection it has just accepted.
AcceptInv == acceptor \in Connections => connection[acceptor] = "accepted"

\* Addresses are judged under the policy the connection read, and only those
\* are connected to.
PinnedInv ==
    \A c \in Connections :
        /\ connection[c] \in Unread \cup {"resolving"} => pinned[c] = {}
        /\ \A a \in pinned[c] : validate_address(judged[c], a[2], a[1])
        /\ upstream[c] \subseteq pinned[c]

\* A connection that reads the policy after deny_all goes no further.
LateInv ==
    /\ everDenied => policyNow = "DenyAll"
    /\ \A c \in late : connection[c] \in {"finished", "closed"} /\ upstream[c] = {}

ProxyInv == ProxyType /\ AcceptInv /\ PinnedInv /\ LateInv

\* No connection has the name of a state of the accept loop.
ProperNames == {"idle", "ended"} \cap Connections = {}

USE DEF Unread, ProperNames

\* The initial states satisfy the invariant.
LEMMA ProxyInitial == ASSUME ProperNames PROVE ProxyInit => ProxyInv
  BY ZenonT(60) DEF ProxyInit, ProxyInv, ProxyType, AcceptInv, PinnedInv, LateInv

\* set_guard, deny_all and the tokens change no connection; a guard never
\* replaces the denial.
LEMMA ProxyPolicyStep ==
  ASSUME ProperNames, ProxyInv,
         \/ \E guard \in GuardPolicies : set_guard(guard)
         \/ deny_all \/ DenyTraffic \/ CloseProxy \/ OtherPermits
  PROVE  ProxyInv'
<1>1. UNCHANGED <<acceptor, connection, judged, pinned, upstream, late>>
  BY Zenon DEF set_guard, deny_all, DenyTraffic, CloseProxy, OtherPermits, policyRest, loopUnchanged
<1>2. /\ policyNow' \in GuardPolicies \cup {"Pending", "DenyAll"}
      /\ everDenied' => policyNow' = "DenyAll"
  BY SMTT(60) DEF set_guard, deny_all, DenyTraffic, CloseProxy, OtherPermits, policyRest, loopUnchanged,
         ProxyInv, ProxyType, LateInv
<1> QED
  BY <1>1, <1>2, Zenon DEF ProxyInv, ProxyType, AcceptInv, PinnedInv, LateInv

\* The accept loop moves connections that have read nothing or are finished.
LEMMA AcceptStep ==
  ASSUME ProperNames, ProxyInv,
         \/ EndProxy
         \/ \E c \in Connections : \/ OpenConnection(c) \/ AcceptConnection(c)
                                   \/ AdmitConnection(c) \/ JoinConnection(c)
  PROVE  ProxyInv'
<1> USE DEF ProxyInv, ProxyType, AcceptInv, PinnedInv, LateInv, Moves, loopUnchanged
<1>1. CASE EndProxy
  BY <1>1, ZenonT(60) DEF EndProxy
<1>2. ASSUME NEW c \in Connections, OpenConnection(c) PROVE ProxyInv'
  BY <1>2, ZenonT(60) DEF OpenConnection
<1>3. ASSUME NEW c \in Connections, AcceptConnection(c) PROVE ProxyInv'
  BY <1>3, ZenonT(60) DEF AcceptConnection
<1>4. ASSUME NEW c \in Connections, AdmitConnection(c) PROVE ProxyInv'
  BY <1>4, ZenonT(60) DEF AdmitConnection
<1>5. ASSUME NEW c \in Connections, JoinConnection(c) PROVE ProxyInv'
  BY <1>5, ZenonT(60) DEF JoinConnection
<1> HIDE DEF ProxyInv
<1> QED
  BY <1>1, <1>2, <1>3, <1>4, <1>5, Zenon

\* serve_connection: the policy is read once, before anything is resolved.
LEMMA ServeStep ==
  ASSUME ProperNames, ProxyInv, NEW c \in Connections, Serve(c) \/ EndForwarding(c)
  PROVE  ProxyInv'
<1> USE DEF ProxyInv, ProxyType, AcceptInv, PinnedInv, LateInv, Moves, serveRest
<1>1. CASE RejectConnection(c) \/ ReadHead(c) \/ StopServing(c) \/ EndForwarding(c)
  BY <1>1, SMTT(60) DEF RejectConnection, ReadHead, StopServing, EndForwarding
<1>2. CASE ReadProxyPolicy(c)
  BY <1>2, ZenonT(60) DEF ReadProxyPolicy
<1>3. CASE resolve_validated_addresses(c)
  <2>1. PICK host \in Hosts, found \in SUBSET Addresses :
            IF validate_resolved(judged[c], host, found)
            THEN Moves(c, "connecting") /\ pinned' = [pinned EXCEPT ![c] = found \X {host}]
            ELSE Moves(c, "finished") /\ UNCHANGED pinned
    BY <1>3, Zenon DEF resolve_validated_addresses
  <2>2. CASE validate_resolved(judged[c], host, found)
    <3>1. \A a \in found \X {host} : validate_address(judged[c], a[2], a[1])
      BY <2>2, SMTT(60) DEF validate_resolved
    <3>2. found \X {host} \in SUBSET (Addresses \X Hosts)
      BY ZenonT(60)
    <3>3. /\ connection[c] = "resolving" /\ connection' = [connection EXCEPT ![c] = "connecting"]
          /\ pinned' = [pinned EXCEPT ![c] = found \X {host}]
          /\ UNCHANGED <<serveRest, judged, upstream, late>>
      BY <1>3, <2>1, <2>2, Zenon DEF resolve_validated_addresses
    <3> HIDE <1>3, <2>1, <2>2
    <3>4. ProxyType' /\ AcceptInv' /\ LateInv'
      BY <3>2, <3>3, ZenonT(60)
    <3>5. pinned[c] = {} /\ upstream'[c] = {}
      BY <3>3, Zenon
    <3>6. PinnedInv'
      BY <3>1, <3>3, <3>5, ZenonT(60)
    <3> QED
      BY <3>4, <3>6, Zenon
  <2>3. CASE ~validate_resolved(judged[c], host, found)
    <3>1. /\ connection[c] = "resolving" /\ connection' = [connection EXCEPT ![c] = "finished"]
          /\ UNCHANGED <<serveRest, judged, pinned, upstream, late>>
      BY <1>3, <2>1, <2>3, Zenon DEF resolve_validated_addresses
    <3> QED
      BY <3>1, ZenonT(60)
  <2> QED
    BY <2>2, <2>3, Zenon
<1>4. CASE connect_pinned(c)
  BY <1>4, SMTT(60) DEF connect_pinned
<1> HIDE DEF ProxyInv
<1> QED
  BY <1>1, <1>2, <1>3, <1>4, Zenon DEF Serve

\* Every step preserves the invariant.
LEMMA ProxyStep == ASSUME ProperNames PROVE ProxyInv /\ [ProxyNext]_proxyVars => ProxyInv'
<1> SUFFICES ASSUME ProxyInv, [ProxyNext]_proxyVars PROVE ProxyInv'
  BY Zenon
<1>1. CASE UNCHANGED proxyVars
  BY <1>1, Zenon DEF proxyVars, ProxyInv, ProxyType, AcceptInv, PinnedInv, LateInv
<1>2. CASE ProxyNext
  BY <1>2, ProxyPolicyStep, AcceptStep, ServeStep, Zenon DEF ProxyNext, Accepting
<1> QED
  BY <1>1, <1>2, Zenon

\* resolve_validated_addresses and connect_pinned: whatever the resolver answers
\* and however the policy changes meanwhile, the proxy connects only to addresses
\* that the policy the connection read allows.
THEOREM Validated == ASSUME ProperNames PROVE ProxySpec => []ConnectsOnlyValidated
<1>1. ProxyInv => ConnectsOnlyValidated
  BY Zenon DEF ProxyInv, PinnedInv, ConnectsOnlyValidated
<1> QED
  BY <1>1, ProxyInitial, ProxyStep, PTL DEF ProxySpec

\* deny_all and set_guard: no connection judged after the denial reaches an
\* upstream, whatever guard is set afterwards.
THEOREM Denied == ASSUME ProperNames PROVE ProxySpec => []DenialIsFinal
<1>1. ProxyInv => DenialIsFinal
  BY Zenon DEF ProxyInv, LateInv, DenialIsFinal
<1> QED
  BY <1>1, ProxyInitial, ProxyStep, PTL DEF ProxySpec

\* Both together, for any connections, hosts, addresses and rules.
THEOREM ProxyObeys == ASSUME ProperNames PROVE ProxySpec => []ProxyObeysPolicy
  BY Validated, Denied, PTL DEF ProxyObeysPolicy
-----------------------------------------------------------------------------
(***************************************************************************)
(* PageInterception: what navigate reports as loaded.                      *)
(***************************************************************************)
TaskSteps == {"none", "queued", "dropped", "overload", "prepare", "guard", "deciding", "capture", "streaming",
              "finished", "joined"} \cup Verdicts

\* The pause of the navigation is one of the pauses; the limits are numbers.
InterceptConstants ==
    /\ Main \in Pauses /\ IsFiniteSet(Pauses) /\ RedirectLimit \in Nat
    /\ MAXIMUM_DNS_DECISIONS \in Nat /\ MAXIMUM_RESPONSE_STREAMS \in Nat

\* A pause in the queue is there once and has no task yet.
QueueInv ==
    /\ pausedEvents \in Seq(Pauses)
    /\ \A i \in 1..Len(pausedEvents) : task[pausedEvents[i]] = "queued"
    /\ \A i, j \in 1..Len(pausedEvents) : pausedEvents[i] = pausedEvents[j] => i = j

\* The browser has a verdict only of a task that has ended.
VerdictInv ==
    /\ task \in [Pauses -> TaskSteps] /\ resolution \in [Pauses -> SUBSET Verdicts]
    /\ \A p \in Pauses : resolution[p] # {} => task[p] \in {"finished", "joined"}

\* The events of a navigation: its redirects in order, then the one that ends it.
NavigationInv ==
    /\ hops \in Nat /\ counted \in Nat /\ navEvents \in Seq({"redirect", "milestone", "loadingFailed"})
    /\ navigation = "idle" => hops = 0 /\ counted = 0 /\ navEvents = <<>>
    /\ navigation = "asked" => /\ counted = 0 /\ Len(navEvents) = hops
                               /\ \A i \in 1..Len(navEvents) : navEvents[i] = "redirect"
    /\ navigation = "waits" =>
          /\ counted <= RedirectLimit /\ Len(navEvents) = hops - counted + 1 /\ Len(navEvents) > 0
          /\ \A i \in 1..(Len(navEvents) - 1) : navEvents[i] = "redirect"
          /\ navEvents[Len(navEvents)] # "redirect"
    /\ navigation = "loaded" => hops <= RedirectLimit
    /\ navigation \in {"waits", "loaded"} => resolution[Main] # {} /\ "Fail" \notin resolution[Main]

InterceptInv == QueueInv /\ VerdictInv /\ NavigationInv

\* The initial states satisfy the invariant.
LEMMA InterceptInitial == ASSUME InterceptInit PROVE InterceptInv
  BY SMTT(60) DEF InterceptInit, InterceptInv, QueueInv, VerdictInv, NavigationInv, TaskSteps

\* The browser pauses a request, or the loop takes one up or stops.
LEMMA QueueStep ==
  ASSUME InterceptConstants, InterceptInv,
         (\E p \in Pauses : Pause(p)) \/ TakePause \/ LoopFails \/ SeeCancellation
  PROVE  InterceptInv'
<1> USE DEF InterceptInv, TaskSteps, Verdicts
<1>0. UNCHANGED <<resolution, navEvents, navigation, hops, counted>>
  BY Zenon DEF Pause, TakePause, LoopFails, SeeCancellation, loopRest
<1>1. NavigationInv'
  BY <1>0, Zenon DEF NavigationInv
<1> SUFFICES QueueInv' /\ VerdictInv'
  BY <1>1, Zenon
<1>2. ASSUME NEW p \in Pauses, Pause(p) PROVE QueueInv' /\ VerdictInv'
  <2>1. CASE loop = "running"
    <3>1. task[p] = "none" /\ task' = [task EXCEPT ![p] = "queued"] /\ pausedEvents' = Append(pausedEvents, p)
      BY <1>2, <2>1, Zenon DEF Pause
    <3>2. \A i \in 1..Len(pausedEvents) : pausedEvents[i] # p
      BY <3>1, Zenon DEF QueueInv
    <3>3. /\ Len(pausedEvents') = Len(pausedEvents) + 1 /\ pausedEvents' \in Seq(Pauses)
          /\ pausedEvents'[Len(pausedEvents) + 1] = p
          /\ \A i \in 1..Len(pausedEvents) : pausedEvents'[i] = pausedEvents[i] /\ pausedEvents[i] \in Pauses
      BY <3>1, SMTT(60) DEF QueueInv
    <3>4. QueueInv'
      BY <3>1, <3>2, <3>3, SMTT(60) DEF QueueInv, VerdictInv
    <3>5. VerdictInv'
      BY <1>0, <3>1, Zenon DEF VerdictInv
    <3> QED
      BY <3>4, <3>5, Zenon
  <2>2. CASE loop # "running"
    BY <1>0, <1>2, <2>2, SMTT(60) DEF Pause, QueueInv, VerdictInv
  <2> QED
    BY <2>1, <2>2, Zenon
<1>3. CASE TakePause
  <2> DEFINE p == Head(pausedEvents)
  <2>1. p \in Pauses /\ task[p] = "queued" /\ pausedEvents # <<>> /\ p = pausedEvents[1]
    BY <1>3, SMTT(60) DEF TakePause, QueueInv
  <2>2. PICK s \in {"overload", "prepare"} : task' = [task EXCEPT ![p] = s]
    BY <1>3, Zenon DEF TakePause
  <2>3. /\ Len(pausedEvents') = Len(pausedEvents) - 1 /\ pausedEvents' \in Seq(Pauses)
        /\ \A i \in 1..Len(pausedEvents') : pausedEvents'[i] = pausedEvents[i + 1] /\ pausedEvents[i + 1] # p /\ pausedEvents[i + 1] \in Pauses
    BY <1>3, <2>1, SMTT(60) DEF TakePause, QueueInv
  <2>6. \A q \in Pauses : q # p => task'[q] = task[q]
    BY <2>1, <2>2, Zenon DEF VerdictInv
  <2>7. \A i \in 1..Len(pausedEvents') : i + 1 \in 1..Len(pausedEvents)
    BY <2>3, SMTT(60) DEF QueueInv
  <2>8. \A i \in 1..Len(pausedEvents') : task'[pausedEvents'[i]] = "queued"
    BY <2>3, <2>6, <2>7, SMTT(60) DEF QueueInv
  <2>9. \A i, j \in 1..Len(pausedEvents') : pausedEvents'[i] = pausedEvents'[j] => i = j
    <3> TAKE i \in 1..Len(pausedEvents'), j \in 1..Len(pausedEvents')
    <3> HAVE pausedEvents'[i] = pausedEvents'[j]
    <3>1. pausedEvents[i + 1] = pausedEvents[j + 1]
      BY <2>3, Zenon
    <3>2. i + 1 = j + 1
      BY <2>7, <3>1, Zenon DEF QueueInv
    <3>3. i \in Int /\ j \in Int
      BY <2>3
    <3> QED
      BY <3>2, <3>3
  <2>4. QueueInv'
    BY <2>3, <2>8, <2>9, Zenon DEF QueueInv
  <2>5. VerdictInv'
    BY <1>0, <2>1, <2>2, Zenon DEF VerdictInv
  <2> QED
    BY <2>4, <2>5, Zenon
<1>4. CASE LoopFails \/ SeeCancellation
  <2>1. Stop
    BY <1>4, Zenon DEF LoopFails, SeeCancellation
  <2> QED
    BY <1>0, <2>1, SMTT(60) DEF Stop, QueueInv, VerdictInv
<1> QED
  BY <1>1, <1>2, <1>3, <1>4, Zenon

\* The task of a pause goes on; it gives one verdict, at its end.
LEMMA TaskStepKeeps ==
  ASSUME InterceptConstants, InterceptInv, NEW p \in Pauses, TaskStep(p)
  PROVE  InterceptInv'
<1> USE DEF InterceptInv
<1>0. UNCHANGED <<pausedEvents, navEvents, navigation, hops, counted>>
  BY Zenon DEF TaskStep, Prepare, AcquirePermit, Decide, CaptureEnds, CancelTask, Resolve, FailOverloaded, JoinTask,
         taskRest, loopRest
<1>1. task[p] \notin {"none", "queued", "dropped", "joined"}
      /\ \E s \in TaskSteps \ {"none", "queued", "dropped", "overload"} : task' = [task EXCEPT ![p] = s]
  BY Zenon DEF TaskStep, Prepare, AcquirePermit, Decide, CaptureEnds, CancelTask, Resolve, FailOverloaded, JoinTask,
         Step, TaskSteps, Verdicts
<1>2. QueueInv'
  BY <1>0, <1>1, SMTT(60) DEF QueueInv, VerdictInv
<1>3. \/ resolution' = resolution /\ (resolution[p] # {} => task'[p] \in {"finished", "joined"})
      \/ /\ resolution[p] = {} /\ task'[p] \in {"finished", "joined"}
         /\ \E v \in Verdicts : resolution' = [resolution EXCEPT ![p] = @ \cup {v}]
  <2>1. CASE Prepare(p) \/ AcquirePermit(p) \/ Decide(p) \/ CaptureEnds(p) \/ CancelTask(p)
    BY <2>1, Zenon DEF Prepare, AcquirePermit, Decide, CaptureEnds, CancelTask, Step, VerdictInv
  <2>2. CASE Resolve(p)
    BY <2>2, Zenon DEF Resolve, VerdictInv, Verdicts
  <2>3. CASE FailOverloaded(p)
    BY <2>3, Zenon DEF FailOverloaded, Step, VerdictInv, Verdicts
  <2>4. CASE JoinTask(p)
    BY <2>4, Zenon DEF JoinTask, Step, loopRest, VerdictInv
  <2> QED
    BY <2>1, <2>2, <2>3, <2>4, Zenon DEF TaskStep
<1>4. VerdictInv'
  BY <1>1, <1>3 DEF VerdictInv
<1>5. resolution[Main] # {} => resolution'[Main] = resolution[Main]
  BY <1>3, Zenon DEF VerdictInv, InterceptConstants
<1>6. NavigationInv'
  BY <1>0, <1>5, Zenon DEF NavigationInv
<1> QED
  BY <1>2, <1>4, <1>6, Zenon

\* The navigation and its events: every hop is behind the event that ends it.
LEMMA NavigateKeeps ==
  ASSUME InterceptConstants, InterceptInv,
         \/ Redirect \/ Drained \/ Navigate \/ NavigateAnswered \/ NavigateTimesOut
         \/ SeeRedirect \/ SeeLoadingFailed \/ SeeMilestone \/ ReadinessProbe \/ CloseInterception
  PROVE  InterceptInv'
<1> USE DEF InterceptInv, InterceptConstants
<1>0. UNCHANGED <<resolution, task, pausedEvents>>
  BY Zenon DEF Redirect, Drained, Navigate, NavigateAnswered, NavigateTimesOut, SeeRedirect, SeeLoadingFailed,
         SeeMilestone, ReadinessProbe, CloseInterception, loopRest, navigateRest
<1>1. QueueInv' /\ VerdictInv'
  BY <1>0, ZenonT(60) DEF QueueInv, VerdictInv
<1> SUFFICES NavigationInv'
  BY <1>1, Zenon
<1>2. CASE Redirect
  <2>1. /\ navigation = "asked" /\ navigation' = "asked" /\ counted' = counted
        /\ hops' = hops + 1 /\ navEvents' = Append(navEvents, "redirect")
    BY <1>2, Zenon DEF Redirect
  <2>2. /\ hops \in Nat /\ counted = 0 /\ navEvents \in Seq({"redirect", "milestone", "loadingFailed"})
        /\ Len(navEvents) = hops /\ \A i \in 1..Len(navEvents) : navEvents[i] = "redirect"
    BY <2>1, Zenon DEF NavigationInv
  <2>3. /\ hops' \in Nat /\ navEvents' \in Seq({"redirect", "milestone", "loadingFailed"})
        /\ Len(navEvents') = hops' /\ \A i \in 1..Len(navEvents') : navEvents'[i] = "redirect"
    BY <2>1, <2>2, SMTT(60)
  <2>4. counted' \in Nat /\ counted' = 0
    BY <2>1, <2>2, Zenon DEF NavigationInv
  <2> QED
    BY <2>1, <2>3, <2>4, Zenon DEF NavigationInv
<1>3. CASE Drained \/ Navigate \/ NavigateTimesOut \/ CloseInterception
  <2>1. CASE Drained
    BY <1>0, <2>1, Zenon DEF Drained, NavigationInv, loopRest
  <2>2. CASE Navigate
    BY <1>0, <2>2, SMTT(60) DEF Navigate, NavigationInv, Returns, navigateRest
  <2>3. CASE NavigateTimesOut
    BY <1>0, <2>3, Zenon DEF NavigateTimesOut, NavigationInv, Returns, navigateRest
  <2>4. CASE CloseInterception
    BY <1>0, <2>4, Zenon DEF CloseInterception, NavigationInv, loopRest
  <2> QED
    BY <1>3, <2>1, <2>2, <2>3, <2>4, Zenon
<1>4. CASE NavigateAnswered
  <2>1. CASE "Fail" \in MainVerdict
    BY <1>0, <1>4, <2>1, Zenon DEF NavigateAnswered, NavigationInv, Returns, navigateRest
  <2>2. CASE "Fail" \notin MainVerdict
    <3>1. PICK last \in {"milestone", "loadingFailed"} : navEvents' = Append(navEvents, last)
      BY <1>4, <2>2, Zenon DEF NavigateAnswered
    <3>2. /\ navigation = "asked" /\ navigation' = "waits" /\ UNCHANGED <<hops, counted>> /\ resolution[Main] # {}
      BY <1>4, <2>2, Zenon DEF NavigateAnswered, Returns, navigateRest, MainVerdict
    <3> QED
      BY <1>0, <2>2, <3>1, <3>2, SMTT(60) DEF NavigationInv, MainVerdict
  <2> QED
    BY <2>1, <2>2, Zenon
<1>5. ASSUME NEW e, HeadEvent(e), navEvents' = Tail(navEvents)
      PROVE  /\ navEvents' \in Seq({"redirect", "milestone", "loadingFailed"})
             /\ Len(navEvents') = hops - counted /\ Len(navEvents) = Len(navEvents') + 1
             /\ e # "redirect" => Len(navEvents') = 0
             /\ e = "redirect" => Len(navEvents') > 0
             /\ \A i \in 1..(Len(navEvents') - 1) : navEvents'[i] = "redirect"
             /\ Len(navEvents') > 0 => navEvents'[Len(navEvents')] # "redirect"
  <2>1. /\ navEvents # <<>> /\ navEvents[1] = e /\ Len(navEvents) = hops - counted + 1 /\ Len(navEvents) > 0
        /\ navEvents \in Seq({"redirect", "milestone", "loadingFailed"})
        /\ \A i \in 1..(Len(navEvents) - 1) : navEvents[i] = "redirect"
        /\ navEvents[Len(navEvents)] # "redirect"
    BY <1>5, SMTT(60) DEF HeadEvent, NavigationInv
  <2>2. /\ navEvents' \in Seq({"redirect", "milestone", "loadingFailed"}) /\ Len(navEvents') = Len(navEvents) - 1
        /\ \A i \in 1..Len(navEvents') : navEvents'[i] = navEvents[i + 1]
    BY <1>5, <2>1
  <2>3. hops \in Nat /\ counted \in Nat /\ Len(navEvents) \in Nat
    BY SMTT(60) DEF NavigationInv
  <2>4. e = "redirect" => Len(navEvents) # 1
    BY <2>1, Zenon
  <2>5. e # "redirect" => Len(navEvents) = 1
    BY <2>1, <2>3
  <2>6. \A i \in 1..(Len(navEvents') - 1) : navEvents'[i] = "redirect"
    <3> SUFFICES ASSUME NEW i \in 1..(Len(navEvents') - 1) PROVE navEvents'[i] = "redirect"
      BY Zenon
    <3>1. i \in 1..Len(navEvents') /\ i + 1 \in 1..(Len(navEvents) - 1)
      BY <2>2, <2>3, SMTT(60)
    <3> QED
      BY <2>1, <2>2, <3>1, Zenon
  <2>7. Len(navEvents') > 0 => navEvents'[Len(navEvents')] = navEvents[Len(navEvents)]
    BY <2>2, <2>3, SMTT(60)
  <2> QED
    BY <2>1, <2>2, <2>3, <2>4, <2>5, <2>6, <2>7, SMTT(60)
<1>6. CASE SeeRedirect
  <2>1. HeadEvent("redirect") /\ navEvents' = Tail(navEvents)
    BY <1>6, Zenon DEF SeeRedirect
  <2> QED
    <3>1. /\ navigation = "waits" /\ counted' = counted + 1 /\ hops' = hops /\ resolution' = resolution
          /\ \/ navigation' = "failed"
             \/ ~(counted + 1 > RedirectLimit) /\ navigation' = navigation
      BY <1>0, <1>6, <2>1, Zenon DEF SeeRedirect, Returns, HeadEvent
    <3>2. hops \in Nat /\ counted \in Nat /\ resolution[Main] # {} /\ "Fail" \notin resolution[Main]
      BY <3>1, Zenon DEF NavigationInv
    <3>3. /\ navEvents' \in Seq({"redirect", "milestone", "loadingFailed"})
          /\ Len(navEvents') = hops - counted /\ Len(navEvents') > 0
          /\ \A i \in 1..(Len(navEvents') - 1) : navEvents'[i] = "redirect"
          /\ navEvents'[Len(navEvents')] # "redirect"
      BY <1>5, <2>1, Zenon
    <3>4. /\ counted' \in Nat /\ hops' \in Nat /\ Len(navEvents') = hops' - counted' + 1
          /\ navigation' # "failed" => counted' <= RedirectLimit
      BY <3>1, <3>2, <3>3, SMTT(60)
    <3> QED
      BY <3>1, <3>2, <3>3, <3>4, ZenonT(60) DEF NavigationInv
<1>7. CASE SeeLoadingFailed
  <2>1. HeadEvent("loadingFailed") /\ navEvents' = Tail(navEvents)
    BY <1>7, Zenon DEF SeeLoadingFailed
  <2> QED
    BY <1>0, <1>5, <1>7, <2>1, Zenon DEF SeeLoadingFailed, NavigationInv, Returns, HeadEvent, navigateRest
<1>8. CASE SeeMilestone
  <2>1. HeadEvent("milestone") /\ navEvents' = Tail(navEvents)
    BY <1>8, Zenon DEF SeeMilestone
  <2> QED
    <3>1. /\ navigation = "waits" /\ counted' = counted /\ hops' = hops /\ resolution' = resolution
          /\ navigation' \in {"refused", "loaded"}
      BY <1>0, <1>8, <2>1, Zenon DEF SeeMilestone, Returns, HeadEvent, navigateRest
    <3>2. /\ hops \in Nat /\ counted \in Nat /\ resolution[Main] # {} /\ "Fail" \notin resolution[Main]
          /\ counted <= RedirectLimit
      BY <3>1, Zenon DEF NavigationInv
    <3>3. /\ navEvents' \in Seq({"redirect", "milestone", "loadingFailed"})
          /\ Len(navEvents') = hops - counted /\ Len(navEvents') = 0
      <4>1. /\ navEvents' \in Seq({"redirect", "milestone", "loadingFailed"})
            /\ Len(navEvents') = hops - counted
            /\ "milestone" # "redirect" => Len(navEvents') = 0
        BY <1>5, <2>1, Zenon
      <4>2. "milestone" # "redirect"
        OBVIOUS
      <4> QED
        BY <4>1, <4>2, Zenon
    <3>4. hops <= RedirectLimit
      <4>0. \A m, n \in Nat : m - n = 0 => m = n
        OBVIOUS
      <4>1. hops = counted
        BY <3>2, <3>3, <4>0, Zenon
      <4> QED
        BY <3>2, <4>1, Zenon
    <3> QED
      BY <3>1, <3>2, <3>3, <3>4, ZenonT(60) DEF NavigationInv
<1>9. CASE ReadinessProbe
  <2>1. navigation = "waits" /\ \A i \in 1..Len(navEvents) : navEvents[i] # "redirect"
    BY <1>9, Zenon DEF ReadinessProbe
  <2>3. /\ Len(navEvents) \in Nat /\ Len(navEvents) > 0
        /\ \A i \in 1..(Len(navEvents) - 1) : navEvents[i] = "redirect"
    BY <2>1, SMTT(60) DEF NavigationInv
  <2>2. Len(navEvents) = 1
    <3>1. Len(navEvents) > 1 => navEvents[1] = "redirect"
      BY <2>3
    <3>2. 1 \in 1..Len(navEvents)
      BY <2>3
    <3>3. ~(Len(navEvents) > 1)
      BY <2>1, <3>1, <3>2, Zenon
    <3>4. Len(navEvents) \in Nat /\ Len(navEvents) > 0
      BY <2>3, Zenon
    <3>5. \A n \in Nat : n > 0 /\ ~(n > 1) => n = 1
      OBVIOUS
    <3> QED
      BY <3>3, <3>4, <3>5, Zenon
  <2> QED
    <3>1. /\ counted' = counted /\ hops' = hops /\ resolution' = resolution /\ navEvents' = navEvents
          /\ navigation' \in {"refused", "loaded"}
      BY <1>0, <1>9, Zenon DEF ReadinessProbe, Returns, navigateRest
    <3>2. /\ hops \in Nat /\ counted \in Nat /\ resolution[Main] # {} /\ "Fail" \notin resolution[Main]
          /\ counted <= RedirectLimit /\ Len(navEvents) = hops - counted + 1
      BY <2>1, Zenon DEF NavigationInv
    <3>3. hops = counted
      <4>1. \A m, n \in Nat : m - n + 1 = 1 => m = n
        OBVIOUS
      <4> QED
        BY <2>2, <3>2, <4>1, Zenon
    <3>4. hops <= RedirectLimit
      BY <3>2, <3>3, Zenon
    <3> QED
      BY <3>1, <3>2, <3>4, ZenonT(60) DEF NavigationInv
<1> QED
  BY <1>1, <1>2, <1>3, <1>4, <1>6, <1>7, <1>8, <1>9, Zenon

\* Every step preserves the invariant.
LEMMA InterceptStep ==
  ASSUME InterceptConstants, InterceptInv, [InterceptNext]_interceptVars PROVE InterceptInv'
<1>1. CASE UNCHANGED interceptVars
  BY <1>1, ZenonT(60) DEF interceptVars, InterceptInv, QueueInv, VerdictInv, NavigationInv
<1> QED
  BY <1>1, QueueStep, TaskStepKeeps, NavigateKeeps, Zenon DEF InterceptNext, LoopStep

\* navigate reports no document as loaded that interception refused or that more
\* redirects than allowed led to, with any number of pauses and hops.
THEOREM LoadedUnderPolicy ==
  ASSUME InterceptConstants PROVE InterceptSpec => []LoadedWithinPolicy
<1>1. InterceptInv => LoadedWithinPolicy
  BY Zenon DEF InterceptInv, NavigationInv, LoadedWithinPolicy
<1> QED
  BY <1>1, InterceptInitial, InterceptStep, PTL DEF InterceptSpec
-----------------------------------------------------------------------------
(***************************************************************************)
(* CdpCommands: every answer goes to the caller that waits for it.         *)
(***************************************************************************)
CallerStages == {"idle", "sending", "waiting", "left", "joining", "joined", "sent",
           "ok", "rejected", "closed", "timeout", "failed", "aborted"}

WireType ==
    /\ caller \in [Waiters \cup Closers -> CallerStages]
    /\ answer \in [Waiters -> {"none", "sent", "ok", "rejected", "closed"}]
    /\ outbound \in Seq(Waiters \cup Closers)
    /\ pending \subseteq Commands /\ cancellations \subseteq Commands
    /\ wire \in {"running", "ok", "failed", "aborted"}

\* What is in the channel or in the table was sent by its caller.
SentInv == \A c \in Range(outbound) \cup pending : caller[c] \notin {"idle", "sending"}

\* A cancellation follows the end of its caller; the table dies with the task.
CancelInv ==
    /\ \A c \in cancellations : caller[c] = "timeout"
    /\ wire # "running" => pending = {}

WireInv == WireType /\ SentInv /\ CancelInv /\ NoAbandonedCommand /\ NobodyStranded

\* A caller is of one kind.
OneKind == Commands \cap NoWaits = {} /\ Waiters \cap Closers = {}

\* The initial states satisfy the invariant.
LEMMA WireInitial == CommandsInit => WireInv
<1> SUFFICES ASSUME CommandsInit PROVE WireInv
  BY Zenon
<1>1. Range(outbound) = {} /\ outbound \in Seq(Waiters \cup Closers)
  BY DEF CommandsInit, Range
<1>2. WireType
  BY <1>1, Zenon DEF CommandsInit, WireType, CallerStages
<1>3. \A c \in Waiters : caller[c] = "idle"
  BY Zenon DEF CommandsInit
<1> QED
  BY <1>1, <1>2, <1>3, Zenon
     DEF CommandsInit, WireInv, SentInv, CancelInv, NoAbandonedCommand, NobodyStranded

\* The channel after a send.
LEMMA Sent ==
  ASSUME NEW S, NEW s \in Seq(S), NEW c \in S
  PROVE  Append(s, c) \in Seq(S) /\ Range(Append(s, c)) = Range(s) \cup {c}
<1> DEFINE longer == Append(s, c)
           n == Len(s)
<1>1. /\ longer \in Seq(S) /\ Len(longer) = n + 1 /\ longer[n + 1] = c /\ n \in Nat
      /\ \A j \in 1..n : longer[j] = s[j]
      /\ DOMAIN longer = 1..(n + 1) /\ DOMAIN s = 1..n
  BY SMTT(60)
<1> HIDE DEF longer, n
<1>2. Range(longer) = Range(s) \cup {c}
  BY <1>1, SMTT(60) DEF Range
<1> QED
  BY <1>1, <1>2, Zenon DEF longer

\* The channel after a receive.
LEMMA Received ==
  ASSUME NEW S, NEW s \in Seq(S), s # <<>>
  PROVE  Tail(s) \in Seq(S) /\ Head(s) \in S /\ Range(s) = Range(Tail(s)) \cup {Head(s)}
<1> DEFINE shorter == Tail(s)
           n == Len(s)
<1>1. /\ shorter \in Seq(S) /\ n \in Nat \ {0} /\ Head(s) = s[1] /\ s[1] \in S
      /\ \A i \in 1..(n - 1) : shorter[i] = s[i + 1]
      /\ DOMAIN shorter = 1..(n - 1) /\ DOMAIN s = 1..n
  OBVIOUS
<1> HIDE DEF shorter, n
<1>2. ASSUME NEW j \in 1..n PROVE s[j] \in Range(shorter) \cup {Head(s)}
  <2>1. CASE j = 1
    BY <1>1, <2>1, Zenon
  <2>2. CASE j # 1
    <3>1. j - 1 \in 1..(n - 1) /\ shorter[j - 1] = s[j]
      BY <1>1, <2>2, SMTT(60)
    <3> QED
      BY <1>1, <3>1, Zenon DEF Range
  <2> QED
    BY <2>1, <2>2, Zenon
<1>3. ASSUME NEW i \in 1..(n - 1) PROVE shorter[i] \in Range(s)
  <2>1. i + 1 \in 1..n /\ shorter[i] = s[i + 1]
    BY <1>1
  <2> QED
    BY <1>1, <2>1, Zenon DEF Range
<1>4. Head(s) \in Range(s)
  BY <1>1, SMTT(60) DEF Range
<1>5. Range(s) \subseteq Range(shorter) \cup {Head(s)}
  BY <1>1, <1>2, SMTT(60) DEF Range
<1>6. Range(shorter) \cup {Head(s)} \subseteq Range(s)
  BY <1>1, <1>3, <1>4, ZenonT(60) DEF Range
<1> QED
  BY <1>1, <1>5, <1>6, Zenon DEF shorter

\* What the channel holds are callers and closers.
LEMMA ChannelType == ASSUME WireInv PROVE Range(outbound) \subseteq Waiters \cup Closers
  BY SMTT(60) DEF WireInv, WireType, Range

\* One caller moves.
LEMMA MovesOne ==
  ASSUME WireInv, NEW c \in Waiters \cup Closers, NEW to \in CallerStages, CallerGoes(c, to)
  PROVE  /\ caller' \in [Waiters \cup Closers -> CallerStages] /\ caller'[c] = to
         /\ \A d \in Waiters \cup Closers : d # c => caller'[d] = caller[d]
  BY Zenon DEF WireInv, WireType, CallerGoes

\* A message that is sent joins the channel.
LEMMA Enqueued ==
  ASSUME WireInv, NEW c \in Waiters \cup Closers, Enqueue(c)
  PROVE  outbound' \in Seq(Waiters \cup Closers) /\ Range(outbound') = Range(outbound) \cup {c}
<1>1. outbound \in Seq(Waiters \cup Closers) /\ outbound' = Append(outbound, c)
  BY Zenon DEF WireInv, WireType, Enqueue
<1> QED
  BY <1>1, Sent, SMTT(60)

\* A step of a caller leaves the table and, but for a send, the channel alone.
LEMMA CallerSteps ==
  ASSUME OneKind, WireInv, NEW c \in Waiters \cup Closers,
         Start(c) \/ Enqueue(c) \/ Refused(c) \/ Answered(c) \/ Expire(c) \/ CancelOnDrop(c)
  PROVE  WireInv'
<1> USE ChannelType DEF WireInv, WireType, SentInv, CancelInv, NoAbandonedCommand, NobodyStranded
<1>w. Commands \subseteq Waiters
  BY Zenon DEF Waiters
<1>1. CASE Start(c)
  <2>1. /\ caller' \in [Waiters \cup Closers -> CallerStages] /\ caller'[c] = "sending"
        /\ \A d \in Waiters \cup Closers : d # c => caller'[d] = caller[d]
    BY <1>1, MovesOne, Zenon DEF Start, CallerStages
  <2> QED
    BY <1>1, <1>w, <2>1, ZenonT(60) DEF Start
<1>2. CASE Enqueue(c)
  <2>1. PICK to \in {"joining", "waiting"} :
          /\ caller' \in [Waiters \cup Closers -> CallerStages] /\ caller'[c] = to
          /\ \A d \in Waiters \cup Closers : d # c => caller'[d] = caller[d]
    BY <1>2, MovesOne, Zenon DEF Enqueue, CallerStages
  <2>2. /\ outbound' \in Seq(Waiters \cup Closers)
        /\ Range(outbound') = Range(outbound) \cup {c}
    BY <1>2, Enqueued, Zenon
  <2> QED
    BY <1>2, <1>w, <2>1, <2>2, ZenonT(60) DEF Enqueue
<1>3. CASE Refused(c)
  <2>1. /\ caller' \in [Waiters \cup Closers -> CallerStages] /\ caller'[c] = "closed"
        /\ \A d \in Waiters \cup Closers : d # c => caller'[d] = caller[d]
    BY <1>3, MovesOne, Zenon DEF Refused, CallerStages
  <2> QED
    BY <1>3, <1>w, <2>1, ZenonT(60) DEF Refused
<1>4. CASE Answered(c)
  <2>1. /\ caller' \in [Waiters \cup Closers -> CallerStages]
        /\ caller'[c] \in {"sent", "ok", "rejected", "closed"}
        /\ \A d \in Waiters \cup Closers : d # c => caller'[d] = caller[d]
    BY <1>4, MovesOne, ZenonT(60) DEF Answered, CallerStages
  <2> QED
    BY <1>4, <1>w, <2>1, ZenonT(60) DEF Answered
<1>5. CASE Expire(c)
  <2>1. PICK to \in {"timeout", "left"} :
          CallerGoes(c, to) /\ (to = "left" \/ caller[c] = "sending" \/ c \in NoWaits)
    BY <1>5, Zenon DEF Expire
  <2>2. /\ caller' \in [Waiters \cup Closers -> CallerStages] /\ caller'[c] = to
        /\ \A d \in Waiters \cup Closers : d # c => caller'[d] = caller[d]
    BY <2>1, MovesOne, ZenonT(60) DEF CallerStages
  <2>3. to = "timeout" => c \notin pending
    BY <2>1, Zenon DEF OneKind
  <2>4. c \notin cancellations
    BY <1>5, Zenon DEF Expire
  <2> QED
    BY <1>5, <1>w, <2>2, <2>3, <2>4, ZenonT(60) DEF Expire
<1>6. CASE CancelOnDrop(c)
  <2>1. /\ caller' \in [Waiters \cup Closers -> CallerStages] /\ caller'[c] = "timeout"
        /\ \A d \in Waiters \cup Closers : d # c => caller'[d] = caller[d]
    BY <1>6, MovesOne, Zenon DEF CancelOnDrop, CallerStages
  <2> QED
    BY <1>6, <1>w, <2>1, ZenonT(60) DEF CancelOnDrop, DropGuard
<1> QED
  BY <1>1, <1>2, <1>3, <1>4, <1>5, <1>6, Zenon

\* The end of the wire task answers whatever it still had.
LEMMA EndsStep ==
  ASSUME WireInv, NEW outcome \in {"ok", "failed", "aborted"}, NEW sent, Ends(outcome, sent),
         caller' \in [Waiters \cup Closers -> CallerStages],
         \A w \in Waiters : caller'[w] = caller[w]
  PROVE  WireInv'
<1>1. Range(outbound') = {} /\ outbound' \in Seq(Waiters \cup Closers)
  <2>1. outbound' = <<>>
    BY Zenon DEF Ends
  <2>2. Range(<<>>) = {} /\ <<>> \in Seq(Waiters \cup Closers)
    BY SMTT(60) DEF Range
  <2> QED
    BY <2>1, <2>2, Zenon
<1>2. WireType'
  BY <1>1, Zenon DEF WireInv, WireType, Ends
<1>3. SentInv' /\ CancelInv' /\ NoAbandonedCommand'
  BY <1>1, Zenon DEF Ends, SentInv, CancelInv, NoAbandonedCommand
<1>4. NobodyStranded'
  BY Zenon DEF WireInv, NobodyStranded, Ends
<1> QED
  BY <1>2, <1>3, <1>4, Zenon DEF WireInv

\* The wire task takes a message: one that nobody waits for is dropped, and the
\* table gets a command only while its caller waits.
LEMMA OutboundStep ==
  ASSUME OneKind, WireInv, TakeOutbound
  PROVE  WireInv'
<1> DEFINE c == Head(outbound)
<1>1. /\ wire = "running" /\ c \in Waiters /\ outbound \in Seq(Waiters \cup Closers)
      /\ Tail(outbound) \in Seq(Waiters \cup Closers)
      /\ Range(outbound) = Range(Tail(outbound)) \cup {c}
  BY Received, Zenon DEF WireInv, WireType, TakeOutbound
<1>2. caller[c] \notin {"idle", "sending"}
  BY <1>1, Zenon DEF WireInv, SentInv
<1> USE DEF WireInv, WireType, SentInv, CancelInv, NoAbandonedCommand, NobodyStranded
<1>3. CASE /\ IsClosed(c) /\ outbound' = Tail(outbound)
           /\ UNCHANGED <<caller, answer, cancellations, pending, browser, wire, joinable>>
  BY <1>1, <1>3, Zenon DEF IsClosed
<1>4. CASE ~IsClosed(c) /\ SendWire(c)
  BY <1>1, <1>2, <1>4, ZenonT(60) DEF IsClosed, SendWire, Waiters, OneKind
<1>5. CASE SendWireFails(c)
  BY <1>5, EndsStep, Zenon DEF SendWireFails
<1> QED
  BY <1>1, <1>3, <1>4, <1>5, Zenon DEF TakeOutbound

\* The other steps of the wire task.
LEMMA WireSteps ==
  ASSUME OneKind, WireInv,
         TakeCancellation \/ CloseWire \/ RouteFatal \/ (\E c \in Waiters : RouteAnswer(c))
  PROVE  WireInv'
<1>1. CASE TakeCancellation
  BY <1>1, Zenon
     DEF TakeCancellation, WireInv, WireType, SentInv, CancelInv, NoAbandonedCommand, NobodyStranded
<1>2. CASE CloseWire \/ RouteFatal
  <2>1. PICK outcome \in {"ok", "failed", "aborted"} : Ends(outcome, {})
    BY <1>2, Zenon DEF CloseWire, RouteFatal
  <2>2. caller' = caller
    BY <1>2, Zenon DEF CloseWire, RouteFatal
  <2>3. caller' \in [Waiters \cup Closers -> CallerStages]
    BY <2>2, Zenon DEF WireInv, WireType
  <2> QED
    BY <2>1, <2>2, <2>3, EndsStep, Zenon
<1>3. ASSUME NEW c \in Waiters, RouteAnswer(c) PROVE WireInv'
  BY <1>3, ZenonT(60)
     DEF RouteAnswer, WireInv, WireType, SentInv, CancelInv, NoAbandonedCommand, NobodyStranded,
         Waiters
<1> QED
  BY <1>1, <1>2, <1>3, Zenon

\* A closer changes no caller and ends the wire task or leaves it alone.
LEMMA CloserSteps ==
  ASSUME OneKind, WireInv, NEW c \in Closers, CloseUnsent(c) \/ Join(c) \/ Joined(c)
  PROVE  WireInv'
<1>1. PICK to \in CallerStages : /\ to \notin {"idle", "sending", "waiting", "timeout"}
                           /\ caller' = [caller EXCEPT ![c] = to]
  BY Zenon DEF CloseUnsent, Join, Joined, CallerGoes, WireInv, WireType, CallerStages
<1>2. /\ caller' \in [Waiters \cup Closers -> CallerStages]
      /\ \A w \in Waiters : caller'[w] = caller[w]
      /\ caller'[c] = to /\ \A d \in Waiters \cup Closers : d # c => caller'[d] = caller[d]
  BY <1>1, Zenon DEF WireInv, WireType, OneKind
<1>3. CASE Ends("aborted", {})
  BY <1>2, <1>3, EndsStep, Zenon
<1>4. CASE UNCHANGED <<answer, outbound, cancellations, pending, wire>>
  <2>1. WireType' /\ CancelInv' /\ NoAbandonedCommand'
    BY <1>2, <1>4, Zenon DEF WireInv, WireType, CancelInv, NoAbandonedCommand, Waiters
  <2>2. SentInv'
    BY <1>1, <1>2, <1>4, ChannelType, ZenonT(60) DEF WireInv, WireType, SentInv, Waiters
  <2>3. NobodyStranded'
    BY <1>2, <1>4, Zenon DEF WireInv, NobodyStranded
  <2> QED
    BY <2>1, <2>2, <2>3, Zenon DEF WireInv
<1> QED
  BY <1>3, <1>4, Zenon DEF CloseUnsent, Join, Joined

\* Every step preserves the invariant.
LEMMA WirePreserved == ASSUME OneKind PROVE WireInv /\ [CommandsNext]_commandVars => WireInv'
<1> SUFFICES ASSUME WireInv, [CommandsNext]_commandVars PROVE WireInv'
  BY Zenon
<1>1. CASE UNCHANGED commandVars
  BY <1>1, Zenon DEF commandVars, WireInv, WireType, SentInv, CancelInv, NoAbandonedCommand, NobodyStranded
<1>2. CASE CommandsNext
  BY <1>2, CallerSteps, OutboundStep, WireSteps, CloserSteps, Zenon
     DEF CommandsNext, WireStep, CallerStep, CloserStep
<1> QED
  BY <1>1, <1>2, Zenon

\* command_with_timeout and CommandCancellation: whichever of a command and its
\* cancellation is taken first, no entry of the table is left behind.
THEOREM TableKept == ASSUME OneKind PROVE CommandsSpec => []NoAbandonedCommand
<1>1. WireInv => NoAbandonedCommand
  BY Zenon DEF WireInv
<1> QED
  BY <1>1, WireInitial, WirePreserved, PTL DEF CommandsSpec

\* finish_wire_task: however the task ends, no caller is left without an answer.
THEOREM CallersAnswered == ASSUME OneKind PROVE CommandsSpec => []NobodyStranded
<1>1. WireInv => NobodyStranded
  BY Zenon DEF WireInv
<1> QED
  BY <1>1, WireInitial, WirePreserved, PTL DEF CommandsSpec
=============================================================================
