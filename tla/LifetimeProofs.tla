--------------------------- MODULE LifetimeProofs ---------------------------
(***************************************************************************)
(* Proofs about what is shared or left behind: the installed browser and   *)
(* its leases, what a page made in the browser, and a checkpoint           *)
(* destination; each for any number of processes, loads and owners.        *)
(***************************************************************************)
EXTENDS ManagedBrowser, PageLifecycle, CheckpointRegistry, TLAPS

-----------------------------------------------------------------------------
(***************************************************************************)
(* ManagedBrowser: the installed browser, its leases and its lock.         *)
(***************************************************************************)
\* The steps between acquire_lock and the drop of the CacheLock.
Locked == {"probe", "download", "extract", "metadata", "commit", "sync", "check", "list",
           "count", "create", "mark", "detach", "delete"}

\* Where a process is whose Chromium runs, or is about to be spawned.
Leased == {"launch", "endpoint", "connect", "keeper"}

Steps == Locked \cup Leased \cup {"idle", "discover", "rediscover", "lock", "unlock", "unlink"}

ManagedType ==
  /\ step \in [Processes -> Steps]
  /\ staging \in [Processes -> SUBSET Complete]
  /\ marker \in [Processes -> {"none", "free", "locked"}]
  /\ call \in [Processes -> {"none", "install", "lease", "active_leases", "remove"}]
  /\ listed \in [Processes -> SUBSET Processes]
  /\ active \in [Processes -> BOOLEAN]

\* The cache lock excludes: whoever is at a locked step is the holder.
LockInv == \A p \in Processes : step[p] \in Locked => lock = {p}

\* What is staged when it is renamed is whole.
StagingInv ==
  /\ installed \in {{}, Complete}
  /\ \A p \in Processes : /\ step[p] = "metadata" => "files" \in staging[p]
                          /\ step[p] = "commit" => staging[p] = Complete

\* Which operation a step belongs to; a lease goes on only with an installation.
CallInv ==
  \A p \in Processes :
    /\ step[p] \in {"check", "create", "mark"} => call[p] = "lease"
    /\ step[p] = "detach" => call[p] = "remove"
    /\ call[p] = "lease" /\ step[p] \in {"list", "count", "create", "mark"} => installed = Complete

\* A Chromium that runs, or is about to, has its locked marker and its files.
LeaseInv ==
  \A p \in Processes :
    /\ p \in running => step[p] \in Leased \cup {"idle"}
    /\ p \in running \/ step[p] = "launch" => marker[p] = "locked" /\ installed = Complete

\* The count under the lock misses no lease: what is not seen yet is still listed.
CountInv ==
  \A p, q \in Processes :
    /\ step[p] = "count" /\ marker[q] = "locked" => q \in listed[p] \/ active[p]
    /\ step[p] = "detach" => marker[q] # "locked"

ManagedInv == /\ ManagedType /\ running \subseteq Processes
        /\ LockInv /\ StagingInv /\ CallInv /\ LeaseInv /\ CountInv

USE DEF Locked, Leased, Steps, Complete

\* The initial states satisfy the invariant.
LEMMA ManagedInitial == ManagedInit => ManagedInv
  BY DEF ManagedInit, ManagedInv, ManagedType, LockInv, StagingInv, CallInv, LeaseInv, CountInv

\* A browser owner starts, replaces and closes its Chromium and drops its lease:
\* it touches nothing but its own marker.
LEMMA ProcessStep ==
  ASSUME ManagedInv, NEW p \in Processes,
         \/ AcquireBrowser(p) \/ ResolveAutoBrowser(p) \/ SpawnChromium(p)
         \/ WaitForEndpoint(p) \/ ConnectClient(p) \/ CreateKeeper(p)
         \/ CloseBrowser(p) \/ ReplaceUnhealthy(p) \/ DropBrowserLease(p) \/ Request(p)
  PROVE  ManagedInv'
<1> USE DEF ManagedInv, ManagedType, LockInv, StagingInv, CallInv, LeaseInv, CountInv, Moves, Calls
<1>1. CASE AcquireBrowser(p)
  BY <1>1, SMTT(60) DEF AcquireBrowser
<1>2. CASE ResolveAutoBrowser(p)
  BY <1>2, SMTT(60) DEF ResolveAutoBrowser
<1>3. CASE SpawnChromium(p)
  BY <1>3, SMTT(60) DEF SpawnChromium
<1>4. CASE WaitForEndpoint(p)
  BY <1>4, SMTT(60) DEF WaitForEndpoint, LaunchStep
<1>5. CASE ConnectClient(p)
  BY <1>5, SMTT(60) DEF ConnectClient, LaunchStep
<1>6. CASE CreateKeeper(p)
  BY <1>6, SMTT(60) DEF CreateKeeper, LaunchStep
<1>7. CASE CloseBrowser(p)
  BY <1>7, SMTT(60) DEF CloseBrowser
<1>8. CASE ReplaceUnhealthy(p)
  BY <1>8, SMTT(60) DEF ReplaceUnhealthy
<1>9. CASE DropBrowserLease(p)
  BY <1>9, SMTT(60) DEF DropBrowserLease
<1>10. CASE Request(p)
  BY <1>10, SMTT(60) DEF Request
<1> HIDE DEF ManagedInv
<1> QED
  BY <1>1, <1>2, <1>3, <1>4, <1>5, <1>6, <1>7, <1>8, <1>9, <1>10, Zenon

\* An operation that fails, returns or dies gives the lock back and changes
\* neither the installation nor the marker of another process.
LEMMA EndStep ==
  ASSUME ManagedInv, NEW p \in Processes,
         \/ LockTimeout(p) \/ MarkerVanished(p) \/ StepFails(p) \/ Crash(p)
         \/ SyncCache(p) \/ DeleteTrash(p)
  PROVE  ManagedInv'
<1> USE DEF ManagedInv, ManagedType, LockInv, StagingInv, CallInv, LeaseInv, CountInv, Moves, Returns, Fails
<1>1. CASE LockTimeout(p)
  BY <1>1, SMTT(60) DEF LockTimeout
<1>2. CASE MarkerVanished(p)
  BY <1>2, SMTT(60) DEF MarkerVanished
<1>3. CASE StepFails(p)
  BY <1>3, SMTT(60) DEF StepFails
<1>4. CASE Crash(p)
  BY <1>4, SMTT(60) DEF Crash
<1>5. CASE SyncCache(p)
  BY <1>5, SMTT(60) DEF SyncCache
<1>6. CASE DeleteTrash(p)
  BY <1>6, SMTT(60) DEF DeleteTrash
<1> HIDE DEF ManagedInv
<1> QED
  BY <1>1, <1>2, <1>3, <1>4, <1>5, <1>6, Zenon

\* install: nobody but the holder of the lock is at a locked step, and what the
\* holder renames is whole.
LEMMA InstallStep ==
  ASSUME ManagedInv, NEW p \in Processes,
         \/ acquire_lock(p) \/ ProbeEntry(p) \/ Download(p) \/ Extract(p)
         \/ WriteMetadata(p) \/ CommitStaging(p)
  PROVE  ManagedInv'
<1> USE DEF ManagedInv, ManagedType, LockInv, StagingInv, CallInv, LeaseInv, CountInv, Moves, Returns
<1>1. CASE acquire_lock(p)
  BY <1>1, ZenonT(60) DEF acquire_lock
<1>2. CASE ProbeEntry(p)
  BY <1>2, SMTT(60) DEF ProbeEntry
<1>3. CASE Download(p)
  BY <1>3, SMTT(60) DEF Download
<1>4. CASE Extract(p)
  BY <1>4, SMTT(60) DEF Extract, Stages
<1>5. CASE WriteMetadata(p)
  BY <1>5, SMTT(60) DEF WriteMetadata, Stages
<1>6. CASE CommitStaging(p)
  BY <1>6, SMTT(60) DEF CommitStaging
<1> HIDE DEF ManagedInv
<1> QED
  BY <1>1, <1>2, <1>3, <1>4, <1>5, <1>6, Zenon

\* lease and remove: only the holder of the lock locks a marker or renames the
\* directory, so what it counted is still true when it acts on it.
LEMMA LeaseStep ==
  ASSUME ManagedInv, NEW p \in Processes,
         \/ CheckInstalled(p) \/ ListMarkers(p) \/ InspectMarker(p) \/ Counted(p)
         \/ CreateMarker(p) \/ Detach(p)
  PROVE  ManagedInv'
<1> USE DEF ManagedInv, ManagedType, LockInv, StagingInv, CallInv, LeaseInv, CountInv, Moves, Returns
<1>1. CASE CheckInstalled(p)
  BY <1>1, SMTT(60) DEF CheckInstalled
<1>2. CASE ListMarkers(p)
  BY <1>2, SMTT(60) DEF ListMarkers
<1>3. CASE InspectMarker(p)
  <2>1. PICK q \in listed[p] :
          /\ listed' = [listed EXCEPT ![p] = @ \ {q}]
          /\ active' = [active EXCEPT ![p] = @ \/ marker[q] = "locked"]
          /\ marker' = [marker EXCEPT ![q] = IF @ = "free" THEN "none" ELSE @]
    BY <1>3, Zenon DEF InspectMarker
  <2>2. /\ step[p] = "count" /\ q \in Processes
        /\ UNCHANGED <<lock, installed, staging, running, call, step, acquiring>>
    BY <1>3, Zenon DEF InspectMarker
  <2>3. \A r \in Processes : marker'[r] = "locked" <=> marker[r] = "locked"
    BY <2>1, <2>2, ZenonT(60)
  <2>4. \A r \in Processes : r # p => listed'[r] = listed[r] /\ active'[r] = active[r]
    BY <2>1, <2>2, ZenonT(60)
  <2>5. listed'[p] = listed[p] \ {q} /\ active'[p] = (active[p] \/ marker[q] = "locked")
    BY <2>1, <2>2, ZenonT(60)
  <2>6. ManagedType'
    <3>1. listed' \in [Processes -> SUBSET Processes] /\ marker' \in [Processes -> {"none", "free", "locked"}]
      BY <2>1, <2>2, ZenonT(60)
    <3>2. active' \in [Processes -> BOOLEAN]
      BY <2>1, Zenon
    <3> QED
      BY <2>2, <3>1, <3>2, Zenon
  <2>7. CountInv'
    <3>1. ASSUME NEW r \in Processes, NEW u \in Processes, step[r] = "count", marker[u] = "locked"
          PROVE  u \in listed'[r] \/ active'[r]
      <4>1. r = p
        BY <2>2, <3>1, SMTT(60)
      <4>2. u \in listed[p] \/ active[p]
        BY <3>1, <4>1, Zenon
      <4>3. CASE u = q \/ active[p]
        BY <2>5, <3>1, <4>1, <4>3, ZenonT(60)
      <4>4. CASE u \in listed[p] /\ u # q
        BY <2>5, <4>1, <4>4, Zenon
      <4> QED
        BY <4>2, <4>3, <4>4, Zenon
    <3>2. \A r \in Processes : step[r] # "detach"
      BY <2>2, SMTT(60)
    <3> QED
      BY <2>2, <2>3, <3>1, <3>2, ZenonT(60)
  <2> QED
    BY <2>2, <2>3, <2>6, <2>7, ZenonT(60)
<1>4. CASE Counted(p)
  BY <1>4, SMTT(60) DEF Counted
<1>5. CASE CreateMarker(p)
  BY <1>5, SMTT(60) DEF CreateMarker
<1>6. CASE Detach(p)
  BY <1>6, SMTT(60) DEF Detach
<1> HIDE DEF ManagedInv
<1> QED
  BY <1>1, <1>2, <1>3, <1>4, <1>5, <1>6, Zenon

\* Every step preserves the invariant.
LEMMA ManagedPreserved == ManagedInv /\ [ManagedNext]_managedVars => ManagedInv'
<1> SUFFICES ASSUME ManagedInv, [ManagedNext]_managedVars PROVE ManagedInv'
  BY Zenon
<1>1. CASE UNCHANGED managedVars
  BY <1>1, ZenonT(40) DEF managedVars, ManagedInv, ManagedType, LockInv, StagingInv, CallInv, LeaseInv, CountInv
<1>2. CASE ManagedNext
  BY <1>2, ProcessStep, EndStep, InstallStep, LeaseStep, Zenon DEF ManagedNext, ManagedStep
<1> QED
  BY <1>1, <1>2, Zenon

\* install, lease and remove: no Chromium loses the files it runs from, and the
\* directory is absent or whole, whatever processes crash where.
THEOREM InstallationKept == ManagedSpec => []RunningFromWholeInstallation
<1>1. ManagedInv => RunningFromWholeInstallation
  BY Zenon DEF ManagedInv, StagingInv, LeaseInv, RunningFromWholeInstallation
<1> QED
  BY <1>1, ManagedInitial, ManagedPreserved, PTL DEF ManagedSpec
-----------------------------------------------------------------------------
(***************************************************************************)
(* PageLifecycle: what a page leaves behind.                               *)
(***************************************************************************)
\* Nothing is spawned before the tasks start nor left when the page is over; a
\* context is disposed of once by whoever fails to make the page or closes it,
\* and once more by the cleanup of Drop.
LifecycleInv ==
    /\ pageTasks \subseteq OwnTasks \cup {"interception"}
    /\ bodies \in [Loads -> {"none", "open", "ended"}]
    /\ context \in {"none", "open", "disposed"}
    /\ disposals \in Nat /\ cleanups \in 0..1 /\ disposals + cleanups <= 2
    /\ making \notin {"failed", "dropped"} /\ closing # "returned" =>
          disposals = 0 /\ cleanups = 0 /\ ~closedFlag
    /\ making \in {"proxy", "context", "download", "target", "attach", "start", "dispose", "failed", "dropped"} =>
          pageTasks = {}
    /\ making = "proxy" => pageProxy = "none"
    /\ making \in {"failed", "dropped"} => pageProxy \in {"none", "stopped"}
    /\ making = "dropped" \/ making # "made" \/ closing # "no" => \A l \in Loads : bodies[l] # "open"
    /\ closing # "no" => making \in {"made", "dropped"}
    /\ closing \in {"dispose", "returned"} => pageTasks = {}
    /\ closing = "returned" => pageProxy \in {"none", "stopped"} /\ making = "made"

\* The initial states satisfy the invariant.
LEMMA LifecycleInitial == ASSUME LifecycleInit PROVE LifecycleInv
  BY DEF LifecycleInit, LifecycleInv, OwnTasks

\* Every step preserves the invariant.
LEMMA LifecycleStep == ASSUME LifecycleInv, [LifecycleNext]_lifecycleVars PROVE LifecycleInv'
<1> USE DEF LifecycleInv
<1>1. CASE StartProxy \/ CreateContext \/ SetUpTarget \/ StartTasks \/ configure
  BY <1>1, SMTT(60) DEF StartProxy, CreateContext, SetUpTarget, StartTasks, configure, Makes, createRest, StopProxy
<1>2. CASE DisposeUnfinished
  BY <1>2, SMTT(60) DEF DisposeUnfinished, Makes, createRest, StopProxy, dispose_context
<1>3. CASE UndoConfigure
  BY <1>3, SMTT(60) DEF UndoConfigure, StopProxy, dispose_context
<1>4. CASE ReceivePage \/ CancelWhileCreating
  BY <1>4, SMTT(60) DEF ReceivePage, CancelWhileCreating
<1>5. CASE DropPage
  BY <1>5, SMTT(60) DEF DropPage, Dropped, StopProxy, EndBodies
<1>6. CASE RunCleanup
  BY <1>6, SMTT(60) DEF RunCleanup, dispose_context
<1>7. CASE StartGuard \/ EnableFetch \/ EnableFetchOnTargets
  <2>1. making = "made" /\ closing = "no" /\ UNCHANGED guardRest /\ pageTasks' \subseteq pageTasks \cup {"interception"}
    BY <1>7, Zenon DEF StartGuard, EnableFetch, EnableFetchOnTargets, Holds
  <2> QED
    BY <2>1, Zenon DEF guardRest
<1>8. ASSUME NEW l \in Loads, OpenBody(l) \/ EndBody(l) PROVE LifecycleInv'
  BY <1>8, SMTT(60) DEF OpenBody, EndBody, Holds
<1>9. CASE BeginClose
  BY <1>9, Zenon DEF BeginClose, Closes, Holds, EndBodies, closeRest
<1>10. CASE CloseInterception
  BY <1>10, ZenonT(60) DEF CloseInterception, Closes, closeRest
<1>11. CASE CloseTasks
  BY <1>11, ZenonT(60) DEF CloseTasks, closeRest
<1>12. CASE CloseContext
  BY <1>12, SMTT(60) DEF CloseContext, Closes, closeRest, StopProxy
<1>13. CASE UNCHANGED lifecycleVars
  BY <1>13, ZenonT(60) DEF lifecycleVars
<1> HIDE DEF LifecycleInv
<1> QED
  BY <1>1, <1>2, <1>3, <1>4, <1>5, <1>6, <1>7, <1>8, <1>9, <1>10, <1>11, <1>12, <1>13, Zenon DEF LifecycleNext

\* A page that was closed, dropped or never finished leaves no task, proxy or
\* body stream, and its context is disposed of by at most two owners.
THEOREM NothingLeft == LifecycleSpec => [](NothingOutlives /\ LifecycleTypeOK)
<1>1. LifecycleInv => NothingOutlives /\ LifecycleTypeOK
  BY SMTT(60) DEF LifecycleInv, NothingOutlives, LifecycleTypeOK, Over
<1> QED
  BY <1>1, LifecycleInitial, LifecycleStep, PTL DEF LifecycleSpec
-----------------------------------------------------------------------------
(***************************************************************************)
(* CheckpointRegistry: one owner writes a destination.                     *)
(***************************************************************************)
\* The registry refers to the mutex of every owner on its way: this is what
\* makes owners of one destination share one mutex.
GateInv == \A o \in Owners : stage[o] # "idle" => destinations[destination[o]] = gate[o]

\* A mutex has one holder.
HolderInv == \A o, p \in Holders : gate[o] = gate[p] => o = p

\* Only a lease writes; a detached lease exists for its operation.
WriteInv == writing \subseteq Leases

\* The shutdown follows the closing of the admission and precedes the wait.
CloseInv ==
    /\ shutdown => closed
    /\ waited => closed /\ \A o \in Owners : stage[o] = "idle"

RegistryInv == TypeOK /\ GateInv /\ HolderInv /\ WriteInv /\ CloseInv

USE RegistryAssumption DEF Holders, Leases, Alive

\* The initial states satisfy the invariant.
LEMMA RegistryInitial == Init => RegistryInv
  BY ZenonT(60) DEF Init, RegistryInv, TypeOK, GateInv, HolderInv, WriteInv, CloseInv

\* acquire_resolved under the admission lock: dropping the dead entries keeps
\* those of the other owners, and a live mutex of the destination is shared.
LEMMA AdmitStep ==
  ASSUME RegistryInv, NEW o \in Owners, NEW path \in Paths, Admit(o, path)
  PROVE  RegistryInv'
<1> DEFINE target == Resolved[path]
           kept == [d \in Destinations |->
                        IF Alive(destinations[d]) THEN destinations[d] ELSE NoGate]
<1>1. target \in Destinations /\ stage[o] = "idle" /\ gate[o] = NoGate
  BY Zenon DEF RegistryInv, TypeOK, Admit
<1>2. PICK g \in Gates : /\ kept[target] # NoGate => g = kept[target]
                         /\ kept[target] = NoGate => ~Alive(g)
                         /\ destinations' = [kept EXCEPT ![target] = g]
                         /\ gate' = [gate EXCEPT ![o] = g]
                         /\ destination' = [destination EXCEPT ![o] = target]
  BY <1>1, ZenonT(40) DEF Admit, RegistryInv, TypeOK
<1>3. /\ stage' = [stage EXCEPT ![o] = "waiting"]
      /\ UNCHANGED <<closed, writing, shutdown, waited>> /\ ~closed
  BY Zenon DEF Admit
<1>4. \A p \in Owners : stage[p] # "idle" => kept[destination[p]] = gate[p] /\ gate[p] # NoGate
  BY ZenonT(60) DEF RegistryInv, TypeOK, GateInv
<1>5. TypeOK'
  <2>1. kept \in [Destinations -> Gates \cup {NoGate}]
    BY Zenon DEF RegistryInv, TypeOK
  <2> QED
    BY <1>1, <1>2, <1>3, <2>1, ZenonT(60) DEF RegistryInv, TypeOK
<1>6. GateInv'
  <2> SUFFICES ASSUME NEW p \in Owners, stage'[p] # "idle"
               PROVE  destinations'[destination'[p]] = gate'[p]
    BY Zenon DEF GateInv
  <2>1. CASE p = o
    BY <1>1, <1>2, <2>1, ZenonT(60) DEF RegistryInv, TypeOK
  <2>2. CASE p # o
    <3>1. stage[p] # "idle" /\ destination'[p] = destination[p] /\ gate'[p] = gate[p]
      BY <1>2, <1>3, <2>2, ZenonT(60) DEF RegistryInv, TypeOK
    <3>2. kept[destination[p]] = gate[p] /\ gate[p] # NoGate
      BY <1>4, <3>1, Zenon
    <3>3. destination[p] \in Destinations
      BY Zenon DEF RegistryInv, TypeOK
    <3>4. destination[p] = target => g = gate[p]
      BY <1>2, <3>2, Zenon
    <3>5. destinations'[destination[p]] = gate[p]
      BY <1>2, <3>2, <3>3, <3>4, Zenon
    <3> QED
      BY <3>1, <3>5, Zenon
  <2> QED
    BY <2>1, <2>2, Zenon
<1>7. HolderInv' /\ WriteInv'
  <2>1. o \notin Holders' /\ o \notin Leases
    BY <1>1, <1>3, Zenon DEF RegistryInv, TypeOK
  <2>2. \A p \in Owners : p # o => stage'[p] = stage[p] /\ gate'[p] = gate[p]
    BY <1>2, <1>3, Zenon DEF RegistryInv, TypeOK
  <2> QED
    BY <1>3, <2>1, <2>2, ZenonT(60) DEF RegistryInv, HolderInv, WriteInv
<1>8. CloseInv'
  BY <1>3, Zenon DEF RegistryInv, CloseInv
<1> QED
  BY <1>5, <1>6, <1>7, <1>8, Zenon DEF RegistryInv

\* An owner that waits, holds, writes or leaves touches no other owner.
LEMMA OwnerStep ==
  ASSUME RegistryInv, NEW o \in Owners,
         GiveUp(o) \/ Lock(o) \/ Confirm(o) \/ BeginWrite(o) \/ EndWrite(o) \/ DropLease(o)
  PROVE  RegistryInv'
<1> USE DEF RegistryInv, TypeOK, GateInv, HolderInv, WriteInv, CloseInv, Leave
<1>1. CASE GiveUp(o)
  BY <1>1, ZenonT(60) DEF GiveUp
<1>2. CASE Lock(o)
  BY <1>2, Zenon DEF Lock
<1>3. CASE Confirm(o)
  BY <1>3, SMTT(60) DEF Confirm
<1>4. CASE BeginWrite(o)
  BY <1>4, ZenonT(60) DEF BeginWrite
<1>5. CASE EndWrite(o)
  BY <1>5, SMTT(60) DEF EndWrite
<1>6. CASE DropLease(o)
  BY <1>6, SMTT(60) DEF DropLease
<1> HIDE DEF RegistryInv
<1> QED
  BY <1>1, <1>2, <1>3, <1>4, <1>5, <1>6, Zenon

\* Every step preserves the invariant.
LEMMA RegistryStep == RegistryInv /\ [Next]_vars => RegistryInv'
<1> SUFFICES ASSUME RegistryInv, [Next]_vars PROVE RegistryInv'
  BY Zenon
<1>1. CASE CloseAdmission \/ CancelShutdown \/ Wait \/ UNCHANGED vars
  <2>1. UNCHANGED <<destinations, stage, destination, gate, writing>>
    BY <1>1, Zenon DEF CloseAdmission, CancelShutdown, Wait, vars
  <2>2. GateInv' /\ HolderInv' /\ WriteInv'
    BY <2>1, Zenon DEF RegistryInv, GateInv, HolderInv, WriteInv
  <2>3. CloseInv' /\ closed' \in BOOLEAN /\ shutdown' \in BOOLEAN /\ waited' \in BOOLEAN
    <3> USE <2>1 DEF RegistryInv, TypeOK, CloseInv
    <3>1. CASE CloseAdmission
      BY <3>1, Zenon DEF CloseAdmission
    <3>2. CASE CancelShutdown
      BY <3>2, Zenon DEF CancelShutdown
    <3>3. CASE Wait
      BY <3>3, Zenon DEF Wait
    <3>4. CASE UNCHANGED vars
      BY <3>4, Zenon DEF vars
    <3> QED
      BY <1>1, <3>1, <3>2, <3>3, <3>4, Zenon
  <2>4. TypeOK'
    BY <2>1, <2>3, Zenon DEF RegistryInv, TypeOK
  <2> QED
    BY <2>2, <2>3, <2>4, Zenon DEF RegistryInv
<1> QED
  BY <1>1, AdmitStep, OwnerStep, Zenon DEF Next, Owner

\* The invariant holds in every reachable state.
THEOREM RegistryInvariance == Spec => []RegistryInv
  BY RegistryInitial, RegistryStep, PTL DEF Spec

\* acquire_resolved and run_blocking: one writer per destination, for any
\* number of owners and however their paths are spelled.
THEOREM Exclusion == Spec => []OneWriter
<1>1. RegistryInv => OneWriter
  BY SMTT(60) DEF RegistryInv, TypeOK, GateInv, HolderInv, WriteInv, OneWriter
<1> QED
  BY <1>1, RegistryInvariance, PTL

\* wait: once it returned no lease and no blocking operation is left.
THEOREM Quiescence == Spec => []WaitIsFinal
<1>1. RegistryInv => WaitIsFinal
  BY Zenon DEF RegistryInv, WriteInv, CloseInv, WaitIsFinal
<1> QED
  BY <1>1, RegistryInvariance, PTL

\* close_admission: no waiter becomes an owner of a sealed registry.
THEOREM Sealed == Spec => SealedRegistry
<1>1. RegistryInv /\ [Next]_vars => (closed => Leases' \subseteq Leases)
  <2> SUFFICES ASSUME RegistryInv, [Next]_vars, closed PROVE Leases' \subseteq Leases
    BY Zenon
  <2> USE DEF RegistryInv, TypeOK, Leave
  <2>1. CASE \E o \in Owners : (\E path \in Paths : Admit(o, path)) \/ BeginWrite(o)
    BY <2>1, Zenon DEF Admit, BeginWrite
  <2>2. CASE \E o \in Owners : GiveUp(o) \/ Lock(o)
    BY <2>2, ZenonT(60) DEF GiveUp, Lock
  <2>3. CASE \E o \in Owners : Confirm(o) \/ EndWrite(o) \/ DropLease(o)
    BY <2>3, ZenonT(60) DEF Confirm, EndWrite, DropLease
  <2>4. CASE CloseAdmission \/ CancelShutdown \/ Wait \/ UNCHANGED vars
    BY <2>4, Zenon DEF CloseAdmission, CancelShutdown, Wait, vars
  <2> QED
    BY <2>1, <2>2, <2>3, <2>4, Zenon DEF Next, Owner
<1> QED
  BY <1>1, RegistryInvariance, PTL DEF Spec, SealedRegistry
=============================================================================
