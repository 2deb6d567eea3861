--------------------------- MODULE ManagedBrowser ---------------------------
(***************************************************************************)
(* The managed browser cache that several Offprint processes share         *)
(* (chromium/src/managed.rs and managed/), and the browser owner of each   *)
(* process that runs Chromium out of it (chromium/src/backend.rs,          *)
(* launch.rs, discovery.rs).                                               *)
(*                                                                         *)
(* The cache is one directory: a lock file, the directory of the revision, *)
(* staging and trash directories, and one lease marker per leased browser. *)
(* install, lease, active_leases and remove run under the lock file; the   *)
(* drop of a lease does not, so it interleaves with all of them.  A        *)
(* process may crash at any step: the operating system then releases its   *)
(* file locks and ends its Chromium, and leaves its files where they are.  *)
(***************************************************************************)
EXTENDS Naturals, FiniteSets

CONSTANTS Processes,    \* Offprint processes that share the cache directory
          MaxCrashes    \* bound on crashes

VARIABLES
  lock,        \* holder of the cache lock file, {} or {p}
  installed,   \* what the revision's final directory holds, {} if it is absent
  staging,     \* staging[p]: what p has staged for its installation
  marker,      \* marker[p]: p's lease marker file: "none", "free" or "locked"
  running,     \* processes whose Chromium runs from the final directory
  call,        \* call[p]: the operation of ManagedBrowserManager p performs
  step,        \* step[p]: where in its operation, or in acquire_lease, p is
  acquiring,   \* processes inside ChromiumBackend::acquire_lease
  listed,      \* listed[p]: markers count_active has still to inspect
  active,      \* active[p]: count_active met a locked marker
  crashes

managedVars == <<lock, installed, staging, marker, running, call, step, acquiring,
                 listed, active, crashes>>

\* What a finished installation consists of: every archive entry, and the record
\* validate_installation compares with the catalog.
Complete == {"files", "metadata"}

\* Types; the cache lock has one holder.
ManagedTypeOK ==
  /\ lock \subseteq Processes /\ Cardinality(lock) <= 1
  /\ installed \subseteq Complete
  /\ staging \in [Processes -> SUBSET Complete]
  /\ marker \in [Processes -> {"none", "free", "locked"}]
  /\ running \subseteq Processes /\ acquiring \subseteq Processes
  /\ call \in [Processes -> {"none", "install", "lease", "active_leases", "remove"}]
  /\ listed \in [Processes -> SUBSET Processes]
  /\ active \in [Processes -> BOOLEAN]

ManagedInit ==
  /\ lock = {} /\ installed \in {{}, Complete}
  /\ staging = [p \in Processes |-> {}]
  /\ marker = [p \in Processes |-> "none"]
  /\ running = {} /\ acquiring = {}
  /\ call = [p \in Processes |-> "none"]
  /\ step = [p \in Processes |-> "idle"]
  /\ listed = [p \in Processes |-> {}]
  /\ active = [p \in Processes |-> FALSE]
  /\ crashes = 0

Moves(p, to) == step' = [step EXCEPT ![p] = to]

\* The operation ends: the CacheLock and the TempDir of the staging directory are
\* dropped.  acquire_lease goes on with `next`.
Returns(p, next) ==
  /\ lock' = lock \ {p}
  /\ staging' = [staging EXCEPT ![p] = {}]
  /\ call' = [call EXCEPT ![p] = "none"]
  /\ Moves(p, next)

\* The operation fails, and with it the acquisition it is part of.
Fails(p) ==
  /\ Returns(p, "idle")
  /\ acquiring' = acquiring \ {p}
  /\ UNCHANGED <<installed, marker, running, listed, active, crashes>>

-----------------------------------------------------------------------------
(* The browser owner of a process. *)

\* acquire_lease finds no owner and starts one; a second lease of the same owner
\* shares its client and changes nothing here.
AcquireBrowser(p) ==
  /\ step[p] = "idle" /\ p \notin running
  /\ acquiring' = acquiring \cup {p}
  /\ Moves(p, "discover")
  /\ UNCHANGED <<lock, installed, staging, marker, running, call, listed, active, crashes>>

Calls(p, operation) ==
  /\ call' = [call EXCEPT ![p] = operation]
  /\ Moves(p, "lock")

\* resolve_auto_browser: the revision is discovered without the lock.  If it is
\* absent it is installed, once, and discovered again.
ResolveAutoBrowser(p) ==
  /\ step[p] \in {"discover", "rediscover"}
  /\ \/ installed = Complete /\ Calls(p, "lease") /\ UNCHANGED acquiring
     \/ /\ installed # Complete /\ step[p] = "discover"
        /\ Calls(p, "install") /\ UNCHANGED acquiring
     \/ /\ installed # Complete /\ step[p] = "rediscover"
        /\ Moves(p, "idle") /\ acquiring' = acquiring \ {p} /\ UNCHANGED call
  /\ UNCHANGED <<lock, installed, staging, marker, running, listed, active, crashes>>

\* ChromiumProcess::launch: Chromium is spawned in a process group of its own ...
SpawnChromium(p) ==
  /\ step[p] = "launch"
  /\ running' = running \cup {p}
  /\ Moves(p, "endpoint")
  /\ UNCHANGED <<lock, installed, staging, marker, call, acquiring, listed, active, crashes>>

\* ... and each later step of the launch may fail.  The process group is then killed,
\* explicitly or by its drop, before launch returns and start_local drops the lease.
LaunchStep(p, from, to) ==
  /\ step[p] = from
  /\ \/ Moves(p, to) /\ UNCHANGED running
     \/ running' = running \ {p} /\ Moves(p, "unlock")
  /\ acquiring' = IF step'[p] \in {"idle", "unlock"} THEN acquiring \ {p} ELSE acquiring
  /\ UNCHANGED <<lock, installed, staging, marker, call, listed, active, crashes>>

WaitForEndpoint(p) == LaunchStep(p, "endpoint", "connect")
ConnectClient(p) == LaunchStep(p, "connect", "keeper")
CreateKeeper(p) == LaunchStep(p, "keeper", "idle")

\* BrowserOwner::close: the process tree exits or is killed, and only then is the
\* lease dropped.
CloseBrowser(p) ==
  /\ step[p] = "idle" /\ p \in running
  /\ running' = running \ {p}
  /\ Moves(p, "unlock")
  /\ UNCHANGED <<lock, installed, staging, marker, call, acquiring, listed, active, crashes>>

\* acquire_lease meets an owner whose browser no longer answers: it closes it as
\* above and then starts another.
ReplaceUnhealthy(p) ==
  /\ step[p] = "idle" /\ p \in running
  /\ running' = running \ {p} /\ acquiring' = acquiring \cup {p}
  /\ Moves(p, "unlock")
  /\ UNCHANGED <<lock, installed, staging, marker, call, listed, active, crashes>>

\* ManagedBrowserLease::drop: the marker is unlocked, then unlinked, neither of
\* them under the cache lock.
DropBrowserLease(p) ==
  /\ \/ /\ step[p] = "unlock"
        /\ marker' = [marker EXCEPT ![p] = IF @ = "locked" THEN "free" ELSE @]
        /\ Moves(p, "unlink")
     \/ /\ step[p] = "unlink"
        /\ marker' = [marker EXCEPT ![p] = "none"]
        /\ Moves(p, IF p \in acquiring THEN "discover" ELSE "idle")
  /\ UNCHANGED <<lock, installed, staging, running, call, acquiring, listed, active, crashes>>

-----------------------------------------------------------------------------
(* ManagedBrowserManager. *)

\* A command of the browser service asks for an operation of its own.
Request(p) ==
  /\ step[p] = "idle" /\ p \notin running
  /\ \E operation \in {"install", "active_leases", "remove"} : Calls(p, operation)
  /\ UNCHANGED <<lock, installed, staging, marker, running, acquiring, listed, active, crashes>>

\* The mutant of acquire_lock that takes the lock whoever holds it.
LockShared(p) ==
  /\ step[p] = "lock"
  /\ lock' = {p}
  /\ Moves(p, IF call[p] = "install" THEN "probe" ELSE IF call[p] = "lease" THEN "check" ELSE "list")
  /\ UNCHANGED <<installed, staging, marker, running, call, acquiring, listed, active, crashes>>

\* acquire_lock polls the lock file of a prepared cache until it is free ...
acquire_lock(p) ==
  /\ step[p] = "lock" /\ lock = {}
  /\ lock' = {p}
  /\ Moves(p, IF call[p] = "install" THEN "probe" ELSE IF call[p] = "lease" THEN "check" ELSE "list")
  /\ UNCHANGED <<installed, staging, marker, running, call, acquiring, listed, active, crashes>>

\* ... or the lock wait times out.
LockTimeout(p) == step[p] = "lock" /\ lock # {} /\ Fails(p)

\* install: an installation that probes well is returned as it is.
ProbeEntry(p) ==
  /\ step[p] = "probe"
  /\ \/ /\ installed = Complete
        /\ Returns(p, IF p \in acquiring THEN "rediscover" ELSE "idle")
     \/ installed = {} /\ Moves(p, "download") /\ UNCHANGED <<lock, staging, call>>
  /\ UNCHANGED <<installed, marker, running, acquiring, listed, active, crashes>>

\* The verified archive is in a temporary file of the cache.
Download(p) ==
  /\ step[p] = "download" /\ Moves(p, "extract")
  /\ UNCHANGED <<lock, installed, staging, marker, running, call, acquiring, listed, active, crashes>>

Stages(p, from, piece, to) ==
  /\ step[p] = from /\ Moves(p, to)
  /\ staging' = [staging EXCEPT ![p] = @ \cup {piece}]
  /\ UNCHANGED <<lock, installed, marker, running, call, acquiring, listed, active, crashes>>

Extract(p) == Stages(p, "extract", "files", "metadata")
WriteMetadata(p) == Stages(p, "metadata", "metadata", "commit")

\* The staged browser answers its version probe, is synced, and is renamed to the
\* final directory.
CommitStaging(p) ==
  /\ step[p] = "commit"
  /\ installed' = staging[p]
  /\ staging' = [staging EXCEPT ![p] = {}]
  /\ Moves(p, "sync")
  /\ UNCHANGED <<lock, marker, running, call, acquiring, listed, active, crashes>>

SyncCache(p) ==
  /\ step[p] = "sync" /\ call[p] = "install"
  /\ Returns(p, IF p \in acquiring THEN "rediscover" ELSE "idle")
  /\ UNCHANGED <<installed, marker, running, acquiring, listed, active, crashes>>

\* lease refuses a revision that is not installed.
CheckInstalled(p) ==
  /\ step[p] = "check" /\ installed = Complete
  /\ Moves(p, "list")
  /\ UNCHANGED <<lock, installed, staging, marker, running, call, acquiring, listed, active, crashes>>

\* count_active reads the cache directory ...
ListMarkers(p) ==
  /\ step[p] = "list"
  /\ listed' = [listed EXCEPT ![p] = {q \in Processes : marker[q] # "none"}]
  /\ active' = [active EXCEPT ![p] = FALSE]
  /\ Moves(p, "count")
  /\ UNCHANGED <<lock, installed, staging, marker, running, call, acquiring, crashes>>

\* ... and opens and tries to lock each marker.  A locked one is an active lease;
\* one it can lock is stale and is unlinked.  A marker whose owner has unlinked it
\* since it was listed fails the whole operation.
InspectMarker(p) ==
  /\ step[p] = "count"
  /\ \E q \in listed[p] :
       /\ marker[q] # "none"
       /\ listed' = [listed EXCEPT ![p] = @ \ {q}]
       /\ active' = [active EXCEPT ![p] = @ \/ marker[q] = "locked"]
       /\ marker' = [marker EXCEPT ![q] = IF @ = "free" THEN "none" ELSE @]
  /\ UNCHANGED <<lock, installed, staging, running, call, step, acquiring, crashes>>

MarkerVanished(p) ==
  /\ step[p] = "count" /\ \E q \in listed[p] : marker[q] = "none"
  /\ Fails(p)

\* What the count decides: lease creates its marker, remove goes on unless a
\* lease is active, active_leases returns the number.
Counted(p) ==
  /\ step[p] = "count" /\ listed[p] = {}
  /\ \/ call[p] = "lease" /\ Moves(p, "create") /\ UNCHANGED <<lock, staging, call>>
     \/ /\ call[p] = "remove" /\ ~active[p]
        /\ Moves(p, "detach") /\ UNCHANGED <<lock, staging, call>>
     \/ call[p] = "remove" /\ active[p] /\ Returns(p, "idle")
     \/ call[p] = "active_leases" /\ Returns(p, "idle")
  /\ UNCHANGED <<installed, marker, running, acquiring, listed, active, crashes>>

\* leases::create makes the marker file, then locks it; the lease returns with
\* the cache lock released.
CreateMarker(p) ==
  /\ \/ /\ step[p] = "create" /\ marker[p] = "none"
        /\ marker' = [marker EXCEPT ![p] = "free"]
        /\ Moves(p, "mark") /\ UNCHANGED <<lock, staging, call>>
     \/ /\ step[p] = "mark"
        /\ marker' = [marker EXCEPT ![p] = "locked"]
        /\ Returns(p, "launch")
  /\ UNCHANGED <<installed, running, acquiring, listed, active, crashes>>

\* remove renames the final directory to a trash path, then deletes that.
Detach(p) ==
  /\ step[p] = "detach" /\ installed = Complete
  /\ installed' = {}
  /\ Moves(p, "delete")
  /\ UNCHANGED <<lock, staging, marker, running, call, acquiring, listed, active, crashes>>

DeleteTrash(p) ==
  /\ step[p] = "delete"
  /\ Returns(p, "idle")
  /\ UNCHANGED <<installed, marker, running, acquiring, listed, active, crashes>>

\* Every step of an operation may fail, or its future may be dropped: the error
\* path drops the lock and the staging directory.
StepFails(p) ==
  /\ step[p] \in {"probe", "download", "extract", "metadata", "commit", "sync", "check",
                  "list", "create", "mark", "detach", "delete"}
  /\ Fails(p)

\* The process crashes.  Its locks are released and its Chromium ends with it
\* (kill_on_parent_death); a process that starts later may have the same identifier.
Crash(p) ==
  /\ crashes < MaxCrashes /\ crashes' = crashes + 1
  /\ Returns(p, "idle")
  /\ marker' = [marker EXCEPT ![p] = IF @ = "locked" THEN "free" ELSE @]
  /\ running' = running \ {p} /\ acquiring' = acquiring \ {p}
  /\ UNCHANGED <<installed, listed, active>>

ManagedStep(p) ==
  \/ ResolveAutoBrowser(p) \/ SpawnChromium(p) \/ WaitForEndpoint(p) \/ ConnectClient(p)
  \/ CreateKeeper(p) \/ DropBrowserLease(p) \/ acquire_lock(p) \/ LockTimeout(p)
  \/ ProbeEntry(p) \/ Download(p) \/ Extract(p) \/ WriteMetadata(p) \/ CommitStaging(p)
  \/ SyncCache(p) \/ CheckInstalled(p) \/ ListMarkers(p) \/ InspectMarker(p)
  \/ MarkerVanished(p) \/ Counted(p) \/ CreateMarker(p) \/ Detach(p) \/ DeleteTrash(p)
  \/ StepFails(p)

ManagedNext ==
  \E p \in Processes :
    \/ ManagedStep(p) \/ AcquireBrowser(p) \/ CloseBrowser(p) \/ ReplaceUnhealthy(p)
    \/ Request(p) \/ Crash(p)

\* A process that is inside an operation goes on with it.
ManagedSpec ==
  ManagedInit /\ [][ManagedNext]_managedVars
              /\ \A p \in Processes : WF_managedVars(ManagedStep(p))

-----------------------------------------------------------------------------
\* The directory of the revision is absent or whole, whatever installation or
\* removal was interrupted, and while any process's Chromium runs from it no
\* process removes it: install renames a finished staging directory, and remove
\* counts the leases under the lock that lease takes.
RunningFromWholeInstallation ==
  /\ installed \in {{}, Complete}
  /\ running # {} => installed = Complete
=============================================================================
