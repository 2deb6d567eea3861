------------------------- MODULE CheckpointRegistry -------------------------
(***************************************************************************)
(* Ownership of resume checkpoints: at most one batch or crawl of a        *)
(* runtime writes a checkpoint destination, and closing the runtime waits  *)
(* for every owner, a detached blocking write included.                    *)
(*                                                                         *)
(* The registry maps a resolved destination to a weak reference to the     *)
(* destination's mutex. A mutex lives as long as somebody waits for it or  *)
(* holds it; its identity is modelled, because two live mutexes for one    *)
(* destination would exclude nobody.                                       *)
(***************************************************************************)
CONSTANTS
    Owners,        \* calls of acquire, with the lease they may obtain
    Paths,         \* the destination paths as the callers spell them
    Destinations,  \* resolved destinations
    Resolved,      \* the file system: from a path to its destination
    Gates,         \* mutexes; as many as Owners, so that a new one is free
    NoGate

ASSUME RegistryAssumption ==
    /\ Resolved \in [Paths -> Destinations]
    /\ NoGate \notin Gates

VARIABLES
    closed,        \* Admission::closed
    destinations,  \* Admission::destinations, by weak reference
    stage,         \* where each owner is
    destination,   \* the destination an owner asked for
    gate,          \* the mutex an owner refers to
    writing,       \* the owners whose blocking operation is running
    shutdown,      \* the runtime's cancellation token
    waited         \* whether wait has returned

vars == <<closed, destinations, stage, destination, gate, writing, shutdown, waited>>

\* A mutex that somebody still refers to.
Alive(g) == \E o \in Owners : gate[o] = g

\* The owners that hold the mutex they refer to.
Holders == {o \in Owners : stage[o] \in {"locked", "leased", "detached"}}

\* The owners with a lease: the holders past the second look at closed.
Leases == {o \in Owners : stage[o] \in {"leased", "detached"}}

Init ==
    /\ closed = FALSE /\ shutdown = FALSE /\ waited = FALSE
    /\ destinations = [d \in Destinations |-> NoGate]
    /\ stage = [o \in Owners |-> "idle"]
    /\ destination \in [Owners -> Destinations]
    /\ gate = [o \in Owners |-> NoGate]
    /\ writing = {}
-----------------------------------------------------------------------------
\* An owner leaves: its guard, its reference to the mutex and its tracker token
\* go together.
Leave(o) ==
    /\ stage' = [stage EXCEPT ![o] = "idle"]
    /\ gate' = [gate EXCEPT ![o] = NoGate]

\* A new mutex for every owner.
AdmitWithOwnGate(o, path) ==
    /\ stage[o] = "idle" /\ o \notin writing /\ ~closed
    /\ \E g \in {h \in Gates : ~Alive(h)} :
        /\ gate' = [gate EXCEPT ![o] = g]
        /\ destinations' = [[d \in Destinations |->
                IF Alive(destinations[d]) THEN destinations[d] ELSE NoGate]
                EXCEPT ![Resolved[path]] = g]
    /\ destination' = [destination EXCEPT ![o] = Resolved[path]]
    /\ stage' = [stage EXCEPT ![o] = "waiting"]
    /\ UNCHANGED <<closed, writing, shutdown, waited>>

\* The same admitting owners to a closed registry.
AdmitUnchecked(o, path) ==
    /\ stage[o] = "idle" /\ o \notin writing
    /\ LET target == Resolved[path]
           kept == [d \in Destinations |->
                        IF Alive(destinations[d]) THEN destinations[d] ELSE NoGate]
       IN  \E g \in IF kept[target] # NoGate THEN {kept[target]}
                    ELSE {h \in Gates : ~Alive(h)} :
            /\ destinations' = [kept EXCEPT ![target] = g]
            /\ gate' = [gate EXCEPT ![o] = g]
            /\ destination' = [destination EXCEPT ![o] = target]
    /\ stage' = [stage EXCEPT ![o] = "waiting"]
    /\ UNCHANGED <<closed, writing, shutdown, waited>>

\* acquire up to the mutex, under the admission lock: drop the entries whose
\* mutex is gone, share the live mutex of the destination or make one, and take
\* a token of the tracker.
Admit(o, path) ==
    /\ stage[o] = "idle" /\ o \notin writing /\ ~closed
    /\ LET target == Resolved[path]
           kept == [d \in Destinations |->
                        IF Alive(destinations[d]) THEN destinations[d] ELSE NoGate]
       IN  \E g \in IF kept[target] # NoGate THEN {kept[target]}
                    ELSE {h \in Gates : ~Alive(h)} :
            /\ destinations' = [kept EXCEPT ![target] = g]
            /\ gate' = [gate EXCEPT ![o] = g]
            /\ destination' = [destination EXCEPT ![o] = target]
    /\ stage' = [stage EXCEPT ![o] = "waiting"]
    /\ UNCHANGED <<closed, writing, shutdown, waited>>

\* The waiter is cancelled by its caller or by the shutdown, or dropped.
GiveUp(o) ==
    /\ stage[o] = "waiting"
    /\ Leave(o)
    /\ UNCHANGED <<closed, destinations, destination, writing, shutdown, waited>>

\* lock_owned: the asynchronous mutex is free.
Lock(o) ==
    /\ stage[o] = "waiting"
    /\ \A h \in Holders : gate[h] # gate[o]
    /\ stage' = [stage EXCEPT ![o] = "locked"]
    /\ UNCHANGED <<closed, destinations, destination, gate, writing, shutdown, waited>>

\* A lease granted without the second look.
ConfirmUnchecked(o) ==
    /\ stage[o] = "locked"
    /\ stage' = [stage EXCEPT ![o] = "leased"]
    /\ UNCHANGED <<closed, destinations, destination, gate, writing, shutdown, waited>>

\* The second look at closed, under the admission lock.
Confirm(o) ==
    /\ stage[o] = "locked"
    /\ IF closed THEN Leave(o)
       ELSE stage' = [stage EXCEPT ![o] = "leased"] /\ UNCHANGED gate
    /\ UNCHANGED <<closed, destinations, destination, writing, shutdown, waited>>

\* run_blocking: the operation runs on another thread with its own reference to
\* the lease.
BeginWrite(o) ==
    /\ stage[o] = "leased" /\ o \notin writing
    /\ writing' = writing \cup {o}
    /\ UNCHANGED <<closed, destinations, stage, destination, gate, shutdown, waited>>

\* The end of a detached operation that keeps its lease.
EndWriteLeaking(o) ==
    /\ o \in writing
    /\ writing' = writing \ {o}
    /\ UNCHANGED <<closed, destinations, stage, destination, gate, shutdown, waited>>

\* The operation ends; with the owner gone its reference was the last.
EndWrite(o) ==
    /\ o \in writing
    /\ writing' = writing \ {o}
    /\ IF stage[o] = "detached" THEN Leave(o) ELSE UNCHANGED <<stage, gate>>
    /\ UNCHANGED <<closed, destinations, destination, shutdown, waited>>

\* The owner drops its lease; a running operation keeps it until it ends.
DropLease(o) ==
    /\ stage[o] = "leased"
    /\ IF o \in writing
       THEN stage' = [stage EXCEPT ![o] = "detached"] /\ UNCHANGED gate
       ELSE Leave(o)
    /\ UNCHANGED <<closed, destinations, destination, writing, shutdown, waited>>

\* close_admission, the first thing the closing thread does.
CloseAdmission ==
    /\ ~closed
    /\ closed' = TRUE
    /\ UNCHANGED <<destinations, stage, destination, gate, writing, shutdown, waited>>

\* The runtime's token, which every waiter and every owner observes.
CancelShutdown ==
    /\ closed /\ ~shutdown
    /\ shutdown' = TRUE
    /\ UNCHANGED <<closed, destinations, stage, destination, gate, writing, waited>>

\* wait: the tracker is closed and every token is returned.
Wait ==
    /\ shutdown /\ ~waited
    /\ \A o \in Owners : stage[o] = "idle"
    /\ waited' = TRUE
    /\ UNCHANGED <<closed, destinations, stage, destination, gate, writing, shutdown>>

Owner(o) ==
    \/ \E path \in Paths : Admit(o, path)
    \/ GiveUp(o) \/ Lock(o) \/ Confirm(o)
    \/ BeginWrite(o) \/ EndWrite(o) \/ DropLease(o)

Next ==
    \/ \E o \in Owners : Owner(o)
    \/ CloseAdmission \/ CancelShutdown \/ Wait

\* The mutex serves its waiters in turn, a cancelled waiter gives up, a blocking
\* operation ends, a batch or crawl drops its lease when it returns, and the
\* closing task is polled.
Fairness ==
    /\ \A o \in Owners :
        /\ SF_vars(Lock(o))
        /\ WF_vars(shutdown /\ GiveUp(o)) /\ WF_vars(Confirm(o))
        /\ WF_vars(EndWrite(o)) /\ WF_vars(DropLease(o))
    /\ WF_vars(CancelShutdown) /\ WF_vars(Wait)

Spec == Init /\ [][Next]_vars /\ Fairness
-----------------------------------------------------------------------------
(* Properties. *)

\* Types of the registry and of its owners; only an owner on its way refers to
\* a mutex.
TypeOK ==
    /\ closed \in BOOLEAN /\ shutdown \in BOOLEAN /\ waited \in BOOLEAN
    /\ destinations \in [Destinations -> Gates \cup {NoGate}]
    /\ stage \in [Owners -> {"idle", "waiting", "locked", "leased", "detached"}]
    /\ destination \in [Owners -> Destinations]
    /\ gate \in [Owners -> Gates \cup {NoGate}]
    /\ writing \subseteq Owners
    /\ \A o \in Owners : gate[o] = NoGate <=> stage[o] = "idle"

\* Two owners never hold leases of one destination, nor does one write while
\* another has the lease, whatever path each spelled and however the mutexes
\* came and went (acquire_resolved, run_blocking).
OneWriter ==
    \A o, p \in Leases \cup writing :
        destination[o] = destination[p] => o = p

\* "A waiter cannot become a new scheduler after shutdown seals the registry."
SealedRegistry == [][closed => Leases' \subseteq Leases]_vars

\* Once the shutdown's wait has returned nobody waits, holds a lease or writes,
\* and nobody ever will.
WaitIsFinal ==
    waited => writing = {} /\ \A o \in Owners : stage[o] = "idle"

=============================================================================
