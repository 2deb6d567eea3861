---------------------------- MODULE AtomicExport ----------------------------
(***************************************************************************)
(* What an export of several artifacts promises: the whole set appears in  *)
(* the output directory in one step or not at all, the conflict policy is  *)
(* respected by that step, and the result the caller sees says which of    *)
(* the two happened.  ExportTransaction implements this module.            *)
(***************************************************************************)
CONSTANTS Entries, Names, Absent, Edited, InitialListings, Policies, Payloads,
          Rendered(_, _)

VARIABLES view, installed, outcome,
          asked,    \* what the running export was asked for, or Idle
          late      \* the names edited after the set was last looked at

atomicVars == <<view, installed, outcome, asked, late>>

Idle == [policy |-> "none"]

Results == {"success", "unchanged", "restored", "indeterminate",
            "committedPending", "recoveryRequired", "recoveryFailed",
            "cleanupPending", "crashed"}

\* Results that tell the caller that the set is installed, or that it is not.
SaysInstalled == {"success", "committedPending"}
SaysNotInstalled == {"unchanged", "restored", "recoveryRequired",
                     "recoveryFailed", "cleanupPending"}

AtomicInit ==
    /\ view \in InitialListings
    /\ installed = FALSE
    /\ outcome = "none" /\ asked = Idle
    /\ late = {}

Start ==
    /\ asked = Idle /\ asked' \in [policy : Policies, payload : Payloads]
    /\ outcome' = "none" /\ installed' = FALSE /\ late' = {}
    /\ UNCHANGED view

\* What someone else may leave under a name.
Foreigners == {Absent} \cup [kind : {"File", "Directory"}, bytes : {Edited}]

\* The set is installed, but for the names that someone else edited after it
\* was last looked at; without Replace no name that is taken is touched.
\* An export that cannot confirm its commit point returns at once.
InstallSet ==
    /\ asked # Idle /\ ~installed
    /\ \/ installed' = TRUE /\ UNCHANGED <<asked, outcome>>
       \/ installed' = FALSE /\ asked' = Idle /\ outcome' = "indeterminate"
    /\ \E dest \in [Entries -> Names] :
         LET set == [n \in Names |->
                       IF \E i \in Entries : dest[i] = n
                       THEN Rendered(CHOOSE i \in Entries : dest[i] = n, asked.payload)
                       ELSE view[n]]
             edited == {n \in Names : view'[n] # set[n]}
         IN  /\ \A i, j \in Entries : dest[i] = dest[j] => i = j
             /\ DOMAIN view' = Names
             /\ edited \subseteq late /\ \A n \in edited : view'[n] \in Foreigners
    /\ asked.policy # "Replace" => \A n \in Names : view[n] # Absent => view'[n] = view[n]
    /\ UNCHANGED late

Return ==
    /\ asked # Idle /\ asked' = Idle
    /\ \E result \in Results :
         /\ result \in SaysInstalled => installed
         /\ result \in SaysNotInstalled => ~installed
         /\ outcome' = result
    /\ installed' = FALSE
    /\ UNCHANGED <<view, late>>

\* Someone else writes or removes one name, perhaps one whose content only the
\* installed set will show.
ForeignEdit ==
    /\ \E n \in Names :
         /\ \/ UNCHANGED view
            \/ \E c \in Foreigners : view' = [view EXCEPT ![n] = c]
         /\ late' \in {late, late \cup {n}}
    /\ UNCHANGED <<installed, outcome, asked>>

AtomicNext == Start \/ InstallSet \/ Return \/ ForeignEdit

AtomicSpec == AtomicInit /\ [][AtomicNext]_atomicVars
=============================================================================
