------------------------- MODULE ExportTransaction -------------------------
(***************************************************************************)
(* The multi-output export transaction of the artifact crate               *)
(* (artifact/src/multi_output.rs and multi_output/*.rs), run by the export *)
(* service (core/src/artifact_service/export.rs).                          *)
(*                                                                         *)
(* An export installs N artifacts into one output directory.  All of its   *)
(* file-system work happens below a transaction root, and its progress is  *)
(* kept in numbered journal snapshots.  The process may stop after any     *)
(* file-system operation; the next export on the same directory recovers   *)
(* the root it finds before it stages anything of its own.                 *)
(*                                                                         *)
(* The namespace lock (journal.rs, TransactionNamespace::acquire) is held  *)
(* from before recovery until the transaction is dropped, so one exporter  *)
(* at a time is past `Begin': the module has one program counter.  What    *)
(* other processes can do without the lock is in the environment: create   *)
(* the output directory (prepare_export_directory runs before the lock is  *)
(* taken) and edit files in it.                                            *)
(***************************************************************************)
EXTENDS Integers

CONSTANTS
    N,              \* artifacts of one export
    Payloads,       \* the byte contents an export can render
    Foreign,        \* content found in the directory before the first export
    Edited,         \* content someone else writes later
    Absent,         \* nothing at a path
    Missing,        \* no directory at a path
    EntryKind,      \* OutputKind of each artifact of an export
    MaxSuffix,      \* last uniquify suffix (10_000 in plan.rs)
    InitialOutputs, \* the directories the first export may find
    Policies,       \* the conflict policies callers use
    MaxExports,     \* bound: exports started
    MaxCrashes,     \* bound: processes killed
    MaxFaults,      \* bound: failing file-system operations
    MaxEdits,       \* bound: files written by someone else
    MaxMishaps,     \* bound: all three of these together
    EditPoints,     \* program points at which someone else may write
    TornWrites      \* can a process die while it writes a snapshot?

Entries == 1..N
Kinds == {"File", "Directory"}
Content == [kind : Kinds, bytes : Payloads \cup {Foreign, Edited}]
Names == (Entries \X (0..MaxSuffix)) \cup {<<0, 0>>}
Directory == [Names -> Content \cup {Absent}]
Phases == {"Staging", "Prepared", "Mutating", "RollingBack", "Committed"}
Sequences == 0..3
Policy == {"Fail", "Replace", "Uniquify"}

Points == {"idle", "recover", "plan", "create", "write", "stage", "ready",
           "backup", "install", "swapOut", "swapCheck", "swapIn", "validate",
           "sync", "finalize", "rollback", "restore", "reinstate",
           "resync", "cleanup"}

ASSUME ExportAssumption ==
    /\ N \in Nat \ {0}
    /\ MaxSuffix \in Nat
    /\ {MaxExports, MaxCrashes, MaxFaults, MaxEdits, MaxMishaps} \subseteq Nat
    /\ {Foreign, Edited} \cap Payloads = {} /\ Foreign # Edited
    /\ Absent \notin Content
    /\ Missing \notin Directory
    /\ EntryKind \in [Entries -> Kinds]
    /\ InitialOutputs \subseteq Directory \cup {Missing}
    /\ Policies \subseteq Policy
    /\ EditPoints \subseteq Points
    /\ TornWrites \in BOOLEAN

VARIABLES
    output,     \* the output directory, or Missing
    root,       \* the transaction root: what is on disk below it
    txn,        \* the entries that every journal snapshot carries
    pc,         \* where the exporter is ("idle": no exporter runs)
    at,         \* the entry a per-entry loop has reached
    store,      \* JournalStore: the phase being written, the next sequence
    recovering, \* inside recover_pending_transactions?
    failed,     \* has this rollback collected a failure?
    request,    \* what the running export was asked for
    verdict,    \* what the running export returns once cleanup is done
    outcome,    \* what the last finished export returned
    spent       \* how much of each bound is used; edits past validation

vars == <<output, root, txn, pc, at, store, recovering, failed, request,
          verdict, outcome, spent>>
disk == <<output, root, txn>>
-----------------------------------------------------------------------------
(***************************************************************************)
(* The file system.                                                        *)
(***************************************************************************)
EmptyDirectory == [n \in Names |-> Absent]

NoJournal == [s \in Sequences |-> "none"]

\* A transaction root as create_transaction_root leaves it.
FreshRoot ==
    [exists |-> TRUE, journal |-> NoJournal, staged |-> Missing,
     backups |-> [i \in Entries |-> Absent], discard |-> {},
     previous |-> Missing, discarded |-> FALSE]

NoRoot == [FreshRoot EXCEPT !.exists = FALSE]

RootIsEmpty == root = FreshRoot

\* output_directory_is_empty, directory_is_empty
DirectoryIsEmpty(d) == d = EmptyDirectory

\* The content an export of payload p installs for entry i.
Rendered(i, p) == [kind |-> EntryKind[i], bytes |-> p]

\* validate_file, validate_directory: kind, size and digest are those the
\* journal has for entry i.
Validates(content, i) == content = Rendered(i, txn.payload)

\* path_matches_entry on entry i's destination in directory d.
PathMatchesEntry(d, i) == d # Missing /\ Validates(d[txn.dest[i]], i)

\* output_matches_complete_set: exactly the entries, each verified.
OutputMatchesCompleteSet(d) ==
    /\ d # Missing
    /\ {n \in Names : d[n] # Absent} = {txn.dest[i] : i \in Entries}
    /\ \A i \in Entries : PathMatchesEntry(d, i)

DestinationExists(i) == output # Missing /\ output[txn.dest[i]] # Absent

\* rename(2) of a directory: the target is missing or an empty directory.
CanRenameOver(d) == d = Missing \/ d = EmptyDirectory

\* rename(2) of content c over what a path holds.
CanReplace(c, existing) ==
    existing = Absent \/ (c.kind = "File" /\ existing.kind = "File")

(***************************************************************************)
(* load_latest_journal: the valid snapshot with the highest sequence; torn *)
(* snapshots are skipped.                                                  *)
(***************************************************************************)
ValidSequences == {s \in Sequences : root.journal[s] \in Phases}
LatestSequence == CHOOSE s \in ValidSequences : \A t \in ValidSequences : t <= s
LatestPhase ==
    IF ValidSequences = {} THEN "unknown" ELSE root.journal[LatestSequence]
-----------------------------------------------------------------------------
Init ==
    /\ output \in InitialOutputs
    /\ root = NoRoot
    /\ txn = [mode |-> "Entries", policy |-> "Fail",
              payload |-> Foreign, dest |-> [i \in Entries |-> <<i, 0>>],
              existed |-> [i \in Entries |-> FALSE],
              previousKind |-> [i \in Entries |-> "none"]]
    /\ pc = "idle" /\ at = 0
    /\ store = [target |-> "Staging", next |-> 0]
    /\ recovering = FALSE /\ failed = FALSE
    /\ request = [policy |-> "Fail", payload |-> Foreign]
    /\ verdict = "none" /\ outcome = "none"
    /\ spent = [exports |-> 0, crashes |-> 0, faults |-> 0, edits |-> 0,
                late |-> {}]

Mishaps == spent.crashes + spent.faults + spent.edits
Spend(bound) == [spent EXCEPT ![bound] = @ + 1]

\* The exporter returns (or dies): its locals are gone, the disk stays.
Stop(result) ==
    /\ pc' = "idle" /\ outcome' = result
    /\ at' = 0 /\ recovering' = FALSE /\ failed' = FALSE /\ verdict' = "none"
    /\ store' = [target |-> "Staging", next |-> 0]
    /\ request' = [policy |-> "Fail", payload |-> Foreign]

Continue(point) ==
    /\ pc' = point
    /\ UNCHANGED <<at, store, recovering, failed, request, verdict, outcome>>

\* Removes the root and then returns `result' (or goes on recovering).
CleanThen(result) ==
    /\ pc' = "cleanup" /\ verdict' = result
    /\ UNCHANGED <<at, store, recovering, failed, request, outcome>>

\* Starts JournalStore::persist(phase).
Persist(phase) ==
    /\ pc' = "create" /\ store' = [store EXCEPT !.target = phase]
    /\ UNCHANGED <<at, recovering, failed, request, verdict, outcome>>

\* What each caller of persist does with its error.
PersistFailed ==
    CASE store.target \in {"Staging", "Prepared", "Mutating"} ->
            CleanThen("unchanged")
      [] store.target = "RollingBack" ->
            Stop(IF recovering THEN "recoveryFailed" ELSE "recoveryRequired")
      [] store.target = "Committed" -> Stop("indeterminate")

\* handle_mutating_failure: roll back in this process.
MutationFailed ==
    /\ pc' = "create" /\ store' = [store EXCEPT !.target = "RollingBack"]
    /\ verdict' = "restored"
    /\ UNCHANGED <<at, recovering, failed, request, outcome>>

RecoveryFailed ==
    Stop(IF recovering THEN "recoveryFailed" ELSE "recoveryRequired")
-----------------------------------------------------------------------------
(***************************************************************************)
(* export_validated up to the lock: the rendered formats are ready and the *)
(* output directory is created when it is missing.                         *)
(***************************************************************************)
\* TransactionNamespace::acquire gets the lock.
Unlocked == pc = "idle"

Begin ==
    /\ Unlocked /\ spent.exports < MaxExports
    /\ \E policy \in Policies, p \in Payloads :
          request' = [policy |-> policy, payload |-> p]
    /\ output' = IF output = Missing THEN EmptyDirectory ELSE output
    /\ pc' = "recover" /\ recovering' = TRUE /\ outcome' = "none"
    /\ spent' = [Spend("exports") EXCEPT !.late = {}]
    /\ UNCHANGED <<root, txn, at, store, failed, verdict>>

(***************************************************************************)
(* recover_pending_transactions, one action per phase it may find.         *)
(***************************************************************************)
RecoverNothing ==
    /\ pc = "recover" /\ ~root.exists
    /\ pc' = "plan" /\ recovering' = FALSE
    /\ UNCHANGED <<disk, at, store, failed, request, verdict, outcome, spent>>

RecoverUnknown ==
    /\ pc = "recover" /\ root.exists /\ LatestPhase = "unknown"
    /\ IF RootIsEmpty THEN CleanThen("none") ELSE Stop("recoveryFailed")
    /\ UNCHANGED <<disk, spent>>

RecoverUnstarted ==
    /\ pc = "recover" /\ root.exists /\ LatestPhase \in {"Staging", "Prepared"}
    /\ CleanThen("none")
    /\ UNCHANGED <<disk, spent>>

RecoverMutating ==
    /\ pc = "recover" /\ root.exists /\ LatestPhase = "Mutating"
    /\ pc' = "create"
    /\ store' = [target |-> "RollingBack", next |-> LatestSequence + 1]
    /\ UNCHANGED <<disk, at, recovering, failed, request, verdict, outcome,
                   spent>>

RecoverRollingBack ==
    /\ pc = "recover" /\ root.exists /\ LatestPhase = "RollingBack"
    /\ pc' = "rollback" /\ at' = N /\ failed' = FALSE
    /\ UNCHANGED <<disk, store, recovering, request, verdict, outcome, spent>>

RecoverCommitted ==
    /\ pc = "recover" /\ root.exists /\ LatestPhase = "Committed"
    /\ Continue("finalize")
    /\ UNCHANGED <<disk, spent>>
-----------------------------------------------------------------------------
(***************************************************************************)
(* plan_destinations, then create_transaction_root.                        *)
(***************************************************************************)
\* unique_candidate: suffix s is free, and none before it is.
FirstFree(i, s) ==
    output[<<i, s>>] = Absent /\ \A t \in 0..(s - 1) : output[<<i, t>>] # Absent

\* resolve_destination succeeds for entry i.
Resolvable(i) ==
    CASE request.policy = "Fail" -> output[<<i, 0>>] = Absent
      [] request.policy = "Replace" ->
            output[<<i, 0>>] = Absent
              \/ ~(EntryKind[i] = "File" /\ output[<<i, 0>>].kind = "Directory")
      [] request.policy = "Uniquify" -> \E s \in 0..MaxSuffix : FirstFree(i, s)

ResolveDestination(i) ==
    IF request.policy = "Uniquify"
    THEN <<i, CHOOSE s \in 0..MaxSuffix : FirstFree(i, s)>>
    ELSE <<i, 0>>

PlannedTransaction ==
    LET dest == [i \in Entries |-> ResolveDestination(i)]
        existed == [i \in Entries |-> output[dest[i]] # Absent]
    IN  [mode |-> IF DirectoryIsEmpty(output) THEN "Swap" ELSE "Entries",
         policy |-> request.policy, payload |-> request.payload,
         dest |-> dest, existed |-> existed,
         previousKind |-> [i \in Entries |->
             IF existed[i] THEN output[dest[i]].kind ELSE "none"]]

Plan ==
    /\ pc = "plan"
    /\ IF output # Missing /\ \A i \in Entries : Resolvable(i)
       THEN /\ txn' = PlannedTransaction
            /\ root' = FreshRoot
            /\ pc' = "create"
            /\ store' = [target |-> "Staging", next |-> 0]
            /\ UNCHANGED <<at, recovering, failed, request, verdict, outcome>>
       ELSE /\ Stop("unchanged")
            /\ UNCHANGED <<root, txn>>
    /\ UNCHANGED <<output, spent>>

(***************************************************************************)
(* JournalStore::persist: write_new_file creates the numbered snapshot     *)
(* (create_new: an existing file of that number is an error), then writes  *)
(* and synchronizes it.                                                    *)
(***************************************************************************)
CreateSnapshot ==
    /\ pc = "create"
    /\ IF root.journal[store.next] = "none"
       THEN /\ root' = [root EXCEPT !.journal[store.next] = "torn"]
            /\ Continue("write")
       ELSE /\ PersistFailed
            /\ UNCHANGED root
    /\ UNCHANGED <<output, txn, spent>>

\* Where the code goes on once the snapshot is durable.
AfterPersist ==
    CASE store.target = "Staging" -> "stage"
      [] store.target = "Prepared" -> "ready"
      [] store.target = "Mutating" ->
            IF txn.mode = "Swap" THEN "swapOut" ELSE "backup"
      [] store.target = "RollingBack" -> "rollback"
      [] store.target = "Committed" -> "finalize"

WriteSnapshot ==
    /\ pc = "write"
    /\ root' = [root EXCEPT !.journal[store.next] = store.target]
    /\ store' = [store EXCEPT !.next = @ + 1]
    /\ pc' = AfterPersist
    /\ at' = IF store.target = "RollingBack" THEN N ELSE 1
    /\ failed' = FALSE
    /\ UNCHANGED <<output, txn, recovering, request, verdict, outcome, spent>>

(***************************************************************************)
(* stage_artifacts and validate_staged_artifacts.  A crash in between is   *)
(* covered by the crashes before and after this step: a Staging root is    *)
(* removed whatever it holds.                                              *)
(***************************************************************************)
StagedOutput ==
    [n \in Names |->
        IF \E i \in Entries : txn.dest[i] = n
        THEN Rendered(CHOOSE i \in Entries : txn.dest[i] = n, txn.payload)
        ELSE Absent]

Stage ==
    /\ pc = "stage"
    /\ root' = [root EXCEPT !.staged = StagedOutput]
    /\ Persist("Prepared")
    /\ UNCHANGED <<output, txn, spent>>
-----------------------------------------------------------------------------
(***************************************************************************)
(* commit_transaction.                                                     *)
(***************************************************************************)
\* recheck_destinations for entry i.
DestinationUnchanged(i) ==
    IF txn.policy = "Replace" /\ txn.existed[i]
    THEN DestinationExists(i) /\ output[txn.dest[i]].kind = txn.previousKind[i]
    ELSE ~DestinationExists(i)

\* Mutant: the mutation starts before its journal phase is durable.
MutateWithoutJournal ==
    /\ pc = "ready"
    /\ IF /\ \A i \in Entries : DestinationUnchanged(i)
          /\ txn.mode = "Swap" => output # Missing /\ DirectoryIsEmpty(output)
       THEN /\ pc' = IF txn.mode = "Swap" THEN "swapOut" ELSE "backup"
            /\ at' = 1
            /\ UNCHANGED <<store, recovering, failed, request, verdict, outcome>>
       ELSE CleanThen("unchanged")
    /\ UNCHANGED <<disk, spent>>

ValidateBeforeMutation ==
    /\ pc = "ready"
    /\ IF /\ \A i \in Entries : DestinationUnchanged(i)
          /\ txn.mode = "Swap" => output # Missing /\ DirectoryIsEmpty(output)
       THEN Persist("Mutating")
       ELSE CleanThen("unchanged")
    /\ UNCHANGED <<disk, spent>>

\* The next point of a loop over the entries.
NextEntry(point, after) ==
    /\ pc' = IF at = N THEN after ELSE point
    /\ at' = IF at = N THEN 1 ELSE at + 1
    /\ UNCHANGED <<store, recovering, failed, request, verdict, outcome>>

\* commit_entries, first loop: move each original to its backup.
Backup ==
    /\ pc = "backup"
    /\ CASE ~txn.existed[at] ->
              NextEntry("backup", "install") /\ UNCHANGED <<output, root>>
         [] txn.existed[at] /\ DestinationExists(at) ->
              /\ root' = [root EXCEPT !.backups[at] = output[txn.dest[at]]]
              /\ output' = [output EXCEPT ![txn.dest[at]] = Absent]
              /\ NextEntry("backup", "install")
         [] OTHER -> MutationFailed /\ UNCHANGED <<output, root>>
    /\ UNCHANGED <<txn, spent>>

\* commit_entries, second loop: hard link (File) or rename (Directory).  Both
\* fail on an occupied destination; foreign directories hold files here, so
\* the rename fails on them too.
Install ==
    /\ pc = "install"
    /\ IF output # Missing /\ ~DestinationExists(at)
       THEN /\ output' = [output EXCEPT ![txn.dest[at]] =
                             root.staged[txn.dest[at]]]
            /\ root' = IF EntryKind[at] = "Directory"
                       THEN [root EXCEPT !.staged[txn.dest[at]] = Absent]
                       ELSE root
            /\ NextEntry("install", "validate")
       ELSE MutationFailed /\ UNCHANGED <<output, root>>
    /\ UNCHANGED <<txn, spent>>

\* commit_directory_swap: retain the output directory ...
SwapOut ==
    /\ pc = "swapOut"
    /\ IF output # Missing
       THEN /\ root' = [root EXCEPT !.previous = output]
            /\ output' = Missing
            /\ Continue("swapCheck")
       ELSE MutationFailed /\ UNCHANGED <<output, root>>
    /\ UNCHANGED <<txn, spent>>

\* Mutant: the retained directory is not looked at again.
SwapUnchecked ==
    /\ pc = "swapCheck"
    /\ Continue("swapIn")
    /\ UNCHANGED <<disk, spent>>

\* ... make sure it is still empty ...
SwapCheck ==
    /\ pc = "swapCheck"
    /\ IF DirectoryIsEmpty(root.previous) THEN Continue("swapIn")
                                          ELSE MutationFailed
    /\ UNCHANGED <<disk, spent>>

\* ... and rename the staged directory over its path.
SwapIn ==
    /\ pc = "swapIn"
    /\ IF CanRenameOver(output)
       THEN /\ output' = root.staged
            /\ root' = [root EXCEPT !.staged = Missing]
            /\ Continue("validate")
       ELSE MutationFailed /\ UNCHANGED <<output, root>>
    /\ UNCHANGED <<txn, spent>>

\* The check shared by validate_committed_outputs and finalize_committed.
OutputsComplete ==
    IF txn.mode = "Swap" THEN OutputMatchesCompleteSet(output)
                         ELSE \A i \in Entries : PathMatchesEntry(output, i)

ValidateCommitted ==
    /\ pc = "validate"
    /\ IF OutputsComplete THEN Continue("sync") ELSE MutationFailed
    /\ UNCHANGED <<disk, spent>>

SyncOutput ==
    /\ pc = "sync"
    /\ Persist("Committed")
    /\ UNCHANGED <<disk, spent>>

FinalizeCommitted ==
    /\ pc = "finalize"
    /\ IF OutputsComplete
       THEN CleanThen("success")
       ELSE Stop(IF recovering THEN "recoveryFailed" ELSE "committedPending")
    /\ UNCHANGED <<disk, spent>>
-----------------------------------------------------------------------------
(***************************************************************************)
(* rollback_entries: from the last entry to the first, collecting failures *)
(* and going on.                                                           *)
(***************************************************************************)
RollbackNext(fails) ==
    /\ pc' = "rollback" /\ at' = at - 1
    /\ failed' = (failed \/ fails)
    /\ UNCHANGED <<store, recovering, request, verdict, outcome>>

HasBackup == root.backups[at] # Absent

\* ensure_parent_and_move(destination, discard/entry-at).
MoveToDiscard ==
    /\ output' = [output EXCEPT ![txn.dest[at]] = Absent]
    /\ root' = [root EXCEPT !.discard = @ \cup {at}]

\* Mutant: whatever is at the destination is moved away.
RollbackUnverified ==
    /\ pc = "rollback" /\ txn.mode = "Entries" /\ at > 0 /\ HasBackup
    /\ CASE ~DestinationExists(at) ->
              Continue("restore") /\ UNCHANGED <<output, root>>
         [] DestinationExists(at) /\ at \notin root.discard ->
              MoveToDiscard /\ Continue("restore")
         [] OTHER -> RollbackNext(TRUE) /\ UNCHANGED <<output, root>>
    /\ UNCHANGED <<txn, spent>>

RollbackReplaced ==
    /\ pc = "rollback" /\ txn.mode = "Entries" /\ at > 0 /\ HasBackup
    /\ CASE ~DestinationExists(at) ->
              Continue("restore") /\ UNCHANGED <<output, root>>
         [] PathMatchesEntry(output, at) /\ at \notin root.discard ->
              MoveToDiscard /\ Continue("restore")
         [] OTHER -> RollbackNext(TRUE) /\ UNCHANGED <<output, root>>
    /\ UNCHANGED <<txn, spent>>

Restore ==
    /\ pc = "restore"
    /\ IF /\ root.backups[at].kind = txn.previousKind[at]
          /\ output # Missing
          /\ CanReplace(root.backups[at], output[txn.dest[at]])
       THEN /\ output' = [output EXCEPT ![txn.dest[at]] = root.backups[at]]
            /\ root' = [root EXCEPT !.backups[at] = Absent]
            /\ RollbackNext(FALSE)
       ELSE RollbackNext(TRUE) /\ UNCHANGED <<output, root>>
    /\ UNCHANGED <<txn, spent>>

RollbackOriginal ==
    /\ pc = "rollback" /\ txn.mode = "Entries" /\ at > 0 /\ ~HasBackup
    /\ txn.existed[at]
    /\ RollbackNext(~DestinationExists(at) \/ PathMatchesEntry(output, at))
    /\ UNCHANGED <<disk, spent>>

\* Mutant: an entry that was never installed counts as a failure.
RollbackCreatedOnce ==
    /\ pc = "rollback" /\ txn.mode = "Entries" /\ at > 0 /\ ~HasBackup
    /\ ~txn.existed[at]
    /\ IF PathMatchesEntry(output, at) /\ at \notin root.discard
       THEN MoveToDiscard /\ RollbackNext(FALSE)
       ELSE RollbackNext(TRUE) /\ UNCHANGED <<output, root>>
    /\ UNCHANGED <<txn, spent>>

RollbackCreated ==
    /\ pc = "rollback" /\ txn.mode = "Entries" /\ at > 0 /\ ~HasBackup
    /\ ~txn.existed[at]
    /\ CASE ~DestinationExists(at) ->
              RollbackNext(FALSE) /\ UNCHANGED <<output, root>>
         [] PathMatchesEntry(output, at) /\ at \notin root.discard ->
              MoveToDiscard /\ RollbackNext(FALSE)
         [] OTHER -> RollbackNext(TRUE) /\ UNCHANGED <<output, root>>
    /\ UNCHANGED <<txn, spent>>

RollbackEntriesDone ==
    /\ pc = "rollback" /\ txn.mode = "Entries" /\ at = 0
    /\ IF failed THEN RecoveryFailed ELSE Continue("resync")
    /\ UNCHANGED <<disk, spent>>

(***************************************************************************)
(* rollback_directory_swap.                                                *)
(***************************************************************************)
RollbackSwap ==
    /\ pc = "rollback" /\ txn.mode = "Swap"
    /\ IF root.previous # Missing
       THEN CASE output = Missing ->
                   Continue("reinstate") /\ UNCHANGED <<output, root>>
              [] /\ output # Missing /\ ~root.discarded
                 /\ \/ OutputMatchesCompleteSet(output)
                    \/ DirectoryIsEmpty(output) ->
                   /\ output' = Missing
                   /\ root' = [root EXCEPT !.discarded = TRUE]
                   /\ Continue("reinstate")
              [] OTHER -> RecoveryFailed /\ UNCHANGED <<output, root>>
       ELSE /\ IF output # Missing /\ DirectoryIsEmpty(output)
               THEN Continue("resync")
               ELSE RecoveryFailed
            /\ UNCHANGED <<output, root>>
    /\ UNCHANGED <<txn, spent>>

Reinstate ==
    /\ pc = "reinstate"
    /\ IF CanRenameOver(output)
       THEN /\ output' = root.previous
            /\ root' = [root EXCEPT !.previous = Missing]
            /\ Continue("resync")
       ELSE RecoveryFailed /\ UNCHANGED <<output, root>>
    /\ UNCHANGED <<txn, spent>>

SyncRestored ==
    /\ pc = "resync"
    /\ CleanThen(IF recovering THEN "none" ELSE verdict)
    /\ UNCHANGED <<disk, spent>>
-----------------------------------------------------------------------------
(***************************************************************************)
(* cleanup_transaction_root: everything but the journal in name order,     *)
(* then the snapshots in ascending order, then the root itself.            *)
(***************************************************************************)
NoBackups == [i \in Entries |-> Absent]

OthersRemain ==
    \/ root.backups # NoBackups \/ root.discard # {} \/ root.discarded
    \/ root.previous # Missing \/ root.staged # Missing

CleanupOther ==
    /\ pc = "cleanup" /\ OthersRemain
    /\ root' =
         CASE root.backups # NoBackups -> [root EXCEPT !.backups = NoBackups]
           [] root.backups = NoBackups /\ root.discard # {} ->
                [root EXCEPT !.discard = {}]
           [] root.backups = NoBackups /\ root.discard = {}
              /\ root.discarded -> [root EXCEPT !.discarded = FALSE]
           [] root.backups = NoBackups /\ root.discard = {}
              /\ ~root.discarded /\ root.previous # Missing ->
                [root EXCEPT !.previous = Missing]
           [] OTHER -> [root EXCEPT !.staged = Missing]
    /\ UNCHANGED <<output, txn, pc, at, store, recovering, failed, request,
                   verdict, outcome, spent>>

CleanupJournal ==
    /\ pc = "cleanup" /\ ~OthersRemain
    /\ \E s \in Sequences :
          /\ root.journal[s] # "none"
          /\ \A t \in Sequences : t < s => root.journal[t] = "none"
          /\ root' = [root EXCEPT !.journal[s] = "none"]
    /\ UNCHANGED <<output, txn, pc, at, store, recovering, failed, request,
                   verdict, outcome, spent>>

\* Mutant: the emptied root is left in place.
CleanupKeepsRoot ==
    /\ pc = "cleanup" /\ ~OthersRemain /\ root.journal = NoJournal
    /\ IF recovering THEN Continue("recover") ELSE Stop(verdict)
    /\ UNCHANGED <<disk, spent>>

CleanupRoot ==
    /\ pc = "cleanup" /\ ~OthersRemain /\ root.journal = NoJournal
    /\ root' = NoRoot
    /\ IF recovering THEN Continue("recover") ELSE Stop(verdict)
    /\ UNCHANGED <<output, txn, spent>>
-----------------------------------------------------------------------------
(***************************************************************************)
(* A file-system operation fails.  Renames, links and creations that fail  *)
(* have no effect; a snapshot write may fail with the file torn, or whole  *)
(* when only the last synchronization failed.                              *)
(***************************************************************************)
FaultBeforeMutation ==
    /\ \/ /\ pc = "recover"
          /\ Stop("recoveryFailed") /\ UNCHANGED root
       \/ /\ pc = "plan"
          /\ root' \in {NoRoot, FreshRoot}
          /\ Stop("unchanged")
       \/ /\ pc = "stage"
          /\ root' \in {root, [root EXCEPT !.staged = EmptyDirectory]}
          /\ CleanThen("unchanged")
       \/ /\ pc = "ready"
          /\ CleanThen("unchanged") /\ UNCHANGED root
    /\ UNCHANGED <<output, txn>>

FaultInPersist ==
    /\ \/ /\ pc = "create" /\ UNCHANGED root
       \/ /\ pc = "write" /\ TornWrites /\ UNCHANGED root
       \/ /\ pc = "write"
          /\ root' = [root EXCEPT !.journal[store.next] = store.target]
    /\ PersistFailed
    /\ UNCHANGED <<output, txn>>

FaultInMutation ==
    /\ \/ /\ pc \in {"backup", "install", "swapOut", "swapCheck", "swapIn",
                     "validate"}
          /\ MutationFailed
       \/ pc = "sync" /\ Stop("indeterminate")
    /\ UNCHANGED disk

FaultInRollback ==
    /\ \/ /\ pc \in {"rollback", "restore"} /\ at > 0 /\ txn.mode = "Entries"
          /\ RollbackNext(TRUE)
       \/ /\ pc = "rollback" /\ txn.mode = "Swap"
          /\ RecoveryFailed
       \/ pc \in {"reinstate", "resync"} /\ RecoveryFailed
    /\ UNCHANGED disk

FaultInCleanup ==
    /\ pc = "cleanup"
    /\ Stop(IF recovering THEN "recoveryFailed"
            ELSE IF verdict = "success" THEN "committedPending"
            ELSE "cleanupPending")
    /\ UNCHANGED disk

Fault ==
    /\ spent.faults < MaxFaults /\ Mishaps < MaxMishaps
    /\ \/ FaultBeforeMutation \/ FaultInPersist \/ FaultInMutation
       \/ FaultInRollback \/ FaultInCleanup
    /\ spent' = Spend("faults")

(***************************************************************************)
(* The process is killed between two file-system operations.               *)
(***************************************************************************)
Crash ==
    /\ pc # "idle" /\ spent.crashes < MaxCrashes /\ Mishaps < MaxMishaps
    /\ pc = "write" => TornWrites
    /\ Stop("crashed")
    /\ spent' = Spend("crashes")
    /\ UNCHANGED disk

(***************************************************************************)
(* Processes that do not hold the lock: another export's                   *)
(* prepare_export_directory, and anyone who writes into the directory.     *)
(***************************************************************************)
PrepareByOther ==
    /\ pc # "idle" /\ output = Missing
    /\ output' = EmptyDirectory
    /\ UNCHANGED <<root, txn, pc, at, store, recovering, failed, request,
                   verdict, outcome, spent>>

\* The installed set has been validated and is not looked at again before the
\* Committed snapshot.
PastValidation == pc = "sync" \/ (pc \in {"create", "write"} /\ store.target = "Committed")

Edit ==
    /\ spent.edits < MaxEdits /\ Mishaps < MaxMishaps
    /\ pc \in EditPoints /\ output # Missing
    /\ \E n \in Names :
         /\ \E c \in {Absent} \cup [kind : Kinds, bytes : {Edited}] :
               c # output[n] /\ output' = [output EXCEPT ![n] = c]
         /\ spent' = [spent EXCEPT !.edits = @ + 1,
                                   !.late = IF PastValidation THEN @ \cup {n} ELSE @]
    /\ UNCHANGED <<root, txn, pc, at, store, recovering, failed, request,
                   verdict, outcome>>
-----------------------------------------------------------------------------
Recover ==
    \/ RecoverNothing \/ RecoverUnknown \/ RecoverUnstarted
    \/ RecoverMutating \/ RecoverRollingBack \/ RecoverCommitted

Commit ==
    \/ ValidateBeforeMutation \/ Backup \/ Install
    \/ SwapOut \/ SwapCheck \/ SwapIn
    \/ ValidateCommitted \/ SyncOutput \/ FinalizeCommitted

Rollback ==
    \/ RollbackReplaced \/ Restore \/ RollbackOriginal \/ RollbackCreated
    \/ RollbackEntriesDone \/ RollbackSwap \/ Reinstate \/ SyncRestored

Cleanup == CleanupOther \/ CleanupJournal \/ CleanupRoot

Exporter ==
    \/ Recover \/ Plan \/ CreateSnapshot \/ WriteSnapshot \/ Stage
    \/ Commit \/ Rollback \/ Cleanup

Next == Begin \/ Exporter \/ Fault \/ Crash \/ PrepareByOther \/ Edit

\* A started export is one synchronous call: it keeps running.
Spec == Init /\ [][Next]_vars /\ WF_vars(Exporter)
-----------------------------------------------------------------------------
(***************************************************************************)
(* What a reader of the export directory is promised: the installed set    *)
(* appears in one step, when the Committed snapshot becomes durable.       *)
(***************************************************************************)
Listing(d) == IF d = Missing THEN EmptyDirectory ELSE d

Undecided == root.exists /\ LatestPhase \in {"Mutating", "RollingBack"}

\* Entry i's destination as recovery would leave it.
EntryView(i) ==
    IF root.backups[i] # Absent THEN root.backups[i]
    ELSE IF ~txn.existed[i] /\ PathMatchesEntry(output, i) THEN Absent
    ELSE Listing(output)[txn.dest[i]]

LogicalView ==
    CASE Undecided /\ txn.mode = "Swap" ->
            Listing(IF root.previous # Missing THEN root.previous ELSE output)
      [] Undecided /\ txn.mode = "Entries" ->
            [n \in Names |->
                IF \E i \in Entries : txn.dest[i] = n
                THEN EntryView(CHOOSE i \in Entries : txn.dest[i] = n)
                ELSE Listing(output)[n]]
      [] OTHER -> Listing(output)

\* The running export has passed its commit point.
PastCommit ==
    /\ pc # "idle" /\ ~recovering
    /\ \/ root.exists /\ LatestPhase = "Committed"
       \/ pc = "cleanup" /\ verdict = "success"

Asked == IF pc = "idle" THEN [policy |-> "none"] ELSE request

(***************************************************************************)
(* The export set is installed atomically: seen through LogicalView, every *)
(* behaviour of this module, with crashes, failing operations, foreign     *)
(* edits and torn snapshots, is one of AtomicExport, and what the caller   *)
(* is told agrees with it (multi_output.rs: `A staged set of verified      *)
(* artifacts committed as one recoverable transaction.').                  *)
(***************************************************************************)
Atomic == INSTANCE AtomicExport WITH
              view <- LogicalView, installed <- PastCommit, late <- spent.late,
              asked <- Asked,
              InitialListings <- {Listing(d) : d \in InitialOutputs}

CommitsAtomically == Atomic!AtomicSpec

(***************************************************************************)
(* Write-ahead rule: the exporter touches the output directory only while  *)
(* the latest durable snapshot says Mutating or RollingBack, so a crash    *)
(* can never leave a changed directory without a journal that explains it  *)
(* (commit.rs, persist before every mutation).                             *)
(***************************************************************************)
WriteAhead ==
    [][Exporter /\ output' # output => Undecided]_vars

(***************************************************************************)
(* Nothing is lost: content that this transaction did not itself install   *)
(* stays in the output directory, in a backup or in the retained           *)
(* predecessor until the Committed snapshot is durable.  Only an edit by   *)
(* someone else may remove it (recovery.rs, rollback and cleanup order).   *)
(***************************************************************************)
Held ==
    {<<n, Listing(output)[n]>> : n \in Names}
      \cup {<<n, Listing(root.previous)[n]>> : n \in Names}
      \cup {<<txn.dest[i], root.backups[i]>> : i \in Entries}

Installed ==
    {<<txn.dest[i], Rendered(i, txn.payload)>> : i \in Entries}

Originals ==
    {h \in Held : h[2] # Absent /\ (Undecided => h \notin Installed)}

NothingLost ==
    [][spent'.edits = spent.edits /\ ~(root.exists /\ LatestPhase = "Committed")
         => Originals \subseteq Held']_vars

(***************************************************************************)
(* Recovery is blocked only where the journal cannot tell what to do.      *)
(* Without failing operations and foreign edits there are three such       *)
(* cases: a torn snapshot, an original with the bytes of its replacement,  *)
(* and an output directory recreated after a rollback retracted it.        *)
(***************************************************************************)
TornSnapshot == \E s \in Sequences : root.journal[s] = "torn"

IdenticalReplacement ==
    \E i \in Entries : /\ txn.existed[i] /\ root.backups[i] = Absent
                       /\ PathMatchesEntry(output, i)

RecreatedOutput ==
    root.previous # Missing /\ root.discarded /\ output # Missing

Undisturbed == spent.edits = 0 /\ spent.faults = 0

BlockedOnlyByAmbiguity ==
    outcome = "recoveryFailed" /\ Undisturbed =>
        TornSnapshot \/ IdenticalReplacement \/ RecreatedOutput

(***************************************************************************)
(* Retrying resolves: with no failing operation and nobody else writing,   *)
(* an export never fails because an earlier one was interrupted            *)
(* (inspect-verify-export.md: `Retrying the same output directory lets     *)
(* Offprint resolve a recoverable journal before starting new work.').     *)
(***************************************************************************)
RetryResolves == Undisturbed => outcome # "recoveryFailed"

(***************************************************************************)
(* Every started export returns or is killed: recovery, rollback and       *)
(* cleanup are loops that end.                                             *)
(***************************************************************************)
ExportReturns == (pc # "idle") ~> (pc = "idle")
=============================================================================
