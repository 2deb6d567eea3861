------------------------ MODULE ExportRecoveryProofs ------------------------
(***************************************************************************)
(* Recovery of an interrupted export, for any number of artifacts, exports *)
(* and crashes: without failing operations and foreign edits it is blocked *)
(* only where the journal cannot tell what to do.                          *)
(***************************************************************************)
EXTENDS ExportAtomicProofs

\* The snapshot of a transaction whose outcome is open, or the way to it.
Open == SaysUndecided \/ pc \in {"stage", "ready"} \/ Writing(Phases)

\* Entry i between its original, its backup and its replacement.
EntryKept(i) ==
    IF txn.existed[i] /\ root.backups[i] = Absent
    THEN output[txn.dest[i]] # Absent /\ output[txn.dest[i]].kind = txn.previousKind[i]
    ELSE /\ \/ output[txn.dest[i]] = Absent
            \/ output[txn.dest[i]] = Rendered(i, txn.payload) /\ i \notin root.discard
         /\ root.backups[i] # Absent => root.backups[i].kind = txn.previousKind[i]

EntriesKept == output # Missing /\ \A i \in Entries : EntryKept(i)

\* The directory of a swap between the empty one and the staged set.
SwapKept ==
    IF root.previous = Missing THEN output = EmptyDirectory
    ELSE root.previous = EmptyDirectory /\ output \in {Missing, EmptyDirectory, StagedOutput}

KeptInv == Open => IF txn.mode = "Swap" THEN SwapKept ELSE EntriesKept

\* What was validated or committed is there.
CompleteInv == PastValidation \/ root.journal[3] = "Committed" => OutputsComplete

RootInv ==
    /\ root.exists /\ root.journal = NoJournal => root = FreshRoot
    /\ pc \in {"stage", "ready"} \/ Writing({"Prepared", "Mutating"}) => root.journal[0] = "Staging"
    /\ pc = "cleanup" => root.journal[2] # "Mutating" \/ root.journal[3] \in {"RollingBack", "Committed"}
    /\ pc \in {"stage", "ready"} \cup Mutating \/ Writing(Phases \ {"RollingBack"}) => root.discard = {}
    /\ pc \in {"swapOut", "swapCheck", "swapIn"} => root.staged = StagedOutput

LocalInv ==
    /\ pc = "restore" => output[txn.dest[at]] = Absent
    /\ pc = "reinstate" => output \in {Missing, EmptyDirectory} /\ root.previous # Missing
    /\ failed => pc \in {"rollback", "restore"} /\ txn.mode = "Entries" /\ IdenticalReplacement

\* What a recovery that was given up finds (BlockedOnlyByAmbiguity).
BlockedInv == outcome = "recoveryFailed" => TornSnapshot \/ IdenticalReplacement \/ RecreatedOutput

Calm == KeptInv /\ CompleteInv /\ RootInv /\ LocalInv /\ BlockedInv
BInv == Undisturbed => Calm

USE ExportAssumption DEF Entries, Sequences, Phases, Points, Policy, Kinds, Mutating, RollingBack,
                         NumberOf

\* What is complete and what matches depends on the output and the plan.
LEMMA SameContent ==
  ASSUME output' = output, txn' = txn
  PROVE  /\ OutputsComplete' <=> OutputsComplete
         /\ StagedOutput' = StagedOutput
         /\ \A i \in Entries : PathMatchesEntry(output, i)' <=> PathMatchesEntry(output, i)
         /\ \A i \in Entries : Rendered(i, txn.payload)' = Rendered(i, txn.payload)
<1>1. \A i \in Entries : PathMatchesEntry(output, i)' <=> PathMatchesEntry(output, i)
  BY Zenon DEF PathMatchesEntry, Validates, Rendered
<1>2. OutputsComplete' <=> OutputsComplete
  BY <1>1, SMTT(60) DEF OutputsComplete, OutputMatchesCompleteSet
<1> QED
  BY <1>1, <1>2, SameStaged, Zenon DEF Rendered

\* A step that leaves the destinations and what is kept for them alone.
LEMMA SameFiles ==
  ASSUME output' = output, txn' = txn, root'.backups = root.backups, root'.discard = root.discard,
         root'.previous = root.previous
  PROVE  /\ SwapKept' <=> SwapKept
         /\ EntriesKept' <=> EntriesKept
         /\ IdenticalReplacement' <=> IdenticalReplacement
<1>2. SwapKept' <=> SwapKept
  BY SameContent, Zenon DEF SwapKept, EmptyDirectory
<1>3. EntriesKept' <=> EntriesKept
  BY SameContent, Zenon DEF EntriesKept, EntryKept
<1>4. IdenticalReplacement' <=> IdenticalReplacement
  BY SameContent, Zenon DEF IdenticalReplacement
<1> QED
  BY <1>2, <1>3, <1>4, Zenon

\* A step that leaves the disk alone leaves what is said about it.
LEMMA SameKept ==
  ASSUME UNCHANGED disk
  PROVE  /\ SaysUndecided' <=> SaysUndecided
         /\ SwapKept' <=> SwapKept
         /\ EntriesKept' <=> EntriesKept
         /\ IdenticalReplacement' <=> IdenticalReplacement
         /\ TornSnapshot' <=> TornSnapshot
         /\ RecreatedOutput' <=> RecreatedOutput
<1>1. output' = output /\ root' = root /\ txn' = txn
  BY Zenon DEF disk
<1>2. (SwapKept' <=> SwapKept) /\ (EntriesKept' <=> EntriesKept)
      /\ (IdenticalReplacement' <=> IdenticalReplacement)
  BY <1>1, SameFiles, Zenon
<1> QED
  BY <1>1, <1>2, Zenon DEF SaysUndecided, TornSnapshot, RecreatedOutput

\* While the exporter mutates or rolls back, the outcome is open.
LEMMA BusyIsOpen == ASSUME IInv, pc \in Mutating \cup RollingBack PROVE SaysUndecided
<1>1. CASE pc \in Mutating
  BY <1>1, SMTT(60) DEF IInv, PointInv, NothingFrom, SaysUndecided
<1>2. CASE pc \in RollingBack
  BY <1>2, Zenon DEF IInv, PointInv, SaysUndecided
<1> QED
  BY <1>1, <1>2, Zenon

\* The exporter returns or dies.
LEMMA StoppedCalm ==
  ASSUME Calm, UNCHANGED disk, NEW r, Stop(r),
         r = "recoveryFailed" => TornSnapshot \/ IdenticalReplacement \/ RecreatedOutput
  PROVE  Calm'
<1>1. output' = output /\ root' = root /\ txn' = txn
  BY Zenon DEF disk
<1>2. pc' = "idle" /\ ~failed' /\ outcome' = r
  BY Zenon DEF Stop
<1>3. KeptInv'
  BY <1>1, <1>2, SameKept, Zenon DEF Calm, KeptInv, Open, Writing
<1>4. CompleteInv'
  BY <1>1, <1>2, SameContent, Zenon DEF Calm, CompleteInv, PastValidation
<1>5. RootInv'
  BY <1>1, <1>2, SMTT(60) DEF Calm, RootInv, Writing, FreshRoot, NoJournal
<1>6. LocalInv' /\ BlockedInv'
  BY <1>2, SameKept, Zenon DEF LocalInv, BlockedInv
<1> QED
  BY <1>3, <1>4, <1>5, <1>6, Zenon DEF Calm

\* The root is about to be removed.
LEMMA CleanedCalm ==
  ASSUME AInv, Calm, UNCHANGED disk, pc # "idle", ~failed, NEW r, CleanThen(r),
         root.journal[2] # "Mutating" \/ root.journal[3] \in {"RollingBack", "Committed"}
  PROVE  Calm'
<1>1. output' = output /\ root' = root /\ txn' = txn
  BY Zenon DEF disk
<1>2. pc' = "cleanup" /\ ~failed' /\ outcome' = "none"
  BY Zenon DEF CleanThen, AInv, CallInv
<1>3. KeptInv'
  BY <1>1, <1>2, SameKept, Zenon DEF Calm, KeptInv, Open, Writing
<1>4. CompleteInv'
  BY <1>1, <1>2, SameContent, Zenon DEF Calm, CompleteInv, PastValidation
<1>5. RootInv'
  BY <1>1, <1>2, SMTT(60) DEF Calm, RootInv, Writing, FreshRoot, NoJournal
<1>6. LocalInv' /\ BlockedInv'
  BY <1>2, Zenon DEF LocalInv, BlockedInv
<1> QED
  BY <1>3, <1>4, <1>5, <1>6, Zenon DEF Calm

\* handle_mutating_failure
LEMMA GivenUpCalm ==
  ASSUME IInv, AInv, Calm, UNCHANGED disk, pc \in Mutating, MutationFailed
  PROVE  Calm'
<1>1. output' = output /\ root' = root /\ txn' = txn
  BY Zenon DEF disk
<1>2. pc' = "create" /\ store'.target = "RollingBack" /\ ~failed' /\ outcome' = "none"
  BY Zenon DEF MutationFailed, IInv, ControlType, Stores, AInv, CallInv, Calm, LocalInv
<1>3. KeptInv'
  BY <1>1, <1>2, SameKept, BusyIsOpen, Zenon DEF Calm, KeptInv, Open
<1>4. CompleteInv'
  BY <1>1, <1>2, SameContent, Zenon DEF Calm, CompleteInv, PastValidation
<1>5. RootInv'
  BY <1>1, <1>2, SMTT(60) DEF Calm, RootInv, Writing, FreshRoot, NoJournal
<1>6. LocalInv' /\ BlockedInv'
  BY <1>2, Zenon DEF LocalInv, BlockedInv
<1> QED
  BY <1>3, <1>4, <1>5, <1>6, Zenon DEF Calm

\* A step that leaves the disk alone and goes on.
LEMMA QuietCalm ==
  ASSUME AInv, Calm, UNCHANGED disk, pc # "idle", outcome' = outcome,
         Open' => Open, PastValidation' => PastValidation \/ OutputsComplete, RootInv', LocalInv'
  PROVE  Calm'
<1>1. output' = output /\ root' = root /\ txn' = txn
  BY Zenon DEF disk
<1>3. KeptInv'
  BY <1>1, SameKept, Zenon DEF Calm, KeptInv
<1>4. CompleteInv'
  BY <1>1, SameContent, Zenon DEF Calm, CompleteInv
<1>5. BlockedInv'
  BY Zenon DEF AInv, CallInv, BlockedInv
<1> QED
  BY <1>3, <1>4, <1>5, Zenon DEF Calm

\* recover_pending_transactions reads the journal.
LEMMA RecoverCalm == ASSUME IInv, AInv, Calm, Recover PROVE Calm'
<1>0. pc = "recover" /\ UNCHANGED disk /\ ~failed /\ outcome = "none"
  BY Zenon DEF Recover, RecoverNothing, RecoverUnknown, RecoverUnstarted, RecoverMutating,
               RecoverRollingBack, RecoverCommitted, AInv, CallInv, Calm, LocalInv
<1>r. root' = root /\ output' = output /\ txn' = txn
  BY <1>0, Zenon DEF disk
<1>1. CASE RecoverNothing
  <2>1. pc' = "plan" /\ ~failed' /\ outcome' = outcome
    BY <1>0, <1>1, Zenon DEF RecoverNothing
  <2>2. RootInv' /\ LocalInv'
    BY <1>r, <2>1, SMTT(60) DEF Calm, RootInv, LocalInv, Writing, FreshRoot, NoJournal
  <2> QED
    BY <1>0, <2>1, <2>2, SameKept, QuietCalm, Zenon DEF Open, PastValidation, Writing
<1>2. CASE RecoverUnknown
  <2>1. CASE CleanThen("none")
    <3>1. root.journal[2] # "Mutating"
      BY <1>2, Latest, Zenon DEF RecoverUnknown, IInv, DiskInv
    <3> QED
      BY <1>0, <2>1, <3>1, CleanedCalm, Zenon
  <2>2. CASE ~RootIsEmpty /\ Stop("recoveryFailed")
    <3>1. root.journal # NoJournal /\ root.exists
      BY <1>2, <2>2, Zenon DEF RecoverUnknown, Calm, RootInv, RootIsEmpty
    <3>2. PICK s \in Sequences : root.journal[s] # "none"
      BY <3>1, SMTT(60) DEF NoJournal, IInv, DiskType, Roots
    <3>3. root.journal[s] \notin Phases
      <4>1. LatestPhase = "unknown" /\ DiskType
        BY <1>2, Zenon DEF RecoverUnknown, IInv
      <4>2. \A t \in Sequences : root.journal[t] \in Phases => ~NothingFrom(t + 1)
        BY <4>1, LatestIs, SMTT(60)
      <4> QED
        BY <4>2, SMTT(60) DEF NothingFrom, IInv, DiskInv
    <3>4. TornSnapshot
      BY <3>2, <3>3, SMTT(60) DEF TornSnapshot, IInv, DiskType, Roots
    <3> QED
      BY <1>0, <2>2, <3>4, StoppedCalm, Zenon
  <2> QED
    BY <1>2, <2>1, <2>2, Zenon DEF RecoverUnknown
<1>3. CASE RecoverUnstarted
  <2>1. root.journal[2] # "Mutating" /\ CleanThen("none")
    BY <1>3, Latest, SMTT(60) DEF RecoverUnstarted, IInv, DiskInv
  <2> QED
    BY <1>0, <2>1, CleanedCalm, Zenon
<1>4. CASE RecoverMutating
  <2>1. pc' = "create" /\ store'.target = "RollingBack" /\ ~failed' /\ outcome' = outcome
    BY <1>0, <1>4, Zenon DEF RecoverMutating
  <2>2. SaysUndecided
    BY <1>4, UndecidedIs, Zenon DEF RecoverMutating, Undecided, IInv
  <2>3. RootInv' /\ LocalInv'
    BY <1>r, <2>1, SMTT(60) DEF Calm, RootInv, LocalInv, Writing, FreshRoot, NoJournal
  <2> QED
    BY <1>0, <2>1, <2>2, <2>3, QuietCalm, Zenon DEF Open, PastValidation
<1>5. CASE RecoverRollingBack
  <2>1. pc' = "rollback" /\ ~failed' /\ outcome' = outcome
    BY <1>0, <1>5, Zenon DEF RecoverRollingBack
  <2>2. RootInv' /\ LocalInv'
    BY <1>r, <2>1, SMTT(60) DEF Calm, RootInv, LocalInv, Writing, FreshRoot, NoJournal
  <2> QED
    BY <1>0, <2>1, <2>2, SameKept, QuietCalm, Zenon DEF Open, PastValidation, Writing
<1>6. CASE RecoverCommitted
  <2>1. pc' = "finalize" /\ ~failed' /\ outcome' = outcome
    BY <1>0, <1>6, Zenon DEF RecoverCommitted, Continue
  <2>2. RootInv' /\ LocalInv'
    BY <1>r, <2>1, SMTT(60) DEF Calm, RootInv, LocalInv, Writing, FreshRoot, NoJournal
  <2> QED
    BY <1>0, <2>1, <2>2, SameKept, QuietCalm, Zenon DEF Open, PastValidation, Writing
<1> QED
  BY <1>1, <1>2, <1>3, <1>4, <1>5, <1>6, Zenon DEF Recover

\* The other steps that look and do not touch.
LEMMA LookCalm ==
  ASSUME IInv, AInv, Calm,
         ValidateBeforeMutation \/ SwapCheck \/ ValidateCommitted \/ SyncOutput
  PROVE  Calm'
<1>0. UNCHANGED disk /\ pc # "idle" /\ ~failed
  BY Zenon DEF ValidateBeforeMutation, SwapCheck, ValidateCommitted, SyncOutput, Calm, LocalInv
<1>r. root' = root /\ output' = output /\ txn' = txn
  BY <1>0, Zenon DEF disk
<1>s. StagedOutput' = StagedOutput
  BY <1>r, SameStaged, Zenon
<1>1. CASE ValidateBeforeMutation /\ Persist("Mutating")
  <2>1. pc = "ready" /\ pc' = "create" /\ store'.target = "Mutating" /\ ~failed' /\ outcome' = outcome
    BY <1>0, <1>1, Zenon DEF ValidateBeforeMutation, Persist, IInv, ControlType, Stores
  <2>2. RootInv' /\ LocalInv'
    BY <1>r, <2>1, SMTT(60) DEF Calm, RootInv, LocalInv, Writing, FreshRoot, NoJournal
  <2> QED
    BY <1>0, <2>1, <2>2, QuietCalm, Zenon DEF Open, PastValidation
<1>2. CASE ValidateBeforeMutation /\ CleanThen("unchanged")
  <2>1. root.journal[2] # "Mutating"
    BY <1>2, SMTT(60) DEF ValidateBeforeMutation, IInv, PointInv, NothingFrom
  <2> QED
    BY <1>0, <1>2, <2>1, CleanedCalm, Zenon
<1>3. CASE SwapCheck /\ Continue("swapIn")
  <2>1. pc = "swapCheck" /\ pc' = "swapIn" /\ ~failed' /\ outcome' = outcome
    BY <1>0, <1>3, Zenon DEF SwapCheck, Continue
  <2>2. RootInv' /\ LocalInv'
    BY <1>r, <1>s, <2>1, SMTT(60) DEF Calm, RootInv, LocalInv, Writing, FreshRoot, NoJournal
  <2> QED
    BY <1>0, <2>1, <2>2, BusyIsOpen, QuietCalm, Zenon DEF Open, PastValidation
<1>4. CASE ValidateCommitted /\ OutputsComplete /\ Continue("sync")
  <2>1. pc = "validate" /\ pc' = "sync" /\ ~failed' /\ outcome' = outcome
    BY <1>0, <1>4, Zenon DEF ValidateCommitted, Continue
  <2>2. RootInv' /\ LocalInv'
    BY <1>r, <2>1, SMTT(60) DEF Calm, RootInv, LocalInv, Writing, FreshRoot, NoJournal
  <2> QED
    BY <1>0, <1>4, <2>1, <2>2, BusyIsOpen, QuietCalm, Zenon DEF Open, PastValidation
<1>5. CASE SyncOutput
  <2>1. pc = "sync" /\ pc' = "create" /\ store'.target = "Committed" /\ ~failed' /\ outcome' = outcome
    BY <1>0, <1>5, Zenon DEF SyncOutput, Persist, IInv, ControlType, Stores
  <2>2. RootInv' /\ LocalInv'
    BY <1>r, <2>1, SMTT(60) DEF Calm, RootInv, LocalInv, Writing, FreshRoot, NoJournal
  <2> QED
    BY <1>0, <2>1, <2>2, BusyIsOpen, QuietCalm, Zenon DEF Open, PastValidation
<1>6. CASE (SwapCheck \/ ValidateCommitted) /\ MutationFailed
  BY <1>0, <1>6, GivenUpCalm, Zenon DEF SwapCheck, ValidateCommitted
<1> QED
  BY <1>1, <1>2, <1>3, <1>4, <1>5, <1>6, Zenon DEF ValidateBeforeMutation, SwapCheck, ValidateCommitted

\* finalize_committed, the end of a rollback and a crash.
LEMMA EndCalm ==
  ASSUME IInv, AInv, Calm, FinalizeCommitted \/ SyncRestored \/ Crash
  PROVE  Calm'
<1>1. CASE FinalizeCommitted
  <2>1. pc = "finalize" /\ UNCHANGED disk /\ ~failed /\ root.journal[3] = "Committed"
    BY <1>1, Zenon DEF FinalizeCommitted, Calm, LocalInv, IInv, PointInv
  <2>2. OutputsComplete
    BY <2>1, Zenon DEF Calm, CompleteInv
  <2>3. CleanThen("success")
    BY <1>1, <2>2, Zenon DEF FinalizeCommitted
  <2> QED
    BY <2>1, <2>3, CleanedCalm, Zenon
<1>2. CASE SyncRestored
  <2>1. pc = "resync" /\ UNCHANGED disk /\ ~failed /\ root.journal[3] = "RollingBack"
    BY <1>2, Zenon DEF SyncRestored, Calm, LocalInv, IInv, PointInv
  <2> QED
    BY <1>2, <2>1, CleanedCalm, Zenon DEF SyncRestored
<1>3. CASE Crash
  BY <1>3, StoppedCalm, Zenon DEF Crash
<1> QED
  BY <1>1, <1>2, <1>3, Zenon

\* plan_destinations and create_transaction_root.
LEMMA PlanCalm == ASSUME IInv, AInv, Calm, Plan PROVE Calm'
<1>1. CASE ~(output # Missing /\ \A i \in Entries : Resolvable(i))
  BY <1>1, StoppedCalm, Zenon DEF Plan, disk
<1>2. CASE output # Missing /\ \A i \in Entries : Resolvable(i)
  <2>0. /\ pc = "plan" /\ output' = output /\ output # Missing /\ txn' = PlannedTransaction
        /\ root' = FreshRoot /\ pc' = "create" /\ store' = [target |-> "Staging", next |-> 0]
        /\ failed' = failed /\ outcome' = outcome
    BY <1>2, Zenon DEF Plan
  <2>1. /\ pc = "plan" /\ output' = output /\ output # Missing /\ txn' = PlannedTransaction
        /\ root' = FreshRoot /\ pc' = "create" /\ store'.target = "Staging" /\ failed' = failed /\ outcome' = outcome
    BY <2>0, Zenon
  <2>2. ~failed' /\ outcome' = "none"
    BY <2>1, Zenon DEF Calm, LocalInv, AInv, CallInv
  <2>3. ASSUME txn'.mode = "Swap" PROVE SwapKept'
    <3>1. output' = EmptyDirectory
      BY <2>1, <2>3, Zenon DEF PlannedTransaction, DirectoryIsEmpty
    <3> QED
      BY <2>1, <3>1, RootsAre, Zenon DEF SwapKept, EmptyDirectory
  <2>4. EntriesKept'
    <3>1. ASSUME NEW i \in Entries PROVE EntryKept(i)'
      BY <2>1, ZenonT(60) DEF EntryKept, PlannedTransaction, FreshRoot
    <3> QED
      BY <2>1, <3>1, Zenon DEF EntriesKept
  <2>5. CompleteInv'
    BY <2>1, RootsAre DEF CompleteInv, PastValidation, NoJournal
  <2>6. RootInv'
    BY <2>1, SMTT(60) DEF RootInv, Writing, FreshRoot, NoJournal
  <2>7. LocalInv' /\ BlockedInv'
    BY <2>1, <2>2, Zenon DEF LocalInv, BlockedInv
  <2> QED
    BY <2>3, <2>4, <2>5, <2>6, <2>7, Zenon DEF Calm, KeptInv
<1> QED
  BY <1>1, <1>2, Zenon

\* JournalStore::persist
LEMMA CreateCalm == ASSUME IInv, AInv, Calm, CreateSnapshot PROVE Calm'
<1>0. /\ pc = "create" /\ output' = output /\ txn' = txn /\ ~failed /\ outcome = "none"
      /\ store.next = NumberOf(store.target) /\ NothingFrom(store.next) /\ store.target \in Phases
      /\ store.next \in Sequences /\ root \in Roots
  BY SMTT(60) DEF CreateSnapshot, Calm, LocalInv, AInv, CallInv, IInv, PointInv, ControlType, Stores, Writing, DiskType
<1>1. CASE root.journal[store.next] = "none" /\ Continue("write")
  <2>1. /\ root' = [root EXCEPT !.journal[store.next] = "torn"]
        /\ pc' = "write" /\ store' = store /\ ~failed' /\ outcome' = "none"
    BY <1>0, <1>1, Zenon DEF CreateSnapshot, Continue
  <2>2. /\ root'.backups = root.backups /\ root'.discard = root.discard /\ root'.previous = root.previous
        /\ root'.staged = root.staged /\ root'.journal[store.next] = "torn"
        /\ \A s \in Sequences : s # store.next => root'.journal[s] = root.journal[s]
    BY <1>0, <2>1, SMTT(60) DEF Roots
  <2>3. KeptInv'
    BY <1>0, <2>2, SameFiles, Zenon DEF Calm, KeptInv, Open, Writing
  <2>4. CompleteInv'
    BY <1>0, <2>1, <2>2, SameContent, SMTT(60) DEF Calm, CompleteInv, PastValidation
  <2>5. RootInv'
    BY <1>0, <2>1, <2>2, SMTT(60) DEF Calm, RootInv, Writing, NoJournal
  <2>6. LocalInv' /\ BlockedInv'
    BY <2>1, Zenon DEF LocalInv, BlockedInv
  <2> QED
    BY <2>3, <2>4, <2>5, <2>6, Zenon DEF Calm
<1>2. CASE root.journal[store.next] # "none" /\ PersistFailed /\ UNCHANGED root
  <2>0. UNCHANGED disk
    BY <1>0, <1>2, Zenon DEF disk
  <2>1. TornSnapshot
    BY <1>0, <1>2, SMTT(60) DEF TornSnapshot, NothingFrom
  <2>2. CASE store.target \in {"Staging", "Prepared", "Mutating"}
    <3>1. CleanThen("unchanged")
      BY <1>2, <2>2, Zenon DEF PersistFailed
    <3>2. root.journal[2] # "Mutating"
      BY <1>0, <2>2, SMTT(60) DEF NothingFrom
    <3> QED
      BY <1>0, <2>0, <3>1, <3>2, CleanedCalm, Zenon
  <2>3. CASE store.target \in {"RollingBack", "Committed"}
    <3>1. PICK r : Stop(r)
      BY <1>2, <2>3, ZenonT(60) DEF PersistFailed
    <3> QED
      BY <2>0, <2>1, <3>1, StoppedCalm, Zenon
  <2> QED
    BY <1>0, <2>2, <2>3, Zenon
<1> QED
  BY <1>1, <1>2, Zenon DEF CreateSnapshot

\* A snapshot is written; a Committed one only behind a validated output.
LEMMA WriteCalm == ASSUME IInv, AInv, Calm, WriteSnapshot PROVE Calm'
<1>0. /\ pc = "write" /\ output' = output /\ txn' = txn /\ ~failed' /\ outcome' = "none"
      /\ store.next = NumberOf(store.target) /\ NothingFrom(store.next) /\ store.target \in Phases
      /\ store.next \in Sequences /\ root \in Roots /\ pc' = AfterPersist
  BY SMTT(60) DEF WriteSnapshot, AInv, CallInv, IInv, PointInv, ControlType, Stores, Writing, DiskType
<1>1. /\ root'.backups = root.backups /\ root'.discard = root.discard /\ root'.previous = root.previous
      /\ root'.staged = root.staged /\ root'.journal[store.next] = store.target
      /\ \A s \in Sequences : s # store.next => root'.journal[s] = root.journal[s]
  BY <1>0, SMTT(60) DEF WriteSnapshot, Roots
<1>2. /\ pc' \in {"stage", "ready", "swapOut", "backup", "rollback", "finalize"}
      /\ pc' = "stage" => store.target = "Staging"
      /\ pc' = "ready" => store.target = "Prepared"
      /\ pc' \in {"swapOut", "backup"} => store.target = "Mutating"
  BY <1>0, SMTT(60) DEF AfterPersist
<1>3. KeptInv'
  BY <1>0, <1>1, SameFiles, Zenon DEF Calm, KeptInv, Open, Writing
<1>4. CompleteInv'
  <2>1. ~PastValidation'
    BY <1>2, SMTT(60) DEF PastValidation
  <2>2. ASSUME root'.journal[3] = "Committed" PROVE OutputsComplete
    <3>1. store.target = "Committed"
      BY <1>0, <1>1, <2>2, SMTT(60) DEF NothingFrom
    <3> QED
      BY <1>0, <3>1, Zenon DEF Calm, CompleteInv, PastValidation
  <2> QED
    BY <1>0, <2>1, <2>2, SameContent, Zenon DEF CompleteInv
<1>5. RootInv'
  <2>1. root'.journal # NoJournal
    BY <1>0, <1>1, SMTT(60) DEF NoJournal
  <2>2. pc' \in {"stage", "ready"} => root'.journal[0] = "Staging"
    BY <1>0, <1>1, <1>2, SMTT(60) DEF Calm, RootInv, Writing
  <2>3. pc' \in {"stage", "ready"} \cup Mutating => root'.discard = {}
    BY <1>0, <1>1, <1>2, SMTT(60) DEF Calm, RootInv, Writing
  <2>4. pc' \in {"swapOut", "swapCheck", "swapIn"} => root'.staged = StagedOutput'
    BY <1>0, <1>1, <1>2, SameStaged, SMTT(60) DEF AInv, CommitInv, Writing
  <2> QED
    BY <1>2, <2>1, <2>2, <2>3, <2>4, SMTT(60) DEF RootInv, Writing
<1>6. LocalInv' /\ BlockedInv'
  BY <1>0, <1>2, SMTT(60) DEF LocalInv, BlockedInv
<1> QED
  BY <1>3, <1>4, <1>5, <1>6, Zenon DEF Calm

\* stage_artifacts
LEMMA StageCalm == ASSUME IInv, AInv, Calm, Stage PROVE Calm'
<1>0. /\ pc = "stage" /\ output' = output /\ txn' = txn /\ pc' = "create" /\ store'.target = "Prepared"
      /\ ~failed' /\ outcome' = "none"
  BY SMTT(60) DEF Stage, Persist, Calm, LocalInv, AInv, CallInv, IInv, ControlType, Stores
<1>1. /\ root'.backups = root.backups /\ root'.discard = root.discard /\ root'.previous = root.previous
      /\ root'.journal = root.journal
  BY DEF Stage, IInv, DiskType, Roots
<1>3. KeptInv'
  BY <1>0, <1>1, SameFiles, Zenon DEF Calm, KeptInv, Open
<1>4. CompleteInv'
  BY <1>0, <1>1, SameContent, SMTT(60) DEF Calm, CompleteInv, PastValidation
<1>5. RootInv'
  BY <1>0, <1>1, SMTT(60) DEF Calm, RootInv, Writing, NoJournal
<1>6. LocalInv' /\ BlockedInv'
  BY <1>0, Zenon DEF LocalInv, BlockedInv
<1> QED
  BY <1>3, <1>4, <1>5, <1>6, Zenon DEF Calm

\* A missing output directory is created, by this export or by another one.
LEMMA FilledCalm ==
  ASSUME IInv, AInv, Calm, output = Missing, output' = EmptyDirectory, root' = root, txn' = txn,
         failed' = failed, outcome' = "none", store' = store, pc' = pc \/ (pc = "idle" /\ pc' = "recover")
  PROVE  Calm'
<1>1. ~OutputsComplete /\ ~IdenticalReplacement /\ ~EntriesKept
  BY 1 \in Entries, Zenon DEF OutputsComplete, OutputMatchesCompleteSet, PathMatchesEntry, IdenticalReplacement,
                             EntriesKept
<1>2. EmptyDirectory # Missing
  BY Zenon DEF EmptyDirectory, Directory
<1>3. SwapKept => SwapKept'
  BY <1>2, Zenon DEF SwapKept, EmptyDirectory
<1>4. Open' => Open
  BY SMTT(60) DEF Open, Writing, SaysUndecided
<1>5. KeptInv'
  BY <1>1, <1>3, <1>4, Zenon DEF Calm, KeptInv
<1>6. CompleteInv'
  BY <1>1, SMTT(60) DEF Calm, CompleteInv, PastValidation
<1>7. RootInv'
  BY SameStaged, SMTT(60) DEF Calm, RootInv, Writing, FreshRoot, NoJournal
<1>8. LocalInv'
  <2>1. pc # "restore"
    BY <1>1, BusyIsOpen, Zenon DEF Calm, KeptInv, Open, IInv, LoopInv
  <2> QED
    BY <1>1, <2>1, SMTT(60) DEF Calm, LocalInv, EmptyDirectory
<1> QED
  BY <1>5, <1>6, <1>7, <1>8, Zenon DEF Calm, BlockedInv

-----------------------------------------------------------------------------
(***************************************************************************)
(* Mutation and rollback.                                                  *)
(***************************************************************************)
LEMMA BusyCalm ==
  ASSUME IInv, AInv, Calm, pc \in Mutating \cup RollingBack, pc' \in (Mutating \ {"sync"}) \cup RollingBack,
         txn' = txn, root'.journal = root.journal, outcome' = outcome,
         IF txn.mode = "Swap" THEN SwapKept' ELSE EntriesKept',
         pc' \in Mutating => root'.discard = {},
         pc' \in {"swapOut", "swapCheck", "swapIn"} => root'.staged = StagedOutput,
         LocalInv'
  PROVE  Calm'
<1>1. root.journal[3] # "Committed" /\ root.journal # NoJournal
  BY SMTT(60) DEF IInv, PointInv, NothingFrom, NoJournal
<1>2. KeptInv'
  BY Zenon DEF KeptInv
<1>3. CompleteInv'
  BY <1>1, SMTT(60) DEF CompleteInv, PastValidation
<1>4. RootInv'
  BY <1>1, SameStaged, SMTT(60) DEF RootInv, Writing, NoJournal
<1>5. BlockedInv'
  BY Zenon DEF AInv, CallInv, BlockedInv
<1> QED
  BY <1>2, <1>3, <1>4, <1>5, Zenon DEF Calm

\* A step on one entry.
LEMMA OneEntry ==
  ASSUME IInv, AInv, EntriesKept, NEW k \in Entries, txn' = txn,
         NEW c \in Held1, output' = [output EXCEPT ![txn.dest[k]] = c],
         \A i \in Entries : i # k => /\ root'.backups[i] = root.backups[i]
                                     /\ i \in root'.discard => i \in root.discard,
         EntryKept(k)'
  PROVE  /\ EntriesKept' /\ output'[txn.dest[k]] = c
         /\ \A i \in Entries : i # k => output'[txn.dest[i]] = output[txn.dest[i]]
<1>0. output \in Directory /\ output # Missing /\ txn.dest \in [Entries -> Names]
  BY Zenon DEF IInv, DiskType, Folders, Transactions, EntriesKept
<1>1. output' \in Directory /\ output' # Missing /\ output'[txn.dest[k]] = c
  BY <1>0, SMTT(60) DEF Directory, Held1
<1>2. ASSUME NEW i \in Entries, i # k PROVE output'[txn.dest[i]] = output[txn.dest[i]]
  <2>1. txn.dest[i] # txn.dest[k]
    BY <1>2, Destined, Zenon DEF IInv, AInv
  <2> QED
    BY <1>0, <2>1, ZenonT(60) DEF Directory
<1>3. ASSUME NEW i \in Entries PROVE EntryKept(i)'
  <2>1. CASE i = k
    BY <2>1, Zenon
  <2>2. CASE i # k
    <3>1. EntryKept(i)
      BY Zenon DEF EntriesKept
    <3>2. /\ output'[txn'.dest[i]] = output[txn.dest[i]] /\ root'.backups[i] = root.backups[i]
          /\ i \in root'.discard => i \in root.discard
          /\ Rendered(i, txn.payload)' = Rendered(i, txn.payload)
      BY <1>2, <2>2, Zenon DEF Rendered
    <3>3. CASE txn.existed[i] /\ root.backups[i] = Absent
      BY <3>1, <3>2, <3>3, ZenonT(60) DEF EntryKept
    <3>4. CASE ~(txn.existed[i] /\ root.backups[i] = Absent)
      <4>1. /\ \/ output[txn.dest[i]] = Absent
               \/ output[txn.dest[i]] = Rendered(i, txn.payload) /\ i \notin root.discard
            /\ root.backups[i] # Absent => root.backups[i].kind = txn.previousKind[i]
        BY <3>1, <3>4, Zenon DEF EntryKept
      <4> QED
        BY <3>2, <3>4, <4>1, Zenon DEF EntryKept
    <3> QED
      BY <3>3, <3>4, Zenon
  <2> QED
    BY <2>1, <2>2, Zenon
<1> QED
  BY <1>1, <1>2, <1>3, Zenon DEF EntriesKept

\* An entry that was not started stays so.
LEMMA IdenticalStays ==
  ASSUME IdenticalReplacement, txn' = txn, output' # Missing,
         \A i \in Entries : txn.existed[i] /\ root.backups[i] = Absent =>
            root'.backups[i] = Absent /\ output'[txn.dest[i]] = output[txn.dest[i]]
  PROVE  IdenticalReplacement'
  BY ZenonT(60) DEF IdenticalReplacement, PathMatchesEntry, Validates, Rendered

\* commit_entries
LEMMA BackupCalm == ASSUME IInv, AInv, Calm, Backup PROVE Calm'
<1>0. /\ pc = "backup" /\ at \in Entries /\ txn.mode = "Entries" /\ txn' = txn /\ root \in Roots /\ ~failed
      /\ EntriesKept /\ root.discard = {} /\ root.backups[at] = Absent
  BY BusyIsOpen, SMTT(60) DEF Backup, IInv, LoopInv, DiskType, Calm, LocalInv, RootInv, KeptInv, Open
<1>k. PICK k \in Entries : k = at
  BY <1>0, Zenon
<1>1. CASE MutationFailed /\ UNCHANGED <<output, root>>
  BY <1>0, <1>1, GivenUpCalm, Zenon DEF disk
<1>2. CASE NextEntry("backup", "install") /\ UNCHANGED <<output, root>>
  <2>1. pc' \in {"backup", "install"} /\ ~failed' /\ outcome' = outcome
    BY <1>0, <1>2, Zenon DEF NextEntry
  <2>2. EntriesKept'
    BY <1>0, <1>k, <1>2, SameFiles, Zenon
  <2> QED
    BY <1>0, <1>k, <1>2, <2>1, <2>2, BusyCalm, SMTT(60) DEF LocalInv
<1>3. CASE /\ txn.existed[k] /\ DestinationExists(at) /\ NextEntry("backup", "install")
           /\ root' = [root EXCEPT !.backups[k] = output[txn.dest[k]]]
           /\ output' = [output EXCEPT ![txn.dest[k]] = Absent]
  <2>1. pc' \in {"backup", "install"} /\ ~failed' /\ outcome' = outcome
    BY <1>0, <1>k, <1>3, Zenon DEF NextEntry
  <2>2. /\ root'.journal = root.journal /\ root'.discard = root.discard
        /\ root'.backups[k] = output[txn.dest[k]]
        /\ \A i \in Entries : i # k => root'.backups[i] = root.backups[i]
    BY <1>0, <1>k, <1>3, SMTT(60) DEF Roots
  <2>3. /\ output[txn.dest[k]] # Absent /\ output[txn.dest[k]].kind = txn.previousKind[k]
        /\ output'[txn.dest[k]] = Absent
    <3>1. output \in Directory /\ txn.dest[k] \in Names
      BY <1>0, <1>k, ZenonT(60) DEF IInv, DiskType, Folders, Transactions, EntriesKept
    <3> QED
      BY <1>0, <1>k, <1>3, <3>1, Zenon DEF EntriesKept, EntryKept, Directory
  <2>4. EntryKept(k)'
    BY <1>0, <1>k, <2>2, <2>3, <1>3, ZenonT(60) DEF EntryKept
  <2>5. EntriesKept'
    <3>1. \A i \in Entries : i # k => /\ root'.backups[i] = root.backups[i]
                                      /\ i \in root'.discard => i \in root.discard
      BY <2>2, Zenon
    <3>2. Absent \in Held1 /\ output' = [output EXCEPT ![txn.dest[k]] = Absent] /\ txn' = txn
      BY <1>0, <1>3, Zenon DEF Held1
    <3> QED
      BY <1>0, <2>4, <3>1, <3>2, OneEntry, ZenonT(60)
  <2> QED
    BY <1>0, <1>k, <2>1, <2>2, <2>5, BusyCalm, SMTT(60) DEF LocalInv
<1> QED
  BY <1>k, <1>1, <1>2, <1>3, Zenon DEF Backup

\* An entry is installed behind its backup.
LEMMA InstallCalm == ASSUME IInv, AInv, Calm, Install PROVE Calm'
<1>0. /\ pc = "install" /\ at \in Entries /\ txn.mode = "Entries" /\ txn' = txn /\ root \in Roots /\ ~failed
      /\ EntriesKept /\ root.discard = {} /\ root.staged[txn.dest[at]] = Rendered(at, txn.payload)
  BY BusyIsOpen, SMTT(60) DEF Install, IInv, LoopInv, DiskType, Calm, LocalInv, RootInv, KeptInv, Open, AInv, CommitInv
<1>k. PICK k \in Entries : k = at
  BY <1>0, Zenon
<1>1. CASE MutationFailed /\ UNCHANGED <<output, root>>
  BY <1>0, <1>1, GivenUpCalm, Zenon DEF disk
<1>3. CASE /\ ~DestinationExists(at) /\ output # Missing /\ NextEntry("install", "validate")
           /\ root' = IF EntryKind[at] = "Directory"
                      THEN [root EXCEPT !.staged[txn.dest[at]] = Absent] ELSE root
           /\ output' = [output EXCEPT ![txn.dest[at]] = root.staged[txn.dest[at]]]
  <2>1. pc' \in {"install", "validate"} /\ ~failed' /\ outcome' = outcome
    BY <1>0, <1>3, Zenon DEF NextEntry
  <2>2. root'.journal = root.journal /\ root'.discard = root.discard /\ root'.backups = root.backups
    BY <1>0, <1>k, <1>3 DEF Roots
  <2>3. output[txn.dest[k]] = Absent
    BY <1>k, <1>3, Zenon DEF DestinationExists
  <2>4. output \in Directory /\ txn.dest[k] \in Names /\ Rendered(k, txn.payload) \in Held1
    BY <1>0, SMTT(60) DEF IInv, DiskType, Folders, Transactions, EntriesKept, Held1, Rendered, Content
  <2>5. output'[txn.dest[k]] = Rendered(k, txn.payload)
    BY <1>0, <1>k, <1>3, <2>4, Zenon DEF Directory
  <2>6. EntryKept(k)'
    BY <1>0, <1>k, <2>2, <2>3, <2>5, SMTT(60) DEF EntryKept, EntriesKept, Rendered
  <2>7. EntriesKept'
    BY <1>0, <1>k, <1>3, <2>2, <2>4, <2>6, OneEntry, ZenonT(60)
  <2> QED
    BY <1>0, <1>k, <2>1, <2>2, <2>7, BusyCalm, SMTT(60) DEF LocalInv
<1> QED
  BY <1>1, <1>3, Zenon DEF Install

\* commit_directory_swap
LEMMA SwapCalm == ASSUME IInv, AInv, Calm, SwapOut \/ SwapIn PROVE Calm'
<1>0. /\ pc \in {"swapOut", "swapIn"} /\ txn.mode = "Swap" /\ txn' = txn /\ root \in Roots /\ ~failed
      /\ SwapKept /\ root.discard = {} /\ root.staged = StagedOutput
  BY BusyIsOpen, SMTT(60) DEF SwapOut, SwapIn, IInv, LoopInv, DiskType, Calm, LocalInv, RootInv, KeptInv, Open
<1>1. CASE MutationFailed /\ UNCHANGED <<output, root>>
  BY <1>0, <1>1, GivenUpCalm, Zenon DEF disk
<1>2. CASE /\ SwapOut /\ root' = [root EXCEPT !.previous = output] /\ output' = Missing /\ output # Missing
           /\ Continue("swapCheck")
  <2>1. pc' = "swapCheck" /\ ~failed' /\ outcome' = outcome
    BY <1>0, <1>2, Zenon DEF Continue
  <2>2. /\ root'.journal = root.journal /\ root'.discard = root.discard /\ root'.staged = root.staged
        /\ root'.previous = output
    BY <1>0, <1>2 DEF Roots
  <2>3. output = EmptyDirectory
    BY <1>0, <1>2, Zenon DEF SwapOut, IInv, LoopInv, SwapKept
  <2>4. SwapKept'
    BY <1>2, <2>2, <2>3, Zenon DEF SwapKept, EmptyDirectory
  <2> QED
    BY <1>0, <2>1, <2>2, <2>4, BusyCalm, SMTT(60) DEF LocalInv
<1>3. CASE /\ SwapIn /\ output' = root.staged /\ root' = [root EXCEPT !.staged = Missing]
           /\ Continue("validate")
  <2>1. pc = "swapIn" /\ pc' = "validate" /\ ~failed' /\ outcome' = outcome
    BY <1>0, <1>3, Zenon DEF Continue, SwapIn
  <2>2. root'.journal = root.journal /\ root'.discard = root.discard /\ root'.previous = root.previous
    BY <1>0, <1>3 DEF Roots
  <2>3. root.previous = EmptyDirectory /\ EmptyDirectory # Missing
    BY <1>0, <2>1, ZenonT(60) DEF AInv, CommitInv, EmptyDirectory, Directory
  <2>4. SwapKept'
    BY <1>0, <1>3, <2>2, <2>3, SameStaged, Zenon DEF SwapKept, EmptyDirectory
  <2> QED
    BY <1>0, <2>1, <2>2, <2>4, BusyCalm, SMTT(60) DEF LocalInv
<1> QED
  BY <1>1, <1>2, <1>3, Zenon DEF SwapOut, SwapIn

-----------------------------------------------------------------------------
\* rollback_entries finds every entry as it was left.
LEMMA RollingEntry ==
  ASSUME IInv, AInv, Calm, pc \in {"rollback", "restore"}, txn.mode = "Entries", at > 0
  PROVE  /\ at \in Entries /\ root \in Roots /\ EntriesKept /\ EntryKept(at) /\ output \in Directory
         /\ txn.dest[at] \in Names /\ txn.existed[at] \in BOOLEAN
         /\ root.backups[at] # Absent => txn.existed[at]
         /\ failed => IdenticalReplacement
<1>1. at \in Entries
  BY SMTT(60) DEF IInv, ControlType
<1>2. EntriesKept
  BY BusyIsOpen, Zenon DEF Calm, KeptInv, Open
<1> QED
  BY <1>1, <1>2, ZenonT(60) DEF EntriesKept, IInv, DiskType, Folders, Transactions, AInv, PlanInv, Calm, LocalInv

\* The rollback goes on with the next entry, or with this entry's backup.
LEMMA RolledCalm ==
  ASSUME IInv, AInv, Calm, pc \in {"rollback", "restore"}, txn.mode = "Entries", txn' = txn,
         root'.journal = root.journal, outcome' = outcome, EntriesKept',
         pc' \in {"rollback", "restore"}, pc' = "restore" => output'[txn'.dest[at']] = Absent,
         failed' => IdenticalReplacement'
  PROVE  Calm'
<1>1. LocalInv'
  BY Zenon DEF LocalInv
<1> QED
  BY <1>1, BusyCalm, Zenon

\* A rollback step that leaves the files alone.
LEMMA SkippedCalm ==
  ASSUME IInv, AInv, Calm, pc \in {"rollback", "restore"}, txn.mode = "Entries", at > 0, UNCHANGED disk,
         NEW fails, RollbackNext(fails), fails => IdenticalReplacement
  PROVE  Calm'
<1>1. output' = output /\ root' = root /\ txn' = txn
  BY Zenon DEF disk
<1>2. pc' = "rollback" /\ outcome' = outcome /\ failed' = (failed \/ fails)
  BY Zenon DEF RollbackNext
<1>3. EntriesKept' /\ (failed' => IdenticalReplacement')
  BY <1>1, <1>2, RollingEntry, SameFiles, Zenon
<1> QED
  BY <1>1, <1>2, <1>3, RolledCalm, Zenon

\* A replacement is moved away.
LEMMA DiscardCalm ==
  ASSUME IInv, AInv, Calm, pc = "rollback", txn.mode = "Entries", at > 0, MoveToDiscard, txn' = txn,
         ~txn.existed[at] \/ HasBackup,
         (Continue("restore") /\ at' = at) \/ RollbackNext(FALSE)
  PROVE  Calm'
<1>k. PICK k \in Entries : k = at
  BY RollingEntry, Zenon
<1>0. /\ root \in Roots /\ EntriesKept /\ EntryKept(k) /\ output \in Directory /\ txn.dest[k] \in Names
      /\ txn.existed[k] \in BOOLEAN /\ (root.backups[k] # Absent => txn.existed[k])
      /\ failed => IdenticalReplacement
  BY <1>k, RollingEntry, Zenon
<1>1. /\ pc' \in {"rollback", "restore"} /\ outcome' = outcome /\ (failed' => failed)
      /\ pc' = "restore" => at' = k
  <2>1. CASE Continue("restore")
    BY <1>k, <2>1, Zenon DEF Continue
  <2>2. CASE RollbackNext(FALSE)
    BY <1>k, <2>2, Zenon DEF RollbackNext
  <2> QED
    BY <2>1, <2>2, Zenon
<1>2. /\ output' = [output EXCEPT ![txn.dest[k]] = Absent] /\ root' = [root EXCEPT !.discard = @ \cup {k}]
      /\ ~txn.existed[k] \/ root.backups[k] # Absent
  BY <1>k, Zenon DEF MoveToDiscard, HasBackup
<1>3. /\ root'.journal = root.journal /\ root'.backups = root.backups
      /\ \A i \in Entries : i # k => (i \in root'.discard => i \in root.discard)
  BY <1>0, <1>2 DEF Roots
<1>4. output'[txn.dest[k]] = Absent
  BY <1>0, <1>2, ZenonT(60) DEF Directory
<1>5. EntryKept(k)'
  BY <1>0, <1>2, <1>3, <1>4, ZenonT(60) DEF EntryKept
<1>6. EntriesKept' /\ \A i \in Entries : i # k => output'[txn.dest[i]] = output[txn.dest[i]]
  BY <1>0, <1>2, <1>3, <1>5, OneEntry, Zenon DEF Held1
<1>7. failed' => IdenticalReplacement'
  BY <1>0, <1>1, <1>2, <1>3, <1>6, IdenticalStays, Zenon DEF EntriesKept
<1> QED
  BY <1>1, <1>3, <1>4, <1>6, <1>7, RolledCalm, Zenon

\* The rollback discards a replacement whose original is in its backup.
LEMMA RollbackReplacedCalm == ASSUME IInv, AInv, Calm, RollbackReplaced PROVE Calm'
<1>0. pc = "rollback" /\ txn.mode = "Entries" /\ at > 0 /\ HasBackup /\ txn' = txn
  BY Zenon DEF RollbackReplaced
<1>1. CASE ~DestinationExists(at) /\ Continue("restore") /\ UNCHANGED <<output, root>>
  <2>1. output' = output /\ root' = root /\ pc' = "restore" /\ at' = at /\ failed' = failed /\ outcome' = outcome
    BY <1>1, Zenon DEF Continue
  <2>2. output[txn.dest[at]] = Absent
    BY <1>0, <1>1, RollingEntry, Zenon DEF DestinationExists, EntriesKept
  <2>3. EntriesKept' /\ (failed' => IdenticalReplacement')
    BY <1>0, <2>1, RollingEntry, SameFiles, Zenon
  <2> QED
    BY <1>0, <2>1, <2>2, <2>3, RolledCalm, Zenon
<1>2. CASE MoveToDiscard /\ Continue("restore")
  BY <1>0, <1>2, DiscardCalm, Zenon DEF Continue
<1>3. CASE DestinationExists(at) /\ ~(PathMatchesEntry(output, at) /\ at \notin root.discard)
  <2>1. EntryKept(at) /\ output # Missing
    BY <1>0, RollingEntry, Zenon DEF EntriesKept
  <2> QED
    BY <1>0, <1>3, <2>1, Zenon DEF EntryKept, HasBackup, DestinationExists, PathMatchesEntry, Validates
<1> QED
  BY <1>1, <1>2, <1>3, Zenon DEF RollbackReplaced

\* The rollback discards an entry that had no original.
LEMMA RollbackCreatedCalm == ASSUME IInv, AInv, Calm, RollbackCreated PROVE Calm'
<1>0. pc = "rollback" /\ txn.mode = "Entries" /\ at > 0 /\ ~HasBackup /\ ~txn.existed[at] /\ txn' = txn
  BY Zenon DEF RollbackCreated
<1>1. CASE ~DestinationExists(at) /\ RollbackNext(FALSE) /\ UNCHANGED <<output, root>>
  BY <1>0, <1>1, SkippedCalm, Zenon DEF disk
<1>2. CASE MoveToDiscard /\ RollbackNext(FALSE)
  BY <1>0, <1>2, DiscardCalm, Zenon
<1>3. CASE DestinationExists(at) /\ ~(PathMatchesEntry(output, at) /\ at \notin root.discard)
  <2>1. EntryKept(at) /\ output # Missing
    BY <1>0, RollingEntry, Zenon DEF EntriesKept
  <2> QED
    BY <1>0, <1>3, <2>1, Zenon DEF EntryKept, HasBackup, DestinationExists, PathMatchesEntry, Validates
<1> QED
  BY <1>1, <1>2, <1>3, Zenon DEF RollbackCreated

\* The rollback finds an original that was never moved, or cannot tell it from its replacement.
LEMMA RollbackOriginalCalm == ASSUME IInv, AInv, Calm, RollbackOriginal PROVE Calm'
<1>0. /\ pc = "rollback" /\ txn.mode = "Entries" /\ at > 0 /\ ~HasBackup /\ txn.existed[at] /\ UNCHANGED disk
      /\ RollbackNext(~DestinationExists(at) \/ PathMatchesEntry(output, at))
  BY Zenon DEF RollbackOriginal
<1>1. EntryKept(at) /\ output # Missing /\ at \in Entries
  BY <1>0, RollingEntry, Zenon DEF EntriesKept
<1>2. DestinationExists(at)
  BY <1>0, <1>1, Zenon DEF EntryKept, HasBackup, DestinationExists
<1>3. PathMatchesEntry(output, at) => IdenticalReplacement
  BY <1>0, <1>1, Zenon DEF IdenticalReplacement, HasBackup
<1> QED
  BY <1>0, <1>2, <1>3, SkippedCalm, Zenon

\* A backup goes back to its free destination.
LEMMA RestoreCalm == ASSUME IInv, AInv, Calm, Restore PROVE Calm'
<1>k. PICK k \in Entries : k = at
  BY Zenon DEF Restore, IInv, LoopInv
<1>g. at > 0 /\ pc = "restore" /\ txn.mode = "Entries" /\ txn' = txn
  BY <1>k, SMTT(60) DEF Restore, IInv, LoopInv
<1>0. /\ root \in Roots /\ EntriesKept /\ EntryKept(k) /\ output \in Directory /\ output # Missing
      /\ txn.dest[k] \in Names /\ txn.existed[k] /\ root.backups[k] # Absent /\ output[txn.dest[k]] = Absent
      /\ failed => IdenticalReplacement
  BY <1>k, <1>g, RollingEntry, Zenon DEF EntriesKept, IInv, LoopInv, Calm, LocalInv
<1>1. /\ root.backups[k].kind = txn.previousKind[k] /\ CanReplace(root.backups[k], output[txn.dest[k]])
  BY <1>0, Zenon DEF EntryKept, CanReplace
<1>2. /\ output' = [output EXCEPT ![txn.dest[k]] = root.backups[k]]
      /\ root' = [root EXCEPT !.backups[k] = Absent] /\ RollbackNext(FALSE)
  BY <1>k, <1>0, <1>1, Zenon DEF Restore
<1>3. /\ root'.journal = root.journal /\ root'.discard = root.discard /\ root'.backups[k] = Absent
      /\ \A i \in Entries : i # k => root'.backups[i] = root.backups[i]
      /\ root.backups[k] \in Held1
  BY <1>0, <1>2, SMTT(60) DEF Roots
<1>4. output'[txn.dest[k]] = root.backups[k]
  BY <1>0, <1>2, ZenonT(60) DEF Directory
<1>5. EntryKept(k)'
  BY <1>g, <1>0, <1>1, <1>3, <1>4, Zenon DEF EntryKept
<1>6. EntriesKept' /\ \A i \in Entries : i # k => output'[txn.dest[i]] = output[txn.dest[i]]
  <2>1. \A i \in Entries : i # k => /\ root'.backups[i] = root.backups[i]
                                    /\ i \in root'.discard => i \in root.discard
    BY <1>3, Zenon
  <2> QED
    BY <1>g, <1>0, <1>2, <1>3, <1>5, <2>1, OneEntry, ZenonT(60)
<1>7. pc' = "rollback" /\ outcome' = outcome /\ (failed' => failed)
  BY <1>2, Zenon DEF RollbackNext
<1>8. failed' => IdenticalReplacement'
  BY <1>g, <1>0, <1>3, <1>6, <1>7, IdenticalStays, Zenon DEF EntriesKept
<1> QED
  BY <1>g, <1>3, <1>6, <1>7, <1>8, RolledCalm, Zenon

\* The rollback has passed the first entry, or gives up over an identical replacement.
LEMMA RollbackEntriesDoneCalm == ASSUME IInv, AInv, Calm, RollbackEntriesDone PROVE Calm'
<1>0. pc = "rollback" /\ txn.mode = "Entries" /\ UNCHANGED disk
  BY Zenon DEF RollbackEntriesDone
<1>1. CASE failed
  <2>1. PICK r : Stop(r)
    BY <1>1, Zenon DEF RollbackEntriesDone, RecoveryFailed
  <2> QED
    BY <1>0, <1>1, <2>1, StoppedCalm, Zenon DEF Calm, LocalInv
<1>2. CASE ~failed
  <2>1. output' = output /\ root' = root /\ txn' = txn
    BY <1>0, Zenon DEF disk
  <2>2. pc' = "resync" /\ ~failed' /\ outcome' = outcome
    BY <1>2, Zenon DEF RollbackEntriesDone, Continue
  <2>3. EntriesKept'
    BY <1>0, <2>1, BusyIsOpen, SameFiles, Zenon DEF Calm, KeptInv, Open
  <2>4. LocalInv'
    BY <2>2, Zenon DEF LocalInv
  <2> QED
    BY <1>0, <2>1, <2>2, <2>3, <2>4, BusyCalm, SMTT(60)
<1> QED
  BY <1>1, <1>2, Zenon

\* rollback_directory_swap
LEMMA StagedIsComplete ==
  ASSUME IInv, AInv, output = StagedOutput PROVE OutputMatchesCompleteSet(output)
<1>1. DiskType /\ PlanInv
  BY Zenon DEF IInv, AInv
<1>2. \A i \in Entries : output[txn.dest[i]] = Rendered(i, txn.payload) /\ txn.dest[i] \in Names
  BY <1>1, StagedAt, Destined, Zenon
<1>3. output # Missing
  <2>1. StagedOutput \in Directory
    <3>1. \A i \in Entries : Rendered(i, txn.payload) \in Content
      BY <1>1, SMTT(60) DEF DiskType, Transactions, Rendered, Content
    <3> QED
      BY <3>1, Zenon DEF StagedOutput, Directory
  <2> QED
    BY <2>1, Zenon
<1>4. \A i \in Entries : Rendered(i, txn.payload) # Absent
  BY <1>1, SMTT(60) DEF DiskType, Transactions, Rendered, Content
<1>5. \A n \in Names : output[n] # Absent <=> \E i \in Entries : txn.dest[i] = n
  BY <1>2, <1>4, Zenon DEF StagedOutput
<1>6. {n \in Names : output[n] # Absent} = {txn.dest[i] : i \in Entries}
  BY <1>2, <1>5, SMTT(60)
<1> QED
  BY <1>2, <1>3, <1>6, Zenon DEF OutputMatchesCompleteSet, PathMatchesEntry, Validates

\* The rollback of a swap discards the new directory or finds the old one.
LEMMA RollbackSwapCalm == ASSUME IInv, AInv, Calm, RollbackSwap PROVE Calm'
<1>0. pc = "rollback" /\ txn.mode = "Swap" /\ SwapKept /\ txn' = txn /\ root \in Roots /\ ~failed
  BY BusyIsOpen, Zenon DEF RollbackSwap, Calm, KeptInv, LocalInv, Open, IInv, DiskType
<1>1. CASE Continue("reinstate") /\ UNCHANGED <<output, root>> /\ output = Missing /\ root.previous # Missing
  <2>1. pc' = "reinstate" /\ ~failed' /\ outcome' = outcome /\ output' = output /\ root' = root
    BY <1>0, <1>1, Zenon DEF Continue
  <2>2. SwapKept'
    BY <1>0, <2>1, SameFiles, Zenon
  <2>3. LocalInv'
    BY <1>1, <2>1, Zenon DEF LocalInv
  <2> QED
    BY <1>0, <2>1, <2>2, <2>3, BusyCalm, SMTT(60)
<1>2. CASE /\ output' = Missing /\ root' = [root EXCEPT !.discarded = TRUE] /\ Continue("reinstate")
           /\ root.previous # Missing
  <2>1. pc' = "reinstate" /\ ~failed' /\ outcome' = outcome
    BY <1>0, <1>2, Zenon DEF Continue
  <2>2. root'.previous = root.previous /\ root'.journal = root.journal
    BY <1>0, <1>2 DEF Roots
  <2>3. SwapKept'
    BY <1>0, <1>2, <2>2, Zenon DEF SwapKept, EmptyDirectory
  <2>4. LocalInv'
    BY <1>2, <2>1, <2>2, Zenon DEF LocalInv
  <2> QED
    BY <1>0, <2>1, <2>2, <2>3, <2>4, BusyCalm, SMTT(60)
<1>3. CASE /\ UNCHANGED <<output, root>> /\ RecoveryFailed /\ output # Missing
           /\ root.discarded \/ ~(OutputMatchesCompleteSet(output) \/ DirectoryIsEmpty(output))
           /\ root.previous # Missing
  <2>1. PICK r : Stop(r)
    BY <1>3, Zenon DEF RecoveryFailed
  <2>2. RecreatedOutput
    BY <1>0, <1>3, StagedIsComplete, Zenon DEF SwapKept, RecreatedOutput, DirectoryIsEmpty
  <2> QED
    BY <1>0, <1>3, <2>1, <2>2, StoppedCalm, Zenon DEF disk
<1>4. CASE root.previous = Missing
  <2>0. output = EmptyDirectory /\ EmptyDirectory # Missing
    BY <1>0, <1>4, Zenon DEF SwapKept, EmptyDirectory, Directory
  <2>1. pc' = "resync" /\ ~failed' /\ outcome' = outcome /\ output' = output /\ root' = root
    BY <1>0, <1>4, <2>0, Zenon DEF RollbackSwap, DirectoryIsEmpty, Continue
  <2>2. SwapKept'
    BY <1>0, <2>1, SameFiles, Zenon
  <2>3. LocalInv'
    BY <2>1, Zenon DEF LocalInv
  <2> QED
    BY <1>0, <2>1, <2>2, <2>3, BusyCalm, SMTT(60)
<1> QED
  BY <1>1, <1>2, <1>3, <1>4, ZenonT(60) DEF RollbackSwap

\* The old directory goes back in place.
LEMMA ReinstateCalm == ASSUME IInv, AInv, Calm, Reinstate PROVE Calm'
<1>0. /\ pc = "reinstate" /\ txn.mode = "Swap" /\ SwapKept /\ txn' = txn /\ root \in Roots /\ ~failed
      /\ output \in {Missing, EmptyDirectory} /\ root.previous # Missing
  BY BusyIsOpen, ZenonT(60) DEF Reinstate, Calm, KeptInv, LocalInv, Open, IInv, DiskType, LoopInv
<1>1. output' = root.previous /\ root' = [root EXCEPT !.previous = Missing] /\ Continue("resync")
  BY <1>0, Zenon DEF Reinstate, CanRenameOver
<1>2. root'.previous = Missing /\ root'.journal = root.journal
  BY <1>0, <1>1 DEF Roots
<1>3. SwapKept'
  BY <1>0, <1>1, <1>2, Zenon DEF SwapKept, EmptyDirectory
<1>4. pc' = "resync" /\ ~failed' /\ outcome' = outcome
  BY <1>0, <1>1, Zenon DEF Continue
<1>5. LocalInv'
  BY <1>4, Zenon DEF LocalInv
<1> QED
  BY <1>0, <1>2, <1>3, <1>4, <1>5, BusyCalm, SMTT(60)

-----------------------------------------------------------------------------
(***************************************************************************)
(* cleanup_transaction_root and the rest of Next.                          *)
(***************************************************************************)
LEMMA CleanupOtherCalm == ASSUME IInv, AInv, Calm, CleanupOther PROVE Calm'
<1>0. /\ pc = "cleanup" /\ pc' = "cleanup" /\ output' = output /\ txn' = txn /\ ~failed' /\ outcome' = "none"
      /\ root \in Roots /\ root.exists
  BY ZenonT(60) DEF CleanupOther, IInv, DiskType, PointInv, AInv, CallInv, Calm, LocalInv
<1>1. /\ root'.journal = root.journal /\ root'.exists = root.exists /\ root'.discard \in {root.discard, {}}
      /\ root'.backups \in {root.backups, NoBackups} /\ root'.previous \in {root.previous, Missing}
  BY <1>0, ZenonT(60) DEF CleanupOther, Roots
<1>2. KeptInv'
  <2>1. SUFFICES ASSUME SaysUndecided' PROVE IF txn.mode = "Swap" THEN SwapKept' ELSE EntriesKept'
    BY <1>0, Zenon DEF KeptInv, Open, Writing
  <2>2. SaysUndecided /\ root.journal[3] = "RollingBack"
    BY <1>0, <1>1, <2>1, SMTT(60) DEF SaysUndecided, Calm, RootInv
  <2>3. root.backups = NoBackups /\ root.previous = Missing
    BY <1>0, <2>2, SMTT(60) DEF IInv, PointInv, Retains
  <2>4. root'.backups = root.backups /\ root'.previous = root.previous
    BY <1>1, <2>3, Zenon
  <2>5. CASE txn.mode = "Swap"
    <3>1. output = EmptyDirectory
      BY <2>2, <2>3, <2>5, Zenon DEF Calm, KeptInv, Open, SwapKept
    <3> QED
      BY <1>0, <2>3, <2>4, <2>5, <3>1, Zenon DEF SwapKept, EmptyDirectory
  <2>6. CASE txn.mode # "Swap"
    <3>1. EntriesKept
      BY <2>2, <2>6, Zenon DEF Calm, KeptInv, Open
    <3>2. ASSUME NEW i \in Entries PROVE EntryKept(i)'
      <4>1. EntryKept(i) /\ Rendered(i, txn.payload)' = Rendered(i, txn.payload)
        BY <1>0, <3>1, Zenon DEF EntriesKept, Rendered
      <4>2. root'.backups[i] = root.backups[i] /\ (i \notin root.discard => i \notin root'.discard)
        BY <1>1, <2>4, Zenon
      <4> QED
        BY <1>0, <4>1, <4>2, Zenon DEF EntryKept
    <3> QED
      BY <1>0, <2>6, <3>1, <3>2, Zenon DEF EntriesKept
  <2> QED
    BY <2>5, <2>6, Zenon
<1>3. CompleteInv'
  BY <1>0, <1>1, SameContent, Zenon DEF Calm, CompleteInv, PastValidation
<1>4. RootInv'
  <2>1. root # FreshRoot
    <3>1. FreshRoot.discard = {} /\ FreshRoot.staged = Missing /\ FreshRoot.discarded = FALSE
      BY Zenon DEF FreshRoot
    <3> QED
      BY <3>1, RootsAre, Zenon DEF CleanupOther, OthersRemain
  <2> QED
    BY <1>0, <1>1, <2>1, SMTT(60) DEF Calm, RootInv, Writing, NoJournal
<1>5. LocalInv' /\ BlockedInv'
  BY <1>0, Zenon DEF LocalInv, BlockedInv
<1> QED
  BY <1>2, <1>3, <1>4, <1>5, Zenon DEF Calm

\* The cleanup removes the snapshots from the first on.
LEMMA CleanupJournalCalm == ASSUME IInv, AInv, Calm, CleanupJournal PROVE Calm'
<1>0. /\ pc = "cleanup" /\ pc' = "cleanup" /\ output' = output /\ txn' = txn /\ ~failed' /\ outcome' = "none"
      /\ root \in Roots /\ root.exists /\ ~OthersRemain
  BY ZenonT(60) DEF CleanupJournal, IInv, DiskType, PointInv, AInv, CallInv, Calm, LocalInv
<1>1. PICK s \in Sequences : /\ \A t \in Sequences : t < s => root.journal[t] = "none"
                             /\ root' = [root EXCEPT !.journal[s] = "none"]
  BY Zenon DEF CleanupJournal
<1>2. /\ root'.exists = TRUE /\ root'.discard = root.discard /\ root'.backups = root.backups
      /\ root'.previous = root.previous /\ root'.staged = root.staged /\ root'.discarded = root.discarded
      /\ root'.journal[s] = "none" /\ \A t \in Sequences : t # s => root'.journal[t] = root.journal[t]
      /\ root' \in Roots
  BY <1>0, <1>1, ZenonT(60) DEF Roots
<1>3. /\ root'.journal[3] \in {root.journal[3], "none"}
      /\ root'.journal[2] = "Mutating" => root.journal[2] = "Mutating" /\ root'.journal[3] = root.journal[3]
  BY <1>1, <1>2, SMTT(60)
<1>4. KeptInv'
  <2>1. SUFFICES ASSUME SaysUndecided' PROVE IF txn.mode = "Swap" THEN SwapKept' ELSE EntriesKept'
    BY <1>0, Zenon DEF KeptInv, Open, Writing
  <2>2. SaysUndecided
    BY <1>0, <1>3, <2>1, SMTT(60) DEF SaysUndecided, Calm, RootInv
  <2> QED
    BY <1>0, <1>2, <2>2, SameFiles, Zenon DEF Calm, KeptInv, Open
<1>5. CompleteInv'
  BY <1>0, <1>3, SameContent, SMTT(60) DEF Calm, CompleteInv, PastValidation
<1>6. RootInv'
  <2>1. ASSUME root'.journal = NoJournal PROVE root' = FreshRoot
    BY <1>0, <1>2, <2>1, SMTT(60) DEF OthersRemain, NoBackups, FreshRoot, Roots
  <2>2. root'.journal[2] # "Mutating" \/ root'.journal[3] \in {"RollingBack", "Committed"}
    BY <1>0, <1>3, SMTT(60) DEF Calm, RootInv
  <2>3. FreshRoot' = FreshRoot /\ NoJournal' = NoJournal
    BY Zenon DEF FreshRoot, NoJournal
  <2> QED
    BY <1>0, <2>1, <2>2, <2>3, Zenon DEF RootInv, Writing
<1>7. LocalInv' /\ BlockedInv'
  BY <1>0, Zenon DEF LocalInv, BlockedInv
<1> QED
  BY <1>4, <1>5, <1>6, <1>7, Zenon DEF Calm

\* The cleanup removes the root, and the call returns.
LEMMA CleanupRootCalm == ASSUME IInv, AInv, Calm, CleanupRoot PROVE Calm'
<1>0. /\ pc = "cleanup" /\ root' = NoRoot /\ output' = output /\ txn' = txn /\ ~failed /\ outcome = "none"
  BY ZenonT(60) DEF CleanupRoot, AInv, CallInv, Calm, LocalInv
<1>1. pc' \in {"recover", "idle"} /\ ~failed' /\ outcome' # "recoveryFailed"
  BY <1>0, ZenonT(60) DEF CleanupRoot, Continue, Stop, AInv, CallInv
<1>2. ~root'.exists /\ root'.journal[3] = "none"
  BY <1>0, RootsAre, SMTT(60) DEF NoJournal
<1>3. KeptInv' /\ CompleteInv' /\ RootInv'
  BY <1>1, <1>2, SMTT(60) DEF KeptInv, Open, SaysUndecided, Writing, CompleteInv, PastValidation, RootInv
<1>4. LocalInv' /\ BlockedInv'
  BY <1>1, Zenon DEF LocalInv, BlockedInv
<1> QED
  BY <1>3, <1>4, Zenon DEF Calm

\* A new export begins over whatever an earlier one left.
LEMMA BeginCalm == ASSUME IInv, AInv, Calm, Begin PROVE Calm'
<1>0. /\ pc = "idle" /\ pc' = "recover" /\ root' = root /\ txn' = txn /\ ~failed /\ failed' = failed
      /\ outcome' = "none" /\ store' = store
  BY Zenon DEF Begin, Unlocked, Calm, LocalInv
<1>1. CASE output = Missing
  BY <1>0, <1>1, FilledCalm, Zenon DEF Begin
<1>2. CASE output # Missing
  <2>1. output' = output /\ UNCHANGED disk
    BY <1>0, <1>2, Zenon DEF Begin, disk
  <2>2. KeptInv'
    BY <1>0, <2>1, SameKept, Zenon DEF Calm, KeptInv, Open, Writing
  <2>3. CompleteInv'
    BY <1>0, <2>1, SameContent, Zenon DEF Calm, CompleteInv, PastValidation
  <2>4. RootInv'
    BY <1>0, SMTT(60) DEF Calm, RootInv, Writing, FreshRoot, NoJournal
  <2>5. LocalInv' /\ BlockedInv'
    BY <1>0, Zenon DEF LocalInv, BlockedInv
  <2> QED
    BY <2>2, <2>3, <2>4, <2>5, Zenon DEF Calm
<1> QED
  BY <1>1, <1>2, Zenon

\* Another process creates the output directory before it has the lock.
LEMMA PrepareCalm == ASSUME IInv, AInv, Calm, PrepareByOther PROVE Calm'
  BY FilledCalm, Zenon DEF PrepareByOther, AInv, CallInv

\* Failing operations and edits are counted, and the counts never go down.
LEMMA Disturbing ==
  ASSUME IInv, Next, Undisturbed' PROVE Undisturbed /\ ~Fault /\ ~Edit
<1>0. spent \in Counters /\ spent.faults \in Nat /\ spent.edits \in Nat
  BY Zenon DEF IInv, ControlType, Counters
<1>1. ~Fault
  BY <1>0, SMTT(60) DEF Fault, Spend, Undisturbed, Counters
<1>2. ~Edit
  <2>1. Edit => spent'.edits = spent.edits + 1
    BY <1>0 DEF Edit, Counters
  <2> QED
    BY <1>0, <2>1, SMTT(60) DEF Undisturbed
<1>3. CASE Begin
  BY <1>0, <1>1, <1>2, <1>3 DEF Begin, Spend, Undisturbed, Counters
<1>4. CASE Crash
  BY <1>0, <1>1, <1>2, <1>4, SMTT(60) DEF Crash, Spend, Undisturbed, Counters
<1>5. CASE Exporter \/ PrepareByOther
  <2>1. spent' = spent
    BY <1>5, ZenonT(60) DEF Exporter, Recover, RecoverNothing, RecoverUnknown, RecoverUnstarted, RecoverMutating,
         RecoverRollingBack, RecoverCommitted, Plan, CreateSnapshot, WriteSnapshot, Stage, Commit,
         ValidateBeforeMutation, Backup, Install, SwapOut, SwapCheck, SwapIn, ValidateCommitted, SyncOutput,
         FinalizeCommitted, Rollback, RollbackReplaced, Restore, RollbackOriginal, RollbackCreated,
         RollbackEntriesDone, RollbackSwap, Reinstate, SyncRestored, Cleanup, CleanupOther, CleanupJournal,
         CleanupRoot, PrepareByOther
  <2> QED
    BY <1>1, <1>2, <2>1, Zenon DEF Undisturbed
<1> QED
  BY <1>1, <1>2, <1>3, <1>4, <1>5, Zenon DEF Next

\* Every step preserves the invariant, or spends an edit or a fault.
LEMMA RecoveryStep == ASSUME IInv, AInv, BInv, [Next]_vars PROVE BInv'
<1>1. CASE UNCHANGED vars
  <2>1. UNCHANGED disk /\ Undisturbed' = Undisturbed /\ pc' = pc /\ store' = store /\ at' = at
        /\ failed' = failed /\ outcome' = outcome /\ root' = root /\ output' = output /\ txn' = txn
    BY <1>1, Zenon DEF vars, disk, Undisturbed
  <2>2. Calm => Calm'
    <3>1. KeptInv => KeptInv'
      BY <2>1, SameKept, Zenon DEF KeptInv, Open, Writing
    <3>2. CompleteInv => CompleteInv'
      BY <2>1, SameContent, Zenon DEF CompleteInv, PastValidation
    <3>3. RootInv => RootInv'
      BY <2>1, SameStaged, ZenonT(60) DEF RootInv, Writing, FreshRoot, NoJournal
    <3>4. LocalInv => LocalInv'
      BY <2>1, SameKept, Zenon DEF LocalInv, EmptyDirectory
    <3>5. BlockedInv => BlockedInv'
      BY <2>1, SameKept, Zenon DEF BlockedInv
    <3> QED
      BY <3>1, <3>2, <3>3, <3>4, <3>5, Zenon DEF Calm
  <2> QED
    BY <2>1, <2>2, Zenon DEF BInv
<1>2. CASE Next
  <2>1. SUFFICES ASSUME Undisturbed' PROVE Calm'
    BY Zenon DEF BInv
  <2>2. Calm /\ ~Fault /\ ~Edit
    BY <1>2, <2>1, Disturbing, Zenon DEF BInv
  <2>3. CASE Begin \/ Crash \/ PrepareByOther
    BY <2>2, <2>3, BeginCalm, EndCalm, PrepareCalm, Zenon
  <2>4. CASE Recover \/ Plan \/ CreateSnapshot \/ WriteSnapshot \/ Stage
    BY <2>2, <2>4, RecoverCalm, PlanCalm, CreateCalm, WriteCalm, StageCalm, Zenon
  <2>5. CASE Commit
    BY <2>2, <2>5, LookCalm, BackupCalm, InstallCalm, SwapCalm, EndCalm, Zenon DEF Commit
  <2>6. CASE Rollback
    BY <2>2, <2>6, RollbackReplacedCalm, RestoreCalm, RollbackOriginalCalm, RollbackCreatedCalm,
       RollbackEntriesDoneCalm, RollbackSwapCalm, ReinstateCalm, EndCalm, Zenon DEF Rollback
  <2>7. CASE Cleanup
    BY <2>2, <2>7, CleanupOtherCalm, CleanupJournalCalm, CleanupRootCalm, Zenon DEF Cleanup
  <2> QED
    BY <1>2, <2>2, <2>3, <2>4, <2>5, <2>6, <2>7, Zenon DEF Next, Exporter
<1> QED
  BY <1>1, <1>2, Zenon

(***************************************************************************)
(* Recovery is blocked only by what the journal cannot tell apart: however *)
(* many exports are interrupted, and wherever, a recovery without failing  *)
(* operations and foreign edits gives up only over a torn snapshot, an     *)
(* original with the bytes of its replacement, or an output directory that *)
(* came back after a rollback had retracted it (recovery.rs).              *)
(***************************************************************************)
THEOREM RecoveryBlockedOnlyByAmbiguity == Spec => []BlockedOnlyByAmbiguity
<1>1. Init => IInv /\ AInv /\ BInv
  <2>1. Init => Calm
    <3> SUFFICES ASSUME Init PROVE Calm
      BY Zenon
    <3>1. pc = "idle" /\ ~failed /\ outcome = "none" /\ ~root.exists /\ root.journal[3] = "none"
      BY RootsAre DEF Init, NoJournal
    <3> QED
      BY <3>1 DEF Calm, KeptInv, Open, SaysUndecided, Writing, CompleteInv, PastValidation, RootInv, LocalInv,
                  BlockedInv
  <2> QED
    BY <2>1, Initial, AtomicInitial, Zenon DEF BInv
<1>2. IInv /\ AInv /\ BInv /\ [Next]_vars => (IInv /\ AInv /\ BInv)'
  BY NextStep, NextAtomic, RecoveryStep, Zenon
<1>3. BInv => BlockedOnlyByAmbiguity
  BY Zenon DEF BInv, Calm, BlockedInv, BlockedOnlyByAmbiguity
<1> QED
  BY <1>1, <1>2, <1>3, PTL DEF Spec
=============================================================================
