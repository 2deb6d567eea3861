------------------------- MODULE ExportAtomicProofs -------------------------
(***************************************************************************)
(* ExportTransaction implements AtomicExport for any number of artifacts,  *)
(* exports, crashes, failing operations and foreign edits.                 *)
(***************************************************************************)
EXTENDS ExportTransactionProofs

\* What the journal has when a rollback would undo the transaction.
SaysUndecided ==
    /\ root.exists
    /\ \/ root.journal[3] = "RollingBack"
       \/ root.journal[3] \in {"none", "torn"} /\ root.journal[2] = "Mutating"

\* No artifact stands where nothing was before, from entry k on.
NoneInstalled(k) ==
    txn.mode = "Entries" =>
        \A i \in Entries : i > k /\ ~txn.existed[i] => ~PathMatchesEntry(output, i)

\* The running export has passed its commit point, as its locals tell.
Committing == ~recovering /\ (pc = "finalize" \/ (pc = "cleanup" /\ verdict = "success"))

\* What the plan fixes for the whole transaction.
PlanInv ==
    /\ \A i \in Entries : txn.dest[i][1] = i
    /\ \A i \in Entries : root.backups[i] # Absent => txn.existed[i]
    /\ txn.policy # "Replace" => \A i \in Entries : ~txn.existed[i]

\* What the exporter's locals say where it is.
CallInv ==
    /\ pc # "idle" => outcome = "none" /\ request \in [policy : Policies, payload : Payloads]
    /\ recovering => \/ pc \in {"recover", "finalize", "cleanup"} \cup RollingBack
                     \/ Writing({"RollingBack"})
    /\ pc = "recover" => recovering
    /\ ~recovering /\ pc \notin {"idle", "plan"} =>
          txn.policy = request.policy /\ txn.payload = request.payload
    /\ ~recovering /\ (pc \in RollingBack \/ Writing({"RollingBack"})) => verdict = "restored"
    /\ ~recovering /\ pc = "cleanup" =>
          /\ verdict \in {"unchanged", "restored", "success"}
          /\ root.journal[3] = "Committed" => verdict = "success"

\* What the two loops have done, and that the staged set is whole.
CommitInv ==
    /\ pc = "backup" => \A i \in Entries : i < at /\ txn.existed[i] => root.backups[i] # Absent
    /\ pc = "install" => \A i \in Entries : txn.existed[i] => root.backups[i] # Absent
    /\ pc \in {"ready", "backup"} \/ Writing({"Prepared", "Mutating"}) => root.staged = StagedOutput
    /\ pc = "install" =>
          \A i \in Entries : i >= at => root.staged[txn.dest[i]] = Rendered(i, txn.payload)
    /\ txn.mode = "Swap" /\ (pc \in {"swapIn", "validate", "sync"} \/ Writing({"Committed"})) =>
          root.previous = EmptyDirectory

\* Where undecided content is what a reader sees.
RetractInv ==
    /\ Writing({"Mutating"}) \/ pc = "resync" \/ (pc = "cleanup" /\ Undecided) => NoneInstalled(0)
    /\ pc \in {"rollback", "restore"} /\ ~failed => NoneInstalled(at)

\* The directory that the validation saw.
Validated ==
    [n \in Names |->
        IF \E i \in Entries : txn.dest[i] = n
        THEN Rendered(CHOOSE i \in Entries : txn.dest[i] = n, txn.payload)
        ELSE IF txn.mode = "Swap" THEN Absent ELSE output[n]]
LateEdits == {n \in Names : output[n] # Validated[n]}
EditedContent == {Absent} \cup [kind : Kinds, bytes : {Edited}]

LateInv ==
    PastValidation =>
        /\ output # Missing
        /\ LateEdits \subseteq spent.late
        /\ \A n \in LateEdits : output[n] \in EditedContent

AInv == PlanInv /\ CallInv /\ CommitInv /\ RetractInv /\ LateInv

USE ExportAssumption DEF Entries, Sequences, Phases, Points, Policy, Kinds, Mutating, RollingBack,
                         NumberOf

\* Two entries never share a destination, so a destination names its entry.
LEMMA Destined ==
  ASSUME DiskType, PlanInv, NEW i \in Entries
  PROVE  /\ txn.dest[i] \in Names /\ txn.existed[i] \in BOOLEAN
         /\ \A j \in Entries : txn.dest[j] = txn.dest[i] => j = i
         /\ (CHOOSE j \in Entries : txn.dest[j] = txn.dest[i]) = i
<1>1. txn.dest[i] \in Names /\ txn.existed[i] \in BOOLEAN
  BY Zenon DEF DiskType, Transactions
<1>2. \A j \in Entries : txn.dest[j] = txn.dest[i] => j = i
  BY Zenon DEF PlanInv
<1> QED
  BY <1>1, <1>2, Zenon

\* The journal says Mutating or RollingBack.
LEMMA UndecidedIs ==
  ASSUME DiskType, DiskInv
  PROVE  Undecided <=> SaysUndecided
<1>1. \/ root.journal[3] \in {"none", "torn"}
      \/ root.journal[3] = "RollingBack"
      \/ root.journal[3] = "Committed"
  BY Zenon DEF DiskInv
<1>2. root.journal[2] \in {"none", "torn"} \/ root.journal[2] = "Mutating"
  BY Zenon DEF DiskInv
<1> QED
  BY <1>1, <1>2, Latest, ZenonT(60) DEF Undecided, SaysUndecided

\* Who has passed the commit point.
LEMMA CommitIs ==
  ASSUME IInv, CallInv
  PROVE  PastCommit <=> Committing
<1>1. root.exists /\ LatestPhase = "Committed" <=> root.journal[3] = "Committed"
  <2>1. root.journal[3] = "Committed" => root.exists
    BY RootsAre, SMTT(60) DEF IInv, DiskInv, NoJournal
  <2> QED
    BY <2>1, Latest, ZenonT(60) DEF IInv, DiskInv
<1>2. root.journal[3] = "Committed" => pc \in {"idle", "recover", "finalize", "cleanup"}
  BY RootsAre, SMTT(60) DEF IInv, ControlType, Stores, PointInv, NothingFrom, Writing, NoJournal
<1> QED
  BY <1>1, <1>2, Zenon DEF PastCommit, Committing, CallInv, IInv, PointInv

\* A reader of any output sees a directory, an absent one as an empty one.
LEMMA ListingType ==
  ASSUME NEW d \in Folders PROVE Listing(d) \in Directory
  BY ZenonT(60) DEF Listing, Folders, EmptyDirectory, Directory

\* Once the outcome is decided a reader sees the output itself.
LEMMA ViewDecided == ASSUME ~Undecided PROVE LogicalView = Listing(output)
  BY Zenon DEF LogicalView

\* Before a swap is decided a reader sees the directory that was there.
LEMMA ViewSwap ==
  ASSUME txn.mode = "Swap", Undecided
  PROVE  LogicalView = Listing(IF root.previous # Missing THEN root.previous ELSE output)
  BY Zenon DEF LogicalView

\* Before the entries are decided a reader sees each one as recovery leaves it.
LEMMA ViewEntries ==
  ASSUME IInv, PlanInv, Undecided, txn.mode = "Entries"
  PROVE  /\ \A i \in Entries : LogicalView[txn.dest[i]] = EntryView(i)
         /\ \A n \in Names : (\A i \in Entries : txn.dest[i] # n) => LogicalView[n] = Listing(output)[n]
         /\ LogicalView \in Directory
<1>0. DiskType /\ root \in Roots /\ output \in Folders
  BY Zenon DEF IInv, DiskType
<1>1. LogicalView = [n \in Names |-> IF \E i \in Entries : txn.dest[i] = n
                                     THEN EntryView(CHOOSE i \in Entries : txn.dest[i] = n)
                                     ELSE Listing(output)[n]]
  BY Zenon DEF LogicalView
<1>2. ASSUME NEW i \in Entries PROVE LogicalView[txn.dest[i]] = EntryView(i)
  BY <1>0, <1>1, Destined, Zenon
<1>3. ASSUME NEW n \in Names, \A i \in Entries : txn.dest[i] # n PROVE LogicalView[n] = Listing(output)[n]
  BY <1>1, <1>3, Zenon
<1>4. ASSUME NEW i \in Entries PROVE EntryView(i) \in Content \cup {Absent}
  BY <1>0, ListingType, Destined, SMTT(60) DEF EntryView, Roots, Held1, Directory
<1>5. ASSUME NEW n \in Names PROVE LogicalView[n] \in Content \cup {Absent}
  <2>1. CASE \E i \in Entries : txn.dest[i] = n
    BY <1>2, <1>4, <2>1, ZenonT(40)
  <2>2. CASE \A i \in Entries : txn.dest[i] # n
    BY <1>0, <1>3, <2>2, ListingType, ZenonT(60) DEF Directory
  <2> QED
    BY <2>1, <2>2, Zenon
<1>6. LogicalView \in Directory
  BY <1>1, <1>5, Zenon DEF Directory
<1> QED
  BY <1>2, <1>3, <1>6, Zenon

\* What a reader sees is a directory.
LEMMA ViewType == ASSUME IInv, PlanInv PROVE LogicalView \in Directory
<1>1. output \in Folders /\ root.previous \in Folders /\ txn.mode \in {"Swap", "Entries"}
  BY ZenonT(60) DEF IInv, DiskType, Roots, Transactions
<1>2. Listing(output) \in Directory /\ Listing(root.previous) \in Directory
  BY <1>1, ListingType, ZenonT(60)
<1> QED
  BY <1>1, <1>2, ViewDecided, ViewSwap, ViewEntries, ZenonT(60)

\* Where nothing is retained and nothing installed, a reader sees the output.
LEMMA ViewIsOutput ==
  ASSUME IInv, PlanInv, ~Retains, NoneInstalled(0) PROVE LogicalView = Listing(output)
<1>1. CASE txn.mode = "Entries" /\ Undecided
  <2>1. ASSUME NEW i \in Entries PROVE EntryView(i) = Listing(output)[txn.dest[i]]
    BY <1>1, SMTT(60) DEF EntryView, Retains, NoBackups, NoneInstalled
  <2>2. LogicalView \in Directory /\ Listing(output) \in Directory
    BY <1>1, ViewEntries, ListingType, Zenon DEF IInv, DiskType
  <2>3. ASSUME NEW n \in Names PROVE LogicalView[n] = Listing(output)[n]
    BY <1>1, <2>1, ViewEntries, SMTT(60)
  <2> QED
    BY <2>2, <2>3 DEF Directory
<1> QED
  BY <1>1, ViewDecided, ViewSwap, ZenonT(60) DEF Retains, IInv, DiskType, Transactions

\* The initial states satisfy the invariant.
LEMMA AtomicInitial == ASSUME Init PROVE AInv
<1>1. PlanInv
  BY RootsAre, ZenonT(60) DEF Init, PlanInv, NoBackups
<1> QED
  BY <1>1, Zenon DEF Init, AInv, CallInv, CommitInv, RetractInv, LateInv, PastValidation, Writing

\* A step that keeps the plan and takes no backup.
LEMMA PlanKept ==
  ASSUME PlanInv, txn' = txn, \A i \in Entries : root'.backups[i] \in {root.backups[i], Absent}
  PROVE  PlanInv'
  BY Zenon DEF PlanInv

\* A return leaves no locals to speak of.
LEMMA Stopped == ASSUME PlanInv', NEW r, Stop(r) PROVE AInv'
  BY Zenon DEF Stop, AInv, CallInv, CommitInv, RetractInv, LateInv, PastValidation, Writing

\* A step that leaves the disk alone.
LEMMA Untouched ==
  ASSUME UNCHANGED disk
  PROVE  /\ PlanInv => PlanInv'
         /\ Undecided' = Undecided /\ \A k \in Nat : NoneInstalled(k)' = NoneInstalled(k)
<1>1. output' = output /\ root' = root /\ txn' = txn
  BY Zenon DEF disk
<1>2. Undecided' = Undecided
  BY <1>1 DEF Undecided, LatestPhase, LatestSequence, ValidSequences
<1>3. ASSUME NEW k \in Nat PROVE NoneInstalled(k)' = NoneInstalled(k)
  BY <1>1, Zenon DEF NoneInstalled, PathMatchesEntry, Validates
<1> QED
  BY <1>1, <1>2, <1>3, PlanKept, Zenon

\* The exporter starts to clean up.
LEMMA Cleaned ==
  ASSUME CallInv, pc # "idle", PlanInv', NEW r, CleanThen(r), Undecided' => NoneInstalled(0)', txn' = txn,
         ~recovering => /\ pc \notin {"plan"} /\ r \in {"unchanged", "restored", "success"}
                        /\ root'.journal[3] = "Committed" => r = "success"
  PROVE  AInv'
<1>1. CallInv'
  BY Zenon DEF CleanThen, CallInv, Writing
<1> QED
  BY <1>1, Zenon DEF CleanThen, AInv, CommitInv, RetractInv, LateInv, PastValidation, Writing

\* A failing mutation.
LEMMA FailedMutation ==
  ASSUME AInv, UNCHANGED disk, pc \in Mutating, MutationFailed PROVE AInv'
<1>1. CallInv' /\ PlanInv'
  BY Untouched, Zenon DEF MutationFailed, AInv, CallInv, Writing, disk
<1> QED
  BY <1>1 DEF MutationFailed, AInv, CommitInv, RetractInv, LateInv, PastValidation, Writing

\* A snapshot that could not be persisted.
LEMMA FailedPersist ==
  ASSUME IInv, AInv, Writing(Phases), PersistFailed, PlanInv', txn' = txn,
         Undecided' => Undecided \/ NoneInstalled(0)',
         root'.journal[3] # "Committed" \/ store.target = "Committed"
  PROVE  AInv'
<1>1. \/ CleanThen("unchanged") /\ store.target \in {"Staging", "Prepared", "Mutating"}
      \/ \E result : Stop(result)
  BY ZenonT(60) DEF PersistFailed, IInv, ControlType, Stores
<1>2. CASE CleanThen("unchanged") /\ store.target \in {"Staging", "Prepared", "Mutating"}
  <2>1. ~Undecided
    BY <1>2, UndecidedIs, SMTT(60) DEF SaysUndecided, IInv, PointInv, NothingFrom, Writing
  <2> QED
    BY <1>2, <2>1, Cleaned, ZenonT(60) DEF AInv, CallInv, Writing
<1> QED
  BY <1>1, <1>2, Stopped, Zenon

\* The staged set holds the rendered entry at its destination.
LEMMA StagedAt ==
  ASSUME DiskType, PlanInv, NEW i \in Entries PROVE StagedOutput[txn.dest[i]] = Rendered(i, txn.payload)
  BY Destined, Zenon DEF StagedOutput

\* The plan alone determines the staged set.
LEMMA SameStaged == ASSUME txn' = txn PROVE StagedOutput' = StagedOutput
  BY Zenon DEF StagedOutput, Rendered

\* A step that leaves the output alone.
LEMMA SameNone ==
  ASSUME output' = output, txn' = txn PROVE \A k : NoneInstalled(k)' = NoneInstalled(k)
  BY Zenon DEF NoneInstalled, PathMatchesEntry, Validates, Rendered

\* A step that leaves the output alone makes no late edit.
LEMMA SameLate ==
  ASSUME output' = output, txn' = txn, spent' = spent, PastValidation' => PastValidation, LateInv
  PROVE  LateInv'
<1>1. Validated' = Validated
  BY Zenon DEF Validated, Rendered
<1>2. LateEdits' = LateEdits
  BY <1>1, Zenon DEF LateEdits
<1> QED
  BY <1>2, Zenon DEF LateInv

\* What the validation has seen is what it expects.
LEMMA NothingLate == ASSUME DiskType, PlanInv, OutputsComplete PROVE LateEdits = {} /\ output # Missing
<1>1. output # Missing /\ \A i \in Entries : output[txn.dest[i]] = Rendered(i, txn.payload)
  <2>1. 1 \in Entries
    OBVIOUS
  <2> QED
    BY <2>1, Zenon DEF OutputsComplete, OutputMatchesCompleteSet, PathMatchesEntry, Validates
<1>2. ASSUME NEW n \in Names PROVE output[n] = Validated[n]
  <2>1. CASE \E i \in Entries : txn.dest[i] = n
    <3>1. PICK i \in Entries : txn.dest[i] = n
      BY <2>1, Zenon
    <3>2. Validated[n] = Rendered(i, txn.payload)
      BY <3>1, Destined, Zenon DEF Validated
    <3> QED
      BY <1>1, <3>1, <3>2, Zenon
  <2>2. CASE ~\E i \in Entries : txn.dest[i] = n
    <3>1. Validated[n] = IF txn.mode = "Swap" THEN Absent ELSE output[n]
      BY <2>2, Zenon DEF Validated
    <3>2. txn.mode = "Swap" => output[n] = Absent
      BY <2>2, SMTT(60) DEF OutputsComplete, OutputMatchesCompleteSet
    <3> QED
      BY <3>1, <3>2, Zenon
  <2> QED
    BY <2>1, <2>2, Zenon
<1> QED
  BY <1>1, <1>2 DEF LateEdits

\* One entry is rolled back, or its failure is collected.
LEMMA RolledBack ==
  ASSUME IInv, AInv, pc \in {"rollback", "restore"}, at \in Entries, txn.mode = "Entries", txn' = txn,
         \A i \in Entries : root'.backups[i] \in {root.backups[i], Absent},
         \A i \in Entries : i > at =>
           \/ output' # Missing /\ output # Missing /\ output'[txn.dest[i]] = output[txn.dest[i]]
           \/ output' = output,
         NEW fails, RollbackNext(fails),
         fails \/ txn.existed[at] \/ output' = Missing \/ output'[txn.dest[at]] # Rendered(at, txn.payload)
  PROVE  AInv'
<1>1. PlanInv' /\ CallInv'
  BY PlanKept, Zenon DEF RollbackNext, AInv, CallInv, Writing
<1>2. ~failed' => ~failed /\ ~fails
  BY Zenon DEF RollbackNext
<1>3. ~failed => NoneInstalled(at)
  BY Zenon DEF AInv, RetractInv
<1>4. ASSUME ~failed', NEW i \in Entries, i > at - 1, ~txn.existed[i] PROVE ~PathMatchesEntry(output, i)'
  <2>1. CASE i = at
    BY <1>2, <1>4, <2>1, Zenon DEF PathMatchesEntry, Validates, Rendered
  <2>2. CASE i > at
    <3>1. ~PathMatchesEntry(output, i)
      BY <1>2, <1>3, <1>4, <2>2, Zenon DEF NoneInstalled
    <3> QED
      BY <2>2, <3>1, Zenon DEF PathMatchesEntry, Validates, Rendered
  <2> QED
    BY <1>4, <2>1, <2>2, SMTT(60)
<1>5. RetractInv'
  BY <1>4, Zenon DEF RollbackNext, RetractInv, NoneInstalled, Writing
<1> QED
  BY <1>1, <1>5, Zenon DEF RollbackNext, AInv, CommitInv, LateInv, PastValidation, Writing

\* The content that someone else writes is no artifact.
LEMMA EditedIsForeign ==
  ASSUME DiskType, NEW c \in EditedContent, NEW i \in Entries
  PROVE  c # Rendered(i, txn.payload) /\ c \in Content \cup {Absent}
<1>1. txn.payload # Edited /\ Rendered(i, txn.payload).bytes = txn.payload /\ Rendered(i, txn.payload) \in Content
  BY ZenonT(60) DEF DiskType, Transactions, Rendered, Content
<1> QED
  BY <1>1, ZenonT(60) DEF EditedContent, Content

\* Someone else's edit changes one name of the output, to content of its own.
LEMMA EditIs ==
  ASSUME IInv, Edit
  PROVE  \E n \in Names, c \in EditedContent :
            /\ output' = [output EXCEPT ![n] = c] /\ output \in Directory /\ output # Missing
            /\ output' \in Directory /\ output' # Missing /\ output'[n] = c
            /\ \A m \in Names : m # n => output'[m] = output[m]
            /\ spent'.late = IF PastValidation THEN spent.late \cup {n} ELSE spent.late
<1>1. PICK n \in Names, c \in EditedContent :
            /\ output' = [output EXCEPT ![n] = c]
            /\ spent' = [spent EXCEPT !.edits = @ + 1,
                                      !.late = IF PastValidation THEN @ \cup {n} ELSE @]
  BY Zenon DEF Edit, EditedContent
<1>2. output \in Directory /\ output # Missing /\ DiskType
  BY Zenon DEF Edit, IInv, DiskType, Folders
<1>3. c \in Content \cup {Absent}
  BY <1>2, EditedIsForeign, 1 \in Entries, ZenonT(60)
<1>4. output' \in Directory /\ output'[n] = c /\ \A m \in Names : m # n => output'[m] = output[m]
  BY <1>1, <1>2, <1>3, ZenonT(60) DEF Directory
<1>5. spent'.late = IF PastValidation THEN spent.late \cup {n} ELSE spent.late
  <2> DEFINE q == [spent EXCEPT !.edits = spent.edits + 1]
  <2>1. spent \in Counters /\ spent.edits + 1 \in Nat
    BY CountersAre, ZenonT(60) DEF IInv, ControlType
  <2>2. q \in Counters
    BY <2>1, Counting, Zenon
  <2>3. spent' = [q EXCEPT !.late = IF PastValidation THEN spent.late \cup {n} ELSE spent.late]
    BY <1>1, Zenon
  <2> HIDE DEF q
  <2> QED
    BY <2>2, <2>3, ZenonT(60) DEF Counters
<1> QED
  BY <1>1, <1>2, <1>4, <1>5, Zenon

\* Every step preserves the invariant.
LEMMA NextAtomic == ASSUME IInv, AInv, [Next]_vars PROVE AInv'
<1>1. CASE Begin
  <2> USE <1>1
  <2>1. PlanInv'
    BY PlanKept, Zenon DEF Begin, AInv
  <2>2. CallInv'
    BY SMTT(60) DEF Begin, AInv, CallInv, Writing
  <2> QED
    BY <2>1, <2>2, Zenon DEF Begin, AInv, CommitInv, RetractInv, LateInv, PastValidation, Writing
<1>2. CASE Recover
  <2> USE <1>2
  <2>0. pc = "recover" /\ recovering /\ UNCHANGED disk /\ PlanInv' /\ DiskType /\ DiskInv /\ CallInv
    BY Untouched, Zenon DEF Recover, RecoverNothing, RecoverUnknown, RecoverUnstarted, RecoverMutating,
       RecoverRollingBack, RecoverCommitted, AInv, CallInv, IInv
  <2>1. CASE RecoverNothing
    <3>1. CallInv'
      BY <2>0, <2>1, Zenon DEF RecoverNothing, CallInv, Writing
    <3> QED
      BY <2>0, <2>1, <3>1, ZenonT(60) DEF RecoverNothing, AInv, CommitInv, RetractInv, LateInv, PastValidation, Writing
  <2>4. CASE RecoverMutating
    <3>1. pc' = "create" /\ store'.target = "RollingBack" /\ UNCHANGED <<recovering, request, outcome>>
      BY <2>4, Zenon DEF RecoverMutating
    <3>2. CallInv'
      BY <2>0, <3>1, Zenon DEF CallInv, Writing
    <3> QED
      BY <2>0, <3>1, <3>2, Zenon DEF AInv, CommitInv, RetractInv, LateInv, PastValidation, Writing
  <2>5. CASE RecoverCommitted
    <3>1. CallInv'
      BY <2>0, <2>5, Zenon DEF RecoverCommitted, Continue, CallInv, Writing
    <3> QED
      BY <2>0, <2>5, <3>1, Zenon DEF RecoverCommitted, Continue, AInv, CommitInv, RetractInv, LateInv, PastValidation, Writing
  <2>2. CASE RecoverUnknown \/ RecoverUnstarted
    <3>1. ~Undecided
      BY <2>2, Zenon DEF RecoverUnknown, RecoverUnstarted, Undecided
    <3> QED
      BY <2>0, <2>2, <3>1, Untouched, Stopped, Cleaned, SMTT(60) DEF RecoverUnknown, RecoverUnstarted, disk
  <2>3. CASE RecoverRollingBack
    <3>1. CallInv'
      BY <2>0, <2>3, Zenon DEF RecoverRollingBack, CallInv, Writing
    <3>2. RetractInv'
      BY <2>3, SMTT(60) DEF RecoverRollingBack, RetractInv, NoneInstalled, Writing
    <3> QED
      BY <2>0, <2>3, <3>1, <3>2, Zenon DEF RecoverRollingBack, AInv, CommitInv, LateInv, PastValidation, Writing
  <2> QED
    BY <2>1, <2>2, <2>3, <2>4, <2>5, Zenon DEF Recover
<1>3. CASE Plan
  <2> USE <1>3
  <2>1. CASE Stop("unchanged") /\ UNCHANGED <<root, txn>>
    BY <2>1, PlanKept, Stopped, Zenon DEF AInv
  <2>2. CASE output # Missing /\ \A i \in Entries : Resolvable(i)
    <3>0. /\ txn' = PlannedTransaction /\ root' = FreshRoot /\ pc' = "create" /\ pc = "plan"
          /\ store' = [target |-> "Staging", next |-> 0]
          /\ UNCHANGED <<at, recovering, failed, request, verdict, outcome, output>>
      BY <2>2, ZenonT(60) DEF Plan
    <3>1. /\ txn'.policy = request.policy /\ txn'.payload = request.payload
          /\ \A i \in Entries : txn'.dest[i] = ResolveDestination(i)
          /\ \A i \in Entries : txn'.existed[i] = (output[ResolveDestination(i)] # Absent)
      BY <3>0, Zenon DEF PlannedTransaction
    <3>2. ASSUME NEW i \in Entries PROVE txn'.dest[i][1] = i
      BY <2>2, <3>1, Planned
    <3>3. ASSUME NEW i \in Entries, request.policy # "Replace" PROVE ~txn'.existed[i]
      <4>1. CASE request.policy = "Uniquify"
        <5>1. \E s \in 0..MaxSuffix : FirstFree(i, s) /\ ResolveDestination(i) = <<i, s>>
          BY <2>2, <4>1, Zenon DEF Resolvable, ResolveDestination
        <5> QED
          BY <3>1, <5>1, Zenon DEF FirstFree
      <4>2. CASE request.policy = "Fail"
        BY <2>2, <3>1, <4>2, ZenonT(60) DEF Resolvable, ResolveDestination
      <4> QED
        BY <3>3, <4>1, <4>2, ZenonT(60) DEF IInv, ControlType, Requests
    <3>4. PlanInv'
      BY <3>0, <3>1, <3>2, <3>3, RootsAre, SMTT(60) DEF PlanInv, NoBackups
    <3>5. CallInv'
      BY <3>0, <3>1, Zenon DEF AInv, CallInv, Writing
    <3> QED
      BY <3>0, <3>4, <3>5, Zenon DEF AInv, CommitInv, RetractInv, LateInv, PastValidation, Writing
  <2> QED
    BY <2>1, <2>2, Zenon DEF Plan
<1>4. CASE CreateSnapshot
  <2> USE <1>4
  <2>0. Writing(Phases) /\ output' = output /\ txn' = txn /\ spent' = spent
    BY Zenon DEF CreateSnapshot, Writing, IInv, ControlType, Stores
  <2>1. CASE root.journal[store.next] = "none"
    <3>1. root'.backups = root.backups /\ root'.staged = root.staged /\ root'.previous = root.previous
      BY <2>0, <2>1, Journalled, Zenon DEF CreateSnapshot
    <3>2. pc = "create" /\ pc' = "write" /\ UNCHANGED <<at, store, recovering, failed, request, verdict, outcome>>
      BY <2>1, Zenon DEF CreateSnapshot, Continue
    <3>3. PlanInv' /\ CallInv'
      BY <2>0, <3>1, <3>2, PlanKept, Zenon DEF AInv, CallInv, Writing
    <3>4. CommitInv'
      BY <2>0, <3>1, <3>2, SameStaged, Zenon DEF AInv, CommitInv, Writing, EmptyDirectory
    <3>5. RetractInv' /\ LateInv'
      BY <2>0, <3>2, SameNone, SameLate, Zenon DEF AInv, RetractInv, Writing, PastValidation
    <3> QED
      BY <3>3, <3>4, <3>5, Zenon DEF AInv
  <2>2. CASE PersistFailed /\ UNCHANGED root
    <3>1. UNCHANGED disk
      BY <2>0, <2>2, Zenon DEF disk
    <3>2. root'.journal[3] # "Committed"
      BY <2>0, <2>2, SMTT(60) DEF IInv, ControlType, Stores, PointInv, Writing, NothingFrom
    <3> QED
      BY <2>0, <2>2, <3>1, <3>2, Untouched, FailedPersist, SMTT(60) DEF AInv
  <2> QED
    BY <2>1, <2>2, Zenon DEF CreateSnapshot
<1>5. CASE WriteSnapshot
  <2> USE <1>5
  <2>0. Writing(Phases) /\ output' = output /\ txn' = txn /\ spent' = spent /\ pc = "write"
    BY Zenon DEF WriteSnapshot, Writing, IInv, ControlType, Stores
  <2>1. root'.backups = root.backups /\ root'.staged = root.staged /\ root'.previous = root.previous
        /\ store.target \in Phases
    BY <2>0, Journalled, Zenon DEF WriteSnapshot
  <2>2. /\ pc' = AfterPersist /\ at' = (IF store.target = "RollingBack" THEN N ELSE 1)
        /\ UNCHANGED <<recovering, request, verdict, outcome>>
    BY Zenon DEF WriteSnapshot
  <2>3. PlanInv'
    BY <2>0, <2>1, PlanKept, Zenon DEF AInv
  <2>4. CallInv'
    BY <2>0, <2>1, <2>2, ZenonT(60) DEF AfterPersist, AInv, CallInv, Writing
  <2>5. CommitInv'
    BY <2>0, <2>1, <2>2, SameStaged, SMTT(60) DEF AfterPersist, AInv, CommitInv, Writing
  <2>6. RetractInv'
    BY <2>0, <2>1, <2>2, SMTT(60) DEF AfterPersist, RetractInv, NoneInstalled, Writing
  <2>7. LateInv'
    BY <2>0, <2>1, <2>2, ZenonT(60) DEF AfterPersist, LateInv, PastValidation
  <2> QED
    BY <2>3, <2>4, <2>5, <2>6, <2>7, Zenon DEF AInv
<1>6. CASE Stage
  <2> USE <1>6
  <2>1. root'.staged = StagedOutput /\ root'.backups = root.backups
    BY Zenon DEF Stage, IInv, DiskType, Roots
  <2>2. pc = "stage" /\ pc' = "create" /\ store'.target = "Prepared" /\ txn' = txn
        /\ UNCHANGED <<recovering, request, verdict, outcome>>
    BY ZenonT(60) DEF Stage, Persist, IInv, ControlType, Stores
  <2>3. PlanInv' /\ CallInv'
    BY <2>1, <2>2, PlanKept, ZenonT(60) DEF AInv, CallInv, Writing
  <2>4. CommitInv'
    BY <2>1, <2>2, SameStaged, Zenon DEF CommitInv, Writing
  <2> QED
    BY <2>2, <2>3, <2>4, Zenon DEF AInv, RetractInv, LateInv, PastValidation, Writing
<1>7. CASE ValidateBeforeMutation
  <2> USE <1>7
  <2>0. pc = "ready" /\ UNCHANGED disk /\ output' = output /\ txn' = txn /\ root' = root /\ PlanInv' /\ ~recovering
    BY Untouched, Zenon DEF ValidateBeforeMutation, disk, AInv, CallInv, Writing
  <2>1. CASE CleanThen("unchanged")
    <3>1. ~Undecided /\ root'.journal[3] # "Committed"
      BY <2>0, UndecidedIs, SMTT(60) DEF SaysUndecided, IInv, PointInv, NothingFrom
    <3> QED
      BY <2>0, <2>1, <3>1, Untouched, Cleaned, SMTT(60) DEF AInv
  <2>2. CASE Persist("Mutating") /\ \A i \in Entries : DestinationUnchanged(i)
    <3>1. pc' = "create" /\ store'.target = "Mutating" /\ UNCHANGED <<recovering, request, verdict, outcome>>
      BY <2>2, Zenon DEF Persist, IInv, ControlType, Stores
    <3>2. NoneInstalled(0)
      BY <2>2, Matching, ZenonT(60) DEF NoneInstalled, DestinationUnchanged, IInv
    <3>3. CallInv' /\ CommitInv'
      BY <2>0, <3>1, SameStaged, ZenonT(60) DEF AInv, CallInv, CommitInv, Writing
    <3>4. RetractInv'
      BY <2>0, <3>1, <3>2, SameNone, Zenon DEF RetractInv, Writing
    <3> QED
      BY <2>0, <3>1, <3>3, <3>4, Zenon DEF AInv, LateInv, PastValidation
  <2> QED
    BY <2>1, <2>2, Zenon DEF ValidateBeforeMutation
<1>8. CASE Backup
  <2> USE <1>8
  <2>0. /\ at \in Entries /\ txn.mode = "Entries" /\ root \in Roots /\ pc = "backup" /\ txn \in Transactions
        /\ DiskType /\ txn' = txn /\ PlanInv /\ CallInv /\ CommitInv
    BY Zenon DEF Backup, IInv, DiskType, LoopInv, AInv
  <2>1. CASE MutationFailed /\ UNCHANGED <<output, root>>
    BY <2>0, <2>1, FailedMutation, Zenon DEF disk
  <2>2. CASE /\ NextEntry("backup", "install")
             /\ txn.existed[at] => root'.backups[at] # Absent
             /\ root'.staged = root.staged
             /\ \A i \in Entries : root'.backups[i] # root.backups[i] => txn.existed[i] /\ root'.backups[i] # Absent
    <3>1. PlanInv'
      BY <2>0, <2>2, ZenonT(60) DEF PlanInv
    <3>2. CallInv'
      BY <2>0, <2>2, ZenonT(60) DEF NextEntry, CallInv, Writing
    <3>3. \A i \in Entries : root'.staged[txn.dest[i]] = Rendered(i, txn.payload)
      BY <2>0, <2>2, StagedAt, ZenonT(60) DEF CommitInv
    <3>4. \A i \in Entries : i <= at /\ txn.existed[i] => root'.backups[i] # Absent
      BY <2>0, <2>2, SMTT(60) DEF CommitInv
    <3>5. \/ pc' = "backup" /\ at' = at + 1 /\ at # N
          \/ pc' = "install" /\ at' = 1 /\ at = N
      BY <2>2, ZenonT(60) DEF NextEntry
    <3>6. CommitInv'
      <4>1. CASE pc' = "backup"
        BY <2>0, <2>2, <3>4, <3>5, <4>1, SameStaged, SMTT(60) DEF CommitInv, Writing
      <4>2. CASE pc' = "install"
        <5>1. \A i \in Entries : txn.existed[i] => root'.backups[i] # Absent
          BY <3>4, <3>5, <4>2, SMTT(60)
        <5> QED
          BY <2>0, <3>3, <4>2, <5>1, Zenon DEF CommitInv, Writing, Rendered
      <4> QED
        BY <3>5, <4>1, <4>2, Zenon
    <3> QED
      BY <3>1, <3>2, <3>5, <3>6, Zenon DEF AInv, RetractInv, LateInv, PastValidation, Writing
  <2>3. CASE /\ txn.existed[at] /\ DestinationExists(at) /\ NextEntry("backup", "install")
             /\ root' = [root EXCEPT !.backups[at] = output[txn.dest[at]]]
    <3>1. /\ root'.staged = root.staged /\ root'.backups = [root.backups EXCEPT ![at] = output[txn.dest[at]]]
      BY <2>0, <2>3, Zenon DEF Roots
    <3>2. root'.backups[at] # Absent /\ \A i \in Entries : i # at => root'.backups[i] = root.backups[i]
      BY <2>0, <2>3, <3>1, ZenonT(40) DEF Roots, DestinationExists
    <3> QED
      BY <2>0, <2>2, <2>3, <3>1, <3>2, ZenonT(60)
  <2> QED
    BY <2>1, <2>2, <2>3, ZenonT(60) DEF Backup
<1>9. CASE Install
  <2> USE <1>9
  <2>0. /\ at \in Entries /\ txn.mode = "Entries" /\ root \in Roots /\ pc = "install" /\ txn' = txn
        /\ DiskType /\ root.staged \in Directory /\ PlanInv /\ CallInv /\ CommitInv
    BY Zenon DEF Install, IInv, DiskType, LoopInv, PointInv, AInv
  <2>1. CASE MutationFailed /\ UNCHANGED <<output, root>>
    BY <2>0, <2>1, FailedMutation, Zenon DEF Install, disk
  <2>2. CASE /\ NextEntry("install", "validate")
             /\ root' = root \/ root' = [root EXCEPT !.staged[txn.dest[at]] = Absent]
    <3>1. root'.backups = root.backups
      BY <2>0, <2>2, ZenonT(60) DEF Roots
    <3>2. ASSUME NEW n \in Names, n # txn.dest[at] PROVE root'.staged[n] = root.staged[n]
      BY <2>0, <2>2, <3>2, SMTT(60) DEF Roots, Directory
    <3>3. PlanInv'
      BY <2>0, <3>1, PlanKept, Zenon
    <3>4. CallInv'
      BY <2>0, <2>2, ZenonT(60) DEF NextEntry, CallInv, Writing
    <3>5. \A i \in Entries : i >= at + 1 => root'.staged[txn.dest[i]] = Rendered(i, txn.payload)
      <4>1. ASSUME NEW i \in Entries, i >= at + 1 PROVE root'.staged[txn.dest[i]] = Rendered(i, txn.payload)
        <5>1. i # at /\ i >= at
          BY <2>0, <4>1
        <5> QED
          BY <2>0, <3>2, <5>1, Destined, ZenonT(60) DEF CommitInv
      <4> QED
        BY <4>1, Zenon
    <3>6. (pc' = "install" /\ at' = at + 1) \/ pc' = "validate"
      BY <2>2, Zenon DEF NextEntry
    <3>7. CommitInv'
      BY <2>0, <3>1, <3>5, <3>6, ZenonT(40) DEF CommitInv, Writing, Rendered
    <3> QED
      BY <3>3, <3>4, <3>6, <3>7, Zenon DEF AInv, RetractInv, LateInv, PastValidation, Writing
  <2> QED
    BY <2>1, <2>2, Zenon DEF Install
<1>10. CASE SwapOut \/ SwapIn
  <2> USE <1>10
  <2>0. /\ root \in Roots /\ txn.mode = "Swap" /\ pc \in {"swapOut", "swapIn"} /\ txn' = txn
        /\ PlanInv /\ CallInv /\ CommitInv
    BY Zenon DEF SwapOut, SwapIn, IInv, DiskType, LoopInv, AInv
  <2>1. CASE MutationFailed /\ UNCHANGED <<output, root>>
    BY <2>0, <2>1, FailedMutation, Zenon DEF disk
  <2>2. CASE \/ SwapOut /\ root' = [root EXCEPT !.previous = output] /\ Continue("swapCheck")
             \/ SwapIn /\ root' = [root EXCEPT !.staged = Missing] /\ Continue("validate")
    <3>1. root'.backups = root.backups /\ (SwapIn => root'.previous = root.previous)
      BY <2>0, <2>2, ZenonT(60) DEF Roots, SwapOut, SwapIn
    <3>2. PlanInv' /\ CallInv'
      BY <2>0, <2>2, <3>1, PlanKept, SMTT(60) DEF Continue, CallInv, Writing
    <3>3. CommitInv'
      BY <2>0, <2>2, <3>1, Zenon DEF Continue, SwapOut, SwapIn, CommitInv, Writing, EmptyDirectory
    <3> QED
      BY <2>2, <3>2, <3>3, Zenon DEF Continue, AInv, RetractInv, LateInv, PastValidation, Writing
  <2> QED
    BY <2>0, <2>1, <2>2, ZenonT(60) DEF SwapOut, SwapIn
<1>11. CASE SwapCheck
  <2> USE <1>11
  <2>0. UNCHANGED disk /\ pc = "swapCheck" /\ PlanInv' /\ CallInv /\ root' = root /\ txn' = txn
    BY Untouched, Zenon DEF SwapCheck, AInv, disk
  <2>1. CASE Continue("swapIn") /\ root.previous = EmptyDirectory
    <3>1. CallInv' /\ CommitInv'
      BY <2>0, <2>1, Zenon DEF Continue, CallInv, CommitInv, Writing, EmptyDirectory
    <3> QED
      BY <2>0, <2>1, <3>1, Zenon DEF Continue, AInv, RetractInv, LateInv, PastValidation, Writing
  <2> QED
    BY <2>0, <2>1, FailedMutation, Zenon DEF SwapCheck, DirectoryIsEmpty
<1>12. CASE ValidateCommitted
  <2> USE <1>12
  <2>0. /\ UNCHANGED disk /\ pc = "validate" /\ PlanInv' /\ CallInv /\ CommitInv /\ PlanInv /\ DiskType
        /\ root' = root /\ txn' = txn /\ output' = output /\ spent' = spent
    BY Untouched, Zenon DEF ValidateCommitted, AInv, disk, IInv
  <2>1. CASE Continue("sync") /\ OutputsComplete
    <3>1. CallInv' /\ CommitInv'
      BY <2>0, <2>1, Zenon DEF Continue, CallInv, CommitInv, Writing, EmptyDirectory
    <3>2. LateEdits' = LateEdits
      BY <2>0, ZenonT(40) DEF LateEdits, Validated, Rendered
    <3>3. LateEdits = {} /\ output # Missing
      BY <2>0, <2>1, NothingLate, Zenon
    <3>4. LateInv'
      BY <2>0, <3>2, <3>3, Zenon DEF LateInv
    <3> QED
      BY <2>0, <2>1, <3>1, <3>4, Zenon DEF Continue, AInv, RetractInv, Writing
  <2> QED
    BY <2>0, <2>1, FailedMutation, Zenon DEF ValidateCommitted
<1>13. CASE SyncOutput
  <2> USE <1>13
  <2>0. /\ UNCHANGED disk /\ pc = "sync" /\ PlanInv' /\ CallInv /\ CommitInv /\ PlanInv /\ LateInv
        /\ root' = root /\ txn' = txn /\ output' = output /\ spent' = spent
    BY Untouched, Zenon DEF SyncOutput, AInv, disk
  <2>1. pc' = "create" /\ store'.target = "Committed" /\ UNCHANGED <<recovering, request, verdict, outcome>>
    BY Zenon DEF SyncOutput, Persist, IInv, ControlType, Stores
  <2>2. CallInv' /\ CommitInv'
    BY <2>0, <2>1, Zenon DEF CallInv, CommitInv, Writing, EmptyDirectory
  <2>3. LateInv'
    BY <2>0, SameLate, Zenon DEF PastValidation
  <2> QED
    BY <2>0, <2>1, <2>2, <2>3, Zenon DEF AInv, RetractInv, Writing
<1>14. CASE FinalizeCommitted
  <2> USE <1>14
  <2>0. UNCHANGED disk /\ pc = "finalize" /\ PlanInv' /\ CallInv /\ txn' = txn
    BY Untouched, Zenon DEF FinalizeCommitted, AInv, disk
  <2>1. ~Undecided
    BY <2>0, UndecidedIs, Zenon DEF SaysUndecided, IInv, PointInv
  <2> QED
    BY <2>0, <2>1, Untouched, Stopped, Cleaned, SMTT(60) DEF FinalizeCommitted
<1>15. CASE RollbackReplaced \/ RollbackCreated \/ RollbackOriginal
  <2> USE <1>15
  <2>0. /\ at \in Entries /\ root \in Roots /\ output \in Folders /\ DiskType
        /\ pc = "rollback" /\ txn.mode = "Entries" /\ txn' = txn /\ PlanInv /\ CallInv /\ RetractInv
    <3>1. at > 0 /\ pc = "rollback" /\ txn.mode = "Entries" /\ txn' = txn
      BY Zenon DEF RollbackReplaced, RollbackCreated, RollbackOriginal, disk
    <3> QED
      BY <3>1, SMTT(60) DEF IInv, DiskType, ControlType, AInv
  <2>1. \/ UNCHANGED <<output, root>>
        \/ MoveToDiscard /\ output # Missing
    BY Zenon DEF RollbackReplaced, RollbackCreated, RollbackOriginal, disk, PathMatchesEntry, Validates
  <2>2. root'.backups = root.backups
    BY <2>0, <2>1, Discarding, Zenon
  <2>3. \A i \in Entries : i > at =>
          \/ output' # Missing /\ output # Missing /\ output'[txn.dest[i]] = output[txn.dest[i]]
          \/ output' = output
    <3>1. CASE MoveToDiscard /\ output # Missing
      <4>1. output' \in Directory /\ \A n \in Names : n # txn.dest[at] => output'[n] = output[n]
        BY <2>0, <3>1, Discarding, Zenon
      <4>2. ASSUME NEW i \in Entries, i > at PROVE txn.dest[i] \in Names /\ txn.dest[i] # txn.dest[at]
        BY <2>0, <4>2, Destined, SMTT(60)
      <4> QED
        BY <3>1, <4>1, <4>2, Zenon
    <3> QED
      BY <2>1, <3>1, Zenon
  <2>4. CASE pc' = "rollback"
    <3>1. PICK fails : RollbackNext(fails) /\ 
                          (fails \/ txn.existed[at] \/ output' = Missing \/ output'[txn.dest[at]] # Rendered(at, txn.payload))
      <4>1. CASE RollbackCreated /\ ~DestinationExists(at) /\ UNCHANGED <<output, root>>
        <5>1. output' = Missing \/ output'[txn.dest[at]] # Rendered(at, txn.payload)
          BY <2>0, <4>1, Matching, Zenon DEF PathMatchesEntry, Validates
        <5> QED
          BY <2>4, <4>1, <5>1, Zenon DEF RollbackCreated, RollbackNext
      <4>2. CASE RollbackCreated /\ MoveToDiscard /\ output # Missing
        <5>1. output'[txn.dest[at]] = Absent
          BY <2>0, <4>2, Discarding, Zenon
        <5>2. Rendered(at, txn.payload) \in Content
          BY <2>0, Zenon DEF Rendered, Content, DiskType, Transactions
        <5>3. output'[txn.dest[at]] # Rendered(at, txn.payload)
          BY <5>1, <5>2, ZenonT(60)
        <5> QED
          BY <2>4, <4>2, <5>3, Zenon DEF RollbackCreated, RollbackNext
      <4>3. CASE RollbackCreated /\ RollbackNext(TRUE)
        BY <4>3, Zenon
      <4>4. CASE RollbackOriginal
        BY <4>4, Zenon DEF RollbackOriginal
      <4>5. CASE RollbackReplaced
        BY <2>4, <4>5, Zenon DEF RollbackReplaced, Continue, RollbackNext
      <4> QED
        BY <2>1, <4>1, <4>2, <4>3, <4>4, <4>5, Zenon DEF RollbackCreated, PathMatchesEntry
    <3> QED
      BY <2>0, <2>2, <2>3, <3>1, RolledBack, Zenon
  <2>5. CASE Continue("restore")
    <3>1. PlanInv' /\ CallInv'
      BY <2>0, <2>2, <2>5, PlanKept, Zenon DEF Continue, CallInv, Writing
    <3>2. NoneInstalled(at) => NoneInstalled(at)'
      BY <2>0, <2>3, <2>5, ZenonT(60) DEF Continue, NoneInstalled, PathMatchesEntry, Validates, Rendered
    <3>3. RetractInv'
      BY <2>0, <2>5, <3>2, Zenon DEF Continue, RetractInv, Writing
    <3> QED
      BY <2>5, <3>1, <3>3, Zenon DEF Continue, AInv, CommitInv, LateInv, PastValidation, Writing
  <2> QED
    BY <2>4, <2>5, Zenon DEF RollbackReplaced, RollbackCreated, RollbackOriginal, RollbackNext
<1>16. CASE Restore
  <2> USE <1>16
  <2>0. /\ at \in Entries /\ root \in Roots /\ txn.mode = "Entries" /\ txn' = txn /\ output \in Folders /\ pc = "restore"
        /\ DiskType /\ PlanInv
    BY Zenon DEF Restore, IInv, DiskType, LoopInv, AInv
  <2>1. txn.existed[at]
    BY <2>0, Zenon DEF IInv, LoopInv, PlanInv
  <2>2. CASE RollbackNext(TRUE) /\ UNCHANGED <<output, root>>
    BY <2>0, <2>1, <2>2, RolledBack, Zenon
  <2>3. CASE /\ output # Missing /\ RollbackNext(FALSE)
             /\ output' = [output EXCEPT ![txn.dest[at]] = root.backups[at]]
             /\ root' = [root EXCEPT !.backups[at] = Absent]
    <3>1. \A i \in Entries : root'.backups[i] \in {root.backups[i], Absent}
      BY <2>0, <2>3, ZenonT(60) DEF Roots, Held1
    <3>2. output \in Directory /\ txn.dest[at] \in Names /\ root.backups[at] \in Content \cup {Absent}
      BY <2>0, <2>3, ZenonT(40) DEF Folders, DiskType, Transactions, Roots, Held1
    <3>3. output' \in Directory /\ \A n \in Names : n # txn.dest[at] => output'[n] = output[n]
      BY <2>3, <3>2, Zenon DEF Directory
    <3>4. ASSUME NEW i \in Entries, i > at PROVE output'[txn.dest[i]] = output[txn.dest[i]]
      BY <2>0, <3>3, <3>4, Destined, SMTT(60)
    <3> QED
      BY <2>0, <2>1, <2>3, <3>1, <3>3, <3>4, RolledBack, ZenonT(60)
  <2> QED
    BY <2>2, <2>3, Zenon DEF Restore
<1>17. CASE RollbackEntriesDone
  <2> USE <1>17
  <2>0. UNCHANGED disk /\ pc = "rollback" /\ at = 0 /\ PlanInv' /\ CallInv /\ txn' = txn /\ output' = output
    BY Untouched, Zenon DEF RollbackEntriesDone, AInv, disk
  <2>1. CASE ~failed /\ Continue("resync")
    <3>1. NoneInstalled(0)
      BY <2>0, <2>1, Zenon DEF AInv, RetractInv
    <3>2. CallInv' /\ RetractInv'
      BY <2>0, <2>1, <3>1, SameNone, ZenonT(60) DEF Continue, CallInv, RetractInv, Writing
    <3> QED
      BY <2>0, <2>1, <3>2, Zenon DEF Continue, AInv, CommitInv, LateInv, PastValidation, Writing
  <2> QED
    BY <2>0, <2>1, Stopped, Zenon DEF RollbackEntriesDone, RecoveryFailed
<1>18. CASE RollbackSwap \/ Reinstate
  <2> USE <1>18
  <2>0. root \in Roots /\ txn.mode = "Swap" /\ pc \in {"rollback", "reinstate"} /\ txn' = txn /\ PlanInv /\ CallInv
    BY Zenon DEF RollbackSwap, Reinstate, IInv, DiskType, LoopInv, AInv
  <2>1. \/ root' = root
        \/ root' = [root EXCEPT !.discarded = TRUE]
        \/ root' = [root EXCEPT !.previous = Missing]
    BY Zenon DEF RollbackSwap, Reinstate
  <2>2. \/ Continue("reinstate") \/ Continue("resync") \/ \E result : Stop(result)
    BY Zenon DEF RollbackSwap, Reinstate, RecoveryFailed
  <2>3. root'.backups = root.backups
    BY <2>0, <2>1, Zenon DEF Roots
  <2>4. PlanInv'
    BY <2>0, <2>3, PlanKept, Zenon
  <2>5. CASE Continue("reinstate") \/ Continue("resync")
    <3>1. CallInv' /\ RetractInv'
      BY <2>0, <2>5, ZenonT(60) DEF Continue, CallInv, RetractInv, NoneInstalled, Writing
    <3> QED
      BY <2>0, <2>4, <2>5, <3>1, Zenon DEF Continue, AInv, CommitInv, LateInv, PastValidation, Writing
  <2> QED
    BY <2>2, <2>4, <2>5, Stopped, Zenon
<1>19. CASE SyncRestored
  <2> USE <1>19
  <2>0. /\ UNCHANGED disk /\ pc = "resync" /\ PlanInv' /\ CallInv /\ txn' = txn /\ output' = output /\ root' = root
        /\ NoneInstalled(0)
    BY Untouched, ZenonT(60) DEF SyncRestored, AInv, disk, RetractInv
  <2>1. root.journal[3] = "RollingBack"
    BY <2>0, Zenon DEF IInv, PointInv
  <2>2. ~recovering => verdict = "restored"
    BY <2>0, Zenon DEF CallInv
  <2> QED
    BY <2>0, <2>1, <2>2, SameNone, Cleaned, Zenon DEF SyncRestored
\* The snapshots go in the order in which they were written.
<1>20. CASE Cleanup
  <2> USE <1>20
  <2>0. /\ root \in Roots /\ pc = "cleanup" /\ output' = output /\ txn' = txn /\ PlanInv /\ CallInv
        /\ DiskType /\ DiskInv /\ RetractInv
    BY Zenon DEF Cleanup, CleanupOther, CleanupJournal, CleanupRoot, IInv, DiskType, AInv
  <2>1. CASE CleanupRoot
    <3>1. PlanInv'
      BY <2>0, <2>1, RootsAre, PlanKept, Zenon DEF CleanupRoot, NoBackups
    <3>2. CASE Continue("recover") /\ recovering
      <4>1. CallInv'
        BY <2>0, <3>2, Zenon DEF Continue, CallInv, Writing
      <4> QED
        BY <3>1, <3>2, <4>1, Zenon DEF Continue, AInv, CommitInv, RetractInv, LateInv, PastValidation, Writing
    <3> QED
      BY <2>1, <3>1, <3>2, Stopped, Zenon DEF CleanupRoot
  <2>2. CASE CleanupOther \/ CleanupJournal
    <3>1. UNCHANGED <<pc, at, store, recovering, failed, request, verdict, outcome>>
      BY <2>2, ZenonT(60) DEF CleanupOther, CleanupJournal
    <3>2. CASE CleanupOther
      <4>1. /\ root'.journal = root.journal /\ root'.exists = root.exists
            /\ \A i \in Entries : root'.backups[i] \in {root.backups[i], Absent}
        <5>1. \/ root' = [root EXCEPT !.backups = NoBackups]
              \/ root' = [root EXCEPT !.discard = {}]
              \/ root' = [root EXCEPT !.discarded = FALSE]
              \/ root' = [root EXCEPT !.previous = Missing]
              \/ root' = [root EXCEPT !.staged = Missing]
          BY <3>2, Zenon DEF CleanupOther
        <5>2. CASE root' = [root EXCEPT !.backups = NoBackups]
          BY <2>0, <5>2, Zenon DEF Roots, NoBackups
        <5>3. CASE root' = [root EXCEPT !.discard = {}]
          BY <2>0, <5>3, Zenon DEF Roots
        <5>4. CASE root' = [root EXCEPT !.discarded = FALSE]
          BY <2>0, <5>4, Zenon DEF Roots
        <5>5. CASE root' = [root EXCEPT !.previous = Missing]
          BY <2>0, <5>5, Zenon DEF Roots
        <5>6. CASE root' = [root EXCEPT !.staged = Missing]
          BY <2>0, <5>6, Zenon DEF Roots
        <5> QED
          BY <5>1, <5>2, <5>3, <5>4, <5>5, <5>6, Zenon
      <4>2. Undecided' = Undecided
        BY <4>1, SMTT(60) DEF Undecided, LatestPhase, LatestSequence, ValidSequences
      <4>3. PlanInv' /\ CallInv'
        BY <2>0, <3>1, <4>1, PlanKept, Zenon DEF CallInv, Writing
      <4>4. RetractInv'
        BY <2>0, <3>1, <4>2, SameNone, Zenon DEF RetractInv, Writing
      <4> QED
        BY <2>0, <3>1, <4>3, <4>4, ZenonT(60) DEF AInv, CommitInv, LateInv, PastValidation, Writing
    <3>3. CASE CleanupJournal
      <4>1. PICK s \in Sequences : /\ \A t \in Sequences : t < s => root.journal[t] = "none"
                                   /\ root' = [root EXCEPT !.journal[s] = "none"]
        BY <3>3, Zenon DEF CleanupJournal
      <4>2. /\ root'.journal = [root.journal EXCEPT ![s] = "none"] /\ root'.exists = root.exists
            /\ root'.backups = root.backups
        BY <2>0, <4>1, Zenon DEF Roots
      <4>3. IInv'
        BY NextStep, ZenonT(60)
      <4>4. Undecided' => Undecided
        <5>1. Undecided <=> /\ root.exists
                            /\ \/ root.journal[3] = "RollingBack"
                               \/ root.journal[3] \in {"none", "torn"} /\ root.journal[2] = "Mutating"
          BY <2>0, UndecidedIs, Zenon DEF SaysUndecided
        <5>2. Undecided' => SaysUndecided'
          <6>1. DiskType' /\ DiskInv'
            BY <4>3, Zenon DEF IInv
          <6> QED
            BY <6>1, UndecidedIs, PTL
        <5> QED
          BY <2>0, <4>1, <4>2, <5>1, <5>2, SMTT(60) DEF Roots, SaysUndecided
      <4>5. PlanInv' /\ CallInv'
        <5>1. \A i \in Entries : root'.backups[i] \in {root.backups[i], Absent}
          BY <2>0, <4>2, Zenon DEF Roots
        <5> QED
          BY <2>0, <3>1, <4>2, <5>1, PlanKept, SMTT(60) DEF CallInv, Writing
      <4>6. RetractInv'
        BY <2>0, <3>1, <4>4, SameNone, Zenon DEF RetractInv, Writing
      <4> QED
        BY <2>0, <3>1, <4>5, <4>6, Zenon DEF AInv, CommitInv, LateInv, PastValidation, Writing
    <3> QED
      BY <2>2, <3>2, <3>3, Zenon
  <2> QED
    BY <2>1, <2>2, Zenon DEF Cleanup
<1>21. CASE Fault
  <2> USE <1>21
  <2>0. PlanInv /\ CallInv /\ DiskType /\ DiskInv /\ root \in Roots /\ txn' = txn /\ output' = output
    BY Zenon DEF Fault, FaultBeforeMutation, FaultInPersist, FaultInMutation, FaultInRollback, FaultInCleanup,
       IInv, DiskType, AInv, disk
  <2>1. CASE FaultBeforeMutation /\ pc \in {"stage", "ready"}
    <3>1. root'.backups = root.backups /\ root'.journal = root.journal /\ root'.exists = root.exists
      BY <2>0, <2>1, ZenonT(60) DEF FaultBeforeMutation, Roots
    <3>2. ~Undecided /\ root'.journal[3] # "Committed"
      BY <2>0, <2>1, <3>1, UndecidedIs, SMTT(60) DEF SaysUndecided, IInv, PointInv, NothingFrom
    <3>3. Undecided' = Undecided
      BY <3>1, SMTT(60) DEF Undecided, LatestPhase, LatestSequence, ValidSequences
    <3> QED
      BY <2>0, <2>1, <3>1, <3>2, <3>3, PlanKept, Cleaned, Zenon DEF FaultBeforeMutation
  <2>2. CASE FaultBeforeMutation /\ pc = "plan"
    BY <2>0, <2>2, RootsAre, PlanKept, Stopped, ZenonT(60) DEF FaultBeforeMutation, NoBackups
  <2>3. CASE FaultBeforeMutation /\ pc = "recover"
    BY <2>0, <2>3, PlanKept, Stopped, Zenon DEF FaultBeforeMutation
  <2>4. CASE FaultInPersist
    <3>1. Writing(Phases) /\ PersistFailed
      BY <2>4, Zenon DEF FaultInPersist, Writing, IInv, ControlType, Stores
    <3>2. root.journal[3] # "Committed"
      BY <3>1, SMTT(60) DEF IInv, ControlType, Stores, PointInv, Writing, NothingFrom
    <3>3. CASE UNCHANGED root
      <4>1. UNCHANGED disk
        BY <2>0, <3>3, Zenon DEF disk
      <4> QED
        BY <2>0, <3>1, <3>2, <3>3, <4>1, Untouched, FailedPersist, SMTT(60)
    <3>4. CASE root' = [root EXCEPT !.journal[store.next] = store.target]
      <4>1. /\ store.next = NumberOf(store.target) /\ store.target \in Phases /\ root'.exists
            /\ root'.journal = [root.journal EXCEPT ![store.next] = store.target]
            /\ root'.backups = root.backups /\ DiskType' /\ DiskInv'
        BY <2>0, <3>1, <3>4, Journalled, Zenon
      <4>2. root'.journal[3] # "Committed" \/ store.target = "Committed"
        BY <2>0, <3>2, <4>1, SMTT(60) DEF Roots
      <4>3. Undecided' => SaysUndecided'
        BY <4>1, UndecidedIs, PTL
      <4>4. root.exists
        BY <3>1, Zenon DEF IInv, PointInv, Writing
      <4>5. Undecided' => Undecided \/ NoneInstalled(0)'
        <5>1. CASE store.target = "Mutating"
          <6>1. NoneInstalled(0)
            BY <3>1, <5>1, Zenon DEF AInv, RetractInv, Writing
          <6> QED
            BY <2>0, <6>1, SameNone, Zenon
        <5>2. CASE store.target = "RollingBack"
          BY <2>0, <3>1, <4>4, <5>2, UndecidedIs, SMTT(60) DEF SaysUndecided, IInv, PointInv, NothingFrom, Writing
        <5>3. CASE store.target \in {"Staging", "Prepared", "Committed"}
          BY <2>0, <4>1, <4>3, <4>4, <5>3, UndecidedIs, SMTT(60) DEF SaysUndecided, Roots
        <5> QED
          BY <4>1, <5>1, <5>2, <5>3, Zenon
      <4>6. PlanInv'
        BY <2>0, <4>1, PlanKept, Zenon
      <4> QED
        BY <2>0, <3>1, <4>2, <4>5, <4>6, FailedPersist, Zenon
    <3> QED
      BY <2>4, <3>3, <3>4, Zenon DEF FaultInPersist
  <2>5. CASE FaultInMutation
    <3>1. UNCHANGED disk /\ PlanInv'
      BY <2>0, <2>5, Untouched, Zenon DEF FaultInMutation
    <3> QED
      BY <2>5, <3>1, Stopped, FailedMutation, Zenon DEF FaultInMutation
  <2>6. CASE FaultInRollback
    <3>0. UNCHANGED disk /\ PlanInv' /\ root' = root
      BY <2>0, <2>6, Untouched, Zenon DEF FaultInRollback, disk
    <3>1. CASE RollbackNext(TRUE) /\ at > 0 /\ txn.mode = "Entries" /\ pc \in {"rollback", "restore"}
      <4>1. at \in Entries
        BY <3>1, SMTT(60) DEF IInv, ControlType
      <4> QED
        BY <2>0, <3>0, <3>1, <4>1, RolledBack, Zenon
    <3> QED
      BY <2>6, <3>0, <3>1, Stopped, Zenon DEF FaultInRollback, RecoveryFailed
  <2>7. CASE FaultInCleanup
    BY <2>0, <2>7, Untouched, Stopped, Zenon DEF FaultInCleanup
  <2> QED
    BY <2>1, <2>2, <2>3, <2>4, <2>5, <2>6, <2>7, Zenon DEF Fault, FaultBeforeMutation
<1>22. CASE Edit
  <2> USE <1>22
  <2>0. /\ UNCHANGED <<root, txn, pc, at, store, recovering, failed, request, verdict, outcome>>
        /\ DiskType /\ PlanInv /\ CallInv /\ CommitInv /\ RetractInv /\ LateInv
    BY Zenon DEF Edit, IInv, AInv
  <2>1. PICK n \in Names, c \in EditedContent :
              /\ output \in Directory /\ output # Missing
              /\ output' \in Directory /\ output' # Missing /\ output'[n] = c
              /\ \A m \in Names : m # n => output'[m] = output[m]
              /\ PastValidation => spent'.late = spent.late \cup {n}
    BY EditIs, ZenonT(60)
  <2>2. ASSUME NEW i \in Entries, PathMatchesEntry(output, i)' PROVE PathMatchesEntry(output, i)
    <3>1. txn.dest[i] \in Names /\ output'[txn.dest[i]] = Rendered(i, txn.payload)
      BY <2>0, <2>2, Destined, Zenon DEF PathMatchesEntry, Validates, Rendered
    <3>2. txn.dest[i] # n
      BY <2>0, <2>1, <3>1, EditedIsForeign, ZenonT(60)
    <3> QED
      BY <2>1, <3>1, <3>2, Zenon DEF PathMatchesEntry, Validates
  <2>3. \A k \in Nat : NoneInstalled(k) => NoneInstalled(k)'
    BY <2>0, <2>2, Zenon DEF NoneInstalled
  <2>4. Undecided' = Undecided
    BY <2>0, ZenonT(40) DEF Undecided, LatestPhase, LatestSequence, ValidSequences
  <2>5. PlanInv' /\ CallInv' /\ CommitInv'
    <3>1. PlanInv' /\ CallInv'
      BY <2>0, PlanKept, ZenonT(60) DEF CallInv, Writing
    <3> QED
      BY <2>0, <3>1, SameStaged, ZenonT(60) DEF CommitInv, Writing, EmptyDirectory, Rendered
  <2>6. RetractInv'
    BY <2>0, <2>3, <2>4, SMTT(60) DEF RetractInv, Writing, IInv, ControlType
  <2>7. LateInv'
    <3> SUFFICES ASSUME PastValidation PROVE LateInv'
      BY <2>0, Zenon DEF LateInv, PastValidation
    <3>1. LateEdits \subseteq spent.late /\ \A m \in LateEdits : output[m] \in EditedContent
      BY <2>0, Zenon DEF LateInv
    <3>2. ASSUME NEW m \in Names, m # n PROVE (output'[m] # Validated'[m]) <=> (output[m] # Validated[m])
      BY <2>0, <2>1, <3>2, ZenonT(60) DEF Validated, Rendered
    <3>3. LateEdits' \in SUBSET (LateEdits \cup {n})
      BY <3>2, Zenon DEF LateEdits
    <3>4. LateEdits' \subseteq spent'.late
      BY <2>1, <3>1, <3>3, ZenonT(60)
    <3>5. ASSUME NEW m \in LateEdits' PROVE output'[m] \in EditedContent
      <4>1. CASE m = n
        BY <2>1, <4>1, Zenon
      <4>2. CASE m # n
        <5>1. m \in LateEdits /\ m \in Names
          BY <3>3, <4>2, Zenon DEF LateEdits
        <5> QED
          BY <2>1, <3>1, <4>2, <5>1, Zenon
      <4> QED
        BY <4>1, <4>2, Zenon
    <3> QED
      BY <2>1, <3>4, <3>5, Zenon DEF LateInv, EditedContent
  <2> QED
    BY <2>5, <2>6, <2>7, Zenon DEF AInv
<1>23. CASE PrepareByOther
  <2> USE <1>23
  <2>0. /\ UNCHANGED <<root, txn, pc, at, store, recovering, failed, request, verdict, outcome, spent>>
        /\ output = Missing /\ output' = EmptyDirectory /\ DiskType
        /\ PlanInv /\ CallInv /\ CommitInv /\ RetractInv /\ LateInv
    BY Zenon DEF PrepareByOther, IInv, AInv
  <2>1. ASSUME NEW i \in Entries PROVE ~PathMatchesEntry(output, i)'
    <3>1. txn.dest[i] \in Names /\ Rendered(i, txn.payload) \in Content
      BY <2>0, Destined, ZenonT(60) DEF Rendered, Content, DiskType, Transactions
    <3> QED
      BY <2>0, <3>1, ZenonT(60) DEF PathMatchesEntry, Validates, EmptyDirectory, Rendered
  <2>2. Undecided' = Undecided
    BY <2>0, ZenonT(40) DEF Undecided, LatestPhase, LatestSequence, ValidSequences
  <2>3. PlanInv' /\ CallInv'
    BY <2>0, PlanKept, ZenonT(60) DEF CallInv, Writing
  <2>4. CommitInv'
    BY <2>0, SameStaged, ZenonT(60) DEF CommitInv, Writing, EmptyDirectory, Rendered
  <2>5. RetractInv'
    BY <2>0, <2>1, ZenonT(60) DEF RetractInv, NoneInstalled
  <2>6. LateInv'
    BY <2>0, ZenonT(60) DEF LateInv, PastValidation
  <2> QED
    BY <2>3, <2>4, <2>5, <2>6, Zenon DEF AInv
<1>24. CASE Crash
  BY <1>24, Untouched, Stopped, ZenonT(60) DEF Crash, AInv
<1>25. CASE UNCHANGED vars
  <2>1. /\ UNCHANGED <<output, root, txn, pc, at, store, recovering, failed, request, verdict, outcome, spent>>
        /\ UNCHANGED disk
    BY <1>25, Zenon DEF vars, disk
  <2>2. PlanInv' /\ CallInv' /\ CommitInv'
    <3>1. PlanInv' /\ CallInv'
      BY <2>1, PlanKept, ZenonT(60) DEF AInv, CallInv, Writing
    <3> QED
      BY <2>1, <3>1, SameStaged, ZenonT(60) DEF AInv, CommitInv, Writing, EmptyDirectory, Rendered
  <2>3. RetractInv'
    BY <2>1, Untouched, SameNone, SMTT(60) DEF AInv, RetractInv, Writing
  <2>4. LateInv'
    BY <2>1, SameLate, Zenon DEF AInv, PastValidation
  <2> QED
    BY <2>2, <2>3, <2>4, ZenonT(60) DEF AInv
<1> QED
    BY <1>1, <1>2, <1>3, <1>4, <1>5, <1>6, <1>7, <1>8, <1>9, <1>10, <1>11, <1>12, <1>13, <1>14,
     <1>15, <1>16, <1>17, <1>18, <1>19, <1>20, <1>21, <1>22, <1>23, <1>24, <1>25, Zenon DEF Next, Exporter,
     Commit, Rollback

=============================================================================
