------------------------- MODULE ExportRefinementProofs -------------------------
EXTENDS ExportAtomicProofs


USE ExportAssumption DEF Entries, Sequences, Phases, Points, Policy, Kinds, Mutating, RollingBack,
                         NumberOf

(***************************************************************************)
(* What a reader sees changes with an edit and with the Committed snapshot *)
(* only.                                                                   *)
(***************************************************************************)
LEMMA SameView ==
  ASSUME output' = output, txn' = txn, root'.backups = root.backups, root'.previous = root.previous,
         Undecided' = Undecided
  PROVE  LogicalView' = LogicalView
<1>1. \A i : EntryView(i)' = EntryView(i)
  BY SMTT(60) DEF EntryView, PathMatchesEntry, Validates, Rendered, Listing, EmptyDirectory
<1> QED
  BY <1>1, SMTT(60) DEF LogicalView, Listing, EmptyDirectory

\* Whether the outcome is decided is in the journal.
LEMMA SameUndecided ==
  ASSUME root'.exists = root.exists, root'.journal = root.journal PROVE Undecided' = Undecided
  BY SMTT(60) DEF Undecided, LatestPhase, LatestSequence, ValidSequences

\* A reader sees no step that leaves the disk alone.
LEMMA UntouchedView == ASSUME UNCHANGED disk PROVE LogicalView' = LogicalView
  BY Untouched, SameView, ZenonT(60) DEF disk

\* Someone creates the missing output directory.
LEMMA CreatedView ==
  ASSUME IInv, PlanInv, UNCHANGED <<root, txn>>, output' = IF output = Missing THEN EmptyDirectory ELSE output
  PROVE  LogicalView' = LogicalView
<1>1. CASE output # Missing
  BY <1>1, SameView, SameUndecided, Zenon
<1>2. CASE output = Missing /\ output' = EmptyDirectory
  <2>0. EmptyDirectory \in Directory /\ EmptyDirectory # Missing /\ Listing(output') = Listing(output)
    BY <1>2, ZenonT(60) DEF EmptyDirectory, Directory, Listing
  <2>1. ASSUME NEW i \in Entries PROVE EntryView(i)' = EntryView(i)
    <3>1. txn.dest[i] \in Names /\ Rendered(i, txn.payload) \in Content
      BY Destined, ZenonT(60) DEF Rendered, Content, IInv, DiskType, Transactions
    <3>2. ~PathMatchesEntry(output, i)' /\ ~PathMatchesEntry(output, i)
      BY <1>2, <3>1, SMTT(60) DEF PathMatchesEntry, Validates, EmptyDirectory, Rendered
    <3> QED
      BY <2>0, <3>2, Zenon DEF EntryView
  <2>2. Undecided' = Undecided
    BY SameUndecided, Zenon
  <2>3. ASSUME NEW n \in Names, \E i \in Entries : txn.dest[i] = n
        PROVE  EntryView(CHOOSE i \in Entries : txn.dest[i] = n)' = EntryView(CHOOSE i \in Entries : txn.dest[i] = n)
    BY <2>1, <2>3, ZenonT(60)
  <2>4. [n \in Names |-> IF \E i \in Entries : txn.dest[i] = n THEN EntryView(CHOOSE i \in Entries : txn.dest[i] = n)
                         ELSE Listing(output)[n]]'
        = [n \in Names |-> IF \E i \in Entries : txn.dest[i] = n THEN EntryView(CHOOSE i \in Entries : txn.dest[i] = n)
                           ELSE Listing(output)[n]]
    BY <2>0, <2>3, ZenonT(60)
  <2>5. Listing(IF root'.previous # Missing THEN root'.previous ELSE output')
        = Listing(IF root.previous # Missing THEN root.previous ELSE output)
    BY <2>0, Zenon
  <2> QED
    BY <2>0, <2>2, <2>4, <2>5, Zenon DEF LogicalView
<1> QED
  BY <1>1, <1>2, ZenonT(60)

\* The same entries are seen.
LEMMA EntriesView ==
  ASSUME IInv, PlanInv, IInv', PlanInv', txn.mode = "Entries", txn' = txn, Undecided, Undecided',
         \A i \in Entries : EntryView(i)' = EntryView(i),
         \A n \in Names : (\A i \in Entries : txn.dest[i] # n) => Listing(output')[n] = Listing(output)[n]
  PROVE  LogicalView' = LogicalView
<1>1. /\ \A i \in Entries : LogicalView[txn.dest[i]] = EntryView(i)
      /\ \A n \in Names : (\A i \in Entries : txn.dest[i] # n) => LogicalView[n] = Listing(output)[n]
      /\ LogicalView \in Directory
  BY ViewEntries, Zenon
<1>2. (/\ \A i \in Entries : LogicalView[txn.dest[i]] = EntryView(i)
       /\ \A n \in Names : (\A i \in Entries : txn.dest[i] # n) => LogicalView[n] = Listing(output)[n]
       /\ LogicalView \in Directory)'
  <2>1. (txn.mode = "Entries")'
    BY Zenon
  <2> QED
    BY <2>1, ViewEntries, PTL
<1>3. ASSUME NEW n \in Names PROVE LogicalView'[n] = LogicalView[n]
  <2>1. CASE \E i \in Entries : txn.dest[i] = n
    <3>1. PICK i \in Entries : txn.dest[i] = n
      BY <2>1, ZenonT(60)
    <3>2. LogicalView'[txn'.dest[i]] = EntryView(i)' /\ LogicalView[txn.dest[i]] = EntryView(i)
      BY <1>1, <1>2, ZenonT(60)
    <3> QED
      BY <3>1, <3>2, ZenonT(60)
  <2>2. CASE \A i \in Entries : txn.dest[i] # n
    BY <1>1, <1>2, <2>2, ZenonT(60)
  <2> QED
    BY <2>1, <2>2, ZenonT(60)
<1> QED
  BY <1>1, <1>2, <1>3, SMTT(60) DEF Directory

\* One entry's destination and its backup change.
LEMMA OneEntry ==
  ASSUME IInv, PlanInv, IInv', PlanInv', txn.mode = "Entries", txn' = txn, Undecided, Undecided',
         NEW k \in Entries, EntryView(k)' = EntryView(k),
         output # Missing, output' # Missing, \A n \in Names : n # txn.dest[k] => output'[n] = output[n],
         \A i \in Entries : i # k => root'.backups[i] = root.backups[i]
  PROVE  LogicalView' = LogicalView
<1>1. ASSUME NEW i \in Entries, i # k PROVE EntryView(i)' = EntryView(i)
  <2>1. txn.dest[i] \in Names /\ txn.dest[i] # txn.dest[k]
    BY <1>1, Destined, Zenon DEF IInv
  <2>2. output'[txn.dest[i]] = output[txn.dest[i]] /\ root'.backups[i] = root.backups[i]
    BY <1>1, <2>1, Zenon
  <2> QED
    BY <2>2, ZenonT(60) DEF EntryView, PathMatchesEntry, Validates, Rendered, Listing
<1>2. \A i \in Entries : EntryView(i)' = EntryView(i)
  BY <1>1, Zenon
<1>3. \A n \in Names : (\A i \in Entries : txn.dest[i] # n) => Listing(output')[n] = Listing(output)[n]
  BY ZenonT(60) DEF Listing
<1> QED
  BY <1>2, <1>3, EntriesView, Zenon

\* A reader does not see a backup: recovery would put it back.
LEMMA BackupView == ASSUME IInv, AInv, IInv', PlanInv', Backup PROVE LogicalView' = LogicalView
<1>0. /\ at \in Entries /\ txn.mode = "Entries" /\ root \in Roots /\ pc = "backup" /\ txn' = txn /\ PlanInv
      /\ DiskType /\ root.backups[at] = Absent /\ Undecided
  BY Explained, SMTT(60) DEF Backup, IInv, DiskType, LoopInv, AInv
<1>1. CASE UNCHANGED <<output, root>>
  BY <1>0, <1>1, SameView, SameUndecided, Zenon
<1>2. CASE /\ txn.existed[at] /\ DestinationExists(at)
           /\ root' = [root EXCEPT !.backups[at] = output[txn.dest[at]]]
           /\ output' = [output EXCEPT ![txn.dest[at]] = Absent]
  <2>1. output \in Directory /\ output # Missing /\ txn.dest[at] \in Names /\ output[txn.dest[at]] # Absent
    BY <1>0, <1>2, ZenonT(40) DEF DestinationExists, Folders, DiskType, Transactions
  <2>2. output' \in Directory /\ output' # Missing /\ \A n \in Names : n # txn.dest[at] => output'[n] = output[n]
    BY <1>2, <2>1, ZenonT(60) DEF Directory
  <2>3. /\ root'.exists = root.exists /\ root'.journal = root.journal /\ root'.backups[at] = output[txn.dest[at]]
        /\ \A i \in Entries : i # at => root'.backups[i] = root.backups[i]
    BY <1>0, <1>2, ZenonT(60) DEF Roots
  <2>4. EntryView(at) = output[txn.dest[at]]
    BY <1>0, <1>2, <2>1, Zenon DEF EntryView, Listing
  <2>5. ASSUME NEW k \in Entries, k = at PROVE EntryView(k)' = EntryView(k)
    BY <1>0, <2>1, <2>3, <2>4, <2>5, ZenonT(60) DEF EntryView
  <2> QED
    BY <1>0, <2>1, <2>2, <2>3, <2>5, OneEntry, SameUndecided, ZenonT(60)
<1> QED
  BY <1>1, <1>2, ZenonT(60) DEF Backup

\* A reader does not see an install: recovery would discard it.
LEMMA InstallView == ASSUME IInv, AInv, IInv', PlanInv', Install PROVE LogicalView' = LogicalView
<1>0. /\ at \in Entries /\ txn.mode = "Entries" /\ root \in Roots /\ pc = "install" /\ txn' = txn /\ PlanInv
      /\ DiskType /\ root.staged \in Directory /\ Undecided /\ CommitInv
  BY Explained, ZenonT(60) DEF Install, IInv, DiskType, LoopInv, PointInv, AInv
<1>1. CASE UNCHANGED <<output, root>>
  BY <1>0, <1>1, SameView, SameUndecided, Zenon
<1>2. CASE /\ output # Missing /\ ~DestinationExists(at)
           /\ root' = root \/ root' = [root EXCEPT !.staged[txn.dest[at]] = Absent]
           /\ output' = [output EXCEPT ![txn.dest[at]] = root.staged[txn.dest[at]]]
  <2>1. /\ output \in Directory /\ txn.dest[at] \in Names /\ output[txn.dest[at]] = Absent
        /\ root.staged[txn.dest[at]] = Rendered(at, txn.payload)
    <3>1. root.staged[txn.dest[at]] = Rendered(at, txn.payload)
      <4>1. \A i \in Entries : i >= at => root.staged[txn.dest[i]] = Rendered(i, txn.payload)
        BY <1>0, Zenon DEF CommitInv
      <4> QED
        BY <1>0, <4>1, SMTT(60)
    <3> QED
      BY <1>0, <1>2, <3>1, ZenonT(60) DEF DestinationExists, Folders, DiskType, Transactions
  <2>2. /\ output' \in Directory /\ output' # Missing /\ output'[txn.dest[at]] = Rendered(at, txn.payload)
        /\ \A n \in Names : n # txn.dest[at] => output'[n] = output[n]
    BY <1>0, <1>2, <2>1, SMTT(60) DEF Directory
  <2>3. root'.exists = root.exists /\ root'.journal = root.journal /\ root'.backups = root.backups
    BY <1>0, <1>2, ZenonT(60) DEF Roots
  <2>4. ASSUME NEW k \in Entries, k = at PROVE EntryView(k)' = EntryView(k)
    <3>1. CASE txn.existed[at]
      BY <1>0, <2>3, <2>4, <3>1, Zenon DEF EntryView, CommitInv
    <3>2. CASE ~txn.existed[at]
      <4>1. root.backups[at] = Absent /\ EntryView(at) = Absent
        BY <1>0, <1>2, <2>1, <3>2, Zenon DEF PlanInv, EntryView, Listing
      <4> QED
        BY <1>0, <2>2, <2>3, <2>4, <3>2, <4>1, Zenon DEF EntryView, PathMatchesEntry, Validates, Rendered
    <3> QED
      BY <3>1, <3>2, Zenon
  <2> QED
    BY <1>0, <1>2, <2>2, <2>3, <2>4, OneEntry, SameUndecided, ZenonT(60)
<1> QED
  BY <1>1, <1>2, Zenon DEF Install

\* A reader sees no step of a swap or of its rollback.
LEMMA SwapView ==
  ASSUME IInv, AInv, SwapOut \/ SwapIn \/ RollbackSwap \/ Reinstate PROVE LogicalView' = LogicalView
<1>0. /\ root \in Roots /\ txn.mode = "Swap" /\ txn' = txn /\ Undecided
      /\ pc \in {"swapOut", "swapIn", "rollback", "reinstate"} /\ CommitInv
  BY Explained, Zenon DEF SwapOut, SwapIn, RollbackSwap, Reinstate, IInv, DiskType, LoopInv, AInv
<1>1. CASE UNCHANGED <<output, root>>
  BY <1>0, <1>1, SameView, SameUndecided, Zenon
<1>2. CASE SwapOut /\ root' = [root EXCEPT !.previous = output] /\ output' = Missing
  <2>1. root'.exists = root.exists /\ root'.journal = root.journal /\ root'.previous = output /\ root.previous = Missing
    BY <1>0, <1>2, Zenon DEF Roots, SwapOut, IInv, LoopInv
  <2> QED
    BY <1>0, <1>2, <2>1, SameUndecided, Zenon DEF LogicalView, Listing, EmptyDirectory
<1>3. CASE SwapIn /\ root' = [root EXCEPT !.staged = Missing]
  <2>1. root'.exists = root.exists /\ root'.journal = root.journal /\ root'.previous = root.previous
    BY <1>0, <1>3, Zenon DEF Roots
  <2>2. root.previous # Missing
    <3>1. EmptyDirectory \in Directory
      BY Zenon DEF EmptyDirectory, Directory
    <3> QED
      BY <1>0, <1>3, <3>1, ZenonT(60) DEF SwapIn, CommitInv
  <2> QED
    BY <1>0, <2>1, <2>2, SameUndecided, Zenon DEF LogicalView, Listing, EmptyDirectory
<1>4. CASE RollbackSwap /\ root.previous # Missing /\ root' = [root EXCEPT !.discarded = TRUE]
  <2>1. root'.exists = root.exists /\ root'.journal = root.journal /\ root'.previous = root.previous
    BY <1>0, <1>4, Zenon DEF Roots
  <2> QED
    BY <1>0, <1>4, <2>1, SameUndecided, ZenonT(60) DEF LogicalView, Listing, EmptyDirectory
<1>5. CASE /\ Reinstate /\ CanRenameOver(output) /\ output' = root.previous
           /\ root' = [root EXCEPT !.previous = Missing]
  <2>1. root'.exists = root.exists /\ root'.journal = root.journal /\ root'.previous = Missing
    BY <1>0, <1>5, Zenon DEF Roots
  <2> QED
    BY <1>0, <1>5, <2>1, SameUndecided, ZenonT(60) DEF LogicalView, Listing, EmptyDirectory, CanRenameOver
<1> QED
  BY <1>1, <1>2, <1>3, <1>4, <1>5, ZenonT(60) DEF SwapOut, SwapIn, RollbackSwap, Reinstate

\* A reader does not see the rollback of an entry.
LEMMA RollbackEntryView ==
  ASSUME IInv, AInv, IInv', PlanInv', RollbackReplaced \/ RollbackCreated \/ RollbackOriginal
  PROVE  LogicalView' = LogicalView
<1>0. /\ at \in Entries /\ root \in Roots /\ DiskType /\ pc = "rollback" /\ txn.mode = "Entries" /\ txn' = txn
      /\ PlanInv /\ Undecided
  <2>1. at > 0 /\ pc = "rollback" /\ txn.mode = "Entries" /\ txn' = txn
    BY Zenon DEF RollbackReplaced, RollbackCreated, RollbackOriginal, disk
  <2> QED
    BY <2>1, Explained, SMTT(60) DEF IInv, DiskType, ControlType, AInv
<1>1. CASE UNCHANGED <<output, root>>
  BY <1>0, <1>1, SameView, SameUndecided, Zenon
<1>2. CASE MoveToDiscard /\ PathMatchesEntry(output, at) /\ (HasBackup \/ ~txn.existed[at])
  <2>1. output # Missing
    BY <1>2, Zenon DEF PathMatchesEntry
  <2>2. /\ output' \in Directory /\ output'[txn.dest[at]] = Absent
        /\ \A n \in Names : n # txn.dest[at] => output'[n] = output[n]
        /\ root'.exists = root.exists /\ root'.journal = root.journal /\ root'.backups = root.backups
    BY <1>0, <1>2, <2>1, Discarding, Zenon
  <2>3. Rendered(at, txn.payload) \in Content
    BY <1>0, ZenonT(60) DEF Rendered, Content, DiskType, Transactions
  <2>4. ASSUME NEW k \in Entries, k = at PROVE EntryView(k)' = EntryView(k)
    BY <1>0, <1>2, <2>1, <2>2, <2>3, <2>4, ZenonT(60) DEF EntryView, HasBackup, PathMatchesEntry, Validates, Rendered, Listing
  <2> QED
    BY <1>0, <2>1, <2>2, <2>4, OneEntry, SameUndecided, ZenonT(60)
<1> QED
  BY <1>1, <1>2, Zenon DEF RollbackReplaced, RollbackCreated, RollbackOriginal, disk

\* A reader does not see a backup go back.
LEMMA RestoreView == ASSUME IInv, AInv, IInv', PlanInv', Restore PROVE LogicalView' = LogicalView
<1>0. /\ at \in Entries /\ root \in Roots /\ txn.mode = "Entries" /\ txn' = txn /\ pc = "restore"
      /\ DiskType /\ PlanInv /\ Undecided /\ root.backups[at] # Absent
  BY Explained, Zenon DEF Restore, IInv, DiskType, LoopInv, AInv
<1>1. CASE UNCHANGED <<output, root>>
  BY <1>0, <1>1, SameView, SameUndecided, Zenon
<1>2. CASE /\ output # Missing
           /\ output' = [output EXCEPT ![txn.dest[at]] = root.backups[at]]
           /\ root' = [root EXCEPT !.backups[at] = Absent]
  <2>1. output \in Directory /\ txn.dest[at] \in Names /\ root.backups[at] \in Content \cup {Absent}
    BY <1>0, <1>2, ZenonT(40) DEF Folders, DiskType, Transactions, Roots, Held1
  <2>2. /\ output' \in Directory /\ output' # Missing /\ output'[txn.dest[at]] = root.backups[at]
        /\ \A n \in Names : n # txn.dest[at] => output'[n] = output[n]
    BY <1>2, <2>1, ZenonT(60) DEF Directory
  <2>3. /\ root'.exists = root.exists /\ root'.journal = root.journal /\ root'.backups[at] = Absent
        /\ \A i \in Entries : i # at => root'.backups[i] = root.backups[i]
    BY <1>0, <1>2, ZenonT(60) DEF Roots, Held1
  <2>4. ASSUME NEW k \in Entries, k = at PROVE EntryView(k)' = EntryView(k)
    BY <1>0, <2>2, <2>3, <2>4, Zenon DEF EntryView, Listing, PlanInv
  <2> QED
    BY <1>0, <1>2, <2>2, <2>3, <2>4, OneEntry, SameUndecided, ZenonT(60)
<1> QED
  BY <1>1, <1>2, Zenon DEF Restore

\* A snapshot other than the Committed one.
LEMMA JournalView ==
  ASSUME IInv, AInv, IInv', PlanInv', Writing(Phases), UNCHANGED <<output, txn>>,
         NEW p \in {"torn", store.target}, p # "Committed", root.journal[store.next] \in {"none", "torn"},
         root' = [root EXCEPT !.journal[store.next] = p]
  PROVE  LogicalView' = LogicalView
<1>1. /\ store.next = NumberOf(store.target) /\ store.target \in Phases /\ store.next \in Sequences
      /\ root'.journal = [root.journal EXCEPT ![store.next] = p]
      /\ root'.exists /\ root'.backups = root.backups /\ root'.previous = root.previous /\ Retains' = Retains
  BY Journalled, Zenon
<1>2. Undecided <=> SaysUndecided
  BY UndecidedIs, Zenon DEF IInv
<1>3. Undecided' <=> SaysUndecided'
  <2>1. DiskType' /\ DiskInv'
    BY Zenon DEF IInv
  <2> QED
    BY <2>1, UndecidedIs, PTL
<1>4. root.exists /\ root \in Roots /\ NothingFrom(store.next)
  BY Zenon DEF IInv, DiskType, PointInv, Writing
<1>5. CASE p = "Mutating" /\ store.target = "Mutating"
  <2>1. ~Undecided /\ ~Retains /\ NoneInstalled(0)
    BY <1>1, <1>2, <1>4, <1>5, SMTT(60) DEF SaysUndecided, AInv, RetractInv, Writing, IInv, PointInv, NothingFrom
  <2>2. ~Retains' /\ NoneInstalled(0)'
    BY <1>1, <2>1, SameNone, Zenon
  <2>3. (LogicalView = Listing(output))'
    BY <2>2, ViewIsOutput, PTL
  <2> QED
    BY <2>1, <2>3, ViewDecided, Zenon DEF Listing, EmptyDirectory
<1>6. CASE p # "Mutating"
  <2>1. store.target = "RollingBack" => root.journal[2] = "Mutating"
    BY ZenonT(60) DEF IInv, PointInv, Writing
  <2>2. SaysUndecided' <=> SaysUndecided
    <3>1. CASE store.next = 3
      BY <1>1, <1>4, <1>6, <2>1, <3>1, SMTT(60) DEF SaysUndecided, NothingFrom, Roots
    <3>2. CASE store.next # 3
      BY <1>1, <1>4, <1>6, <3>2, SMTT(60) DEF SaysUndecided, NothingFrom, Roots
    <3> QED
      BY <3>1, <3>2, Zenon
  <2>3. Undecided' = Undecided
    BY <1>2, <1>3, <2>2, Zenon DEF Undecided
  <2> QED
    BY <1>1, <2>3, SameView, Zenon
<1> QED
  BY <1>1, <1>5, <1>6, Zenon

\* Where the disk shows a reader what it holds.
Plain ==
    \/ ~Undecided
    \/ pc \in {"plan", "stage", "ready", "resync", "cleanup"}
    \/ Writing({"Staging", "Prepared", "Mutating"})

\* Where nothing is moved yet, or everything is back, a reader sees the output.
LEMMA PlainView == ASSUME IInv, AInv, Plain PROVE LogicalView = Listing(output)
<1>0. Undecided <=> SaysUndecided
  BY UndecidedIs, Zenon DEF IInv
<1>1. CASE ~Undecided
  BY <1>1, ViewDecided, Zenon
<1>2. CASE pc \in {"resync", "cleanup"} /\ Undecided
  <2>1. root.journal[3] # "Committed"
    BY <1>0, <1>2, Zenon DEF SaysUndecided
  <2>2. ~Retains /\ NoneInstalled(0)
    BY <1>2, <2>1, ZenonT(60) DEF IInv, PointInv, AInv, RetractInv
  <2> QED
    BY <2>2, ViewIsOutput, Zenon DEF AInv
<1>3. CASE pc \in {"plan", "stage", "ready"} \/ Writing({"Staging", "Prepared", "Mutating"})
  <2>1. ~SaysUndecided
    BY <1>3, RootsAre, SMTT(60) DEF SaysUndecided, IInv, PointInv, NothingFrom, Writing, NoJournal
  <2> QED
    BY <1>0, <1>1, <2>1, Zenon
<1> QED
  BY <1>1, <1>2, <1>3, Zenon DEF Plain

\* Between two such points.
LEMMA PlainStep ==
  ASSUME IInv, AInv, IInv', AInv', Plain, Plain', output' = output PROVE LogicalView' = LogicalView
<1>1. LogicalView = Listing(output)
  BY PlainView, Zenon
<1>2. (LogicalView = Listing(output))'
  BY PlainView, PTL
<1> QED
  BY <1>1, <1>2, Zenon DEF Listing, EmptyDirectory

\* A reader does not see the plan, nor the new root.
LEMMA PlanView == ASSUME IInv, AInv, IInv', AInv', Plan PROVE LogicalView' = LogicalView
<1>1. CASE UNCHANGED disk
  BY <1>1, UntouchedView, Zenon
<1>2. CASE pc' = "create" /\ store' = [target |-> "Staging", next |-> 0]
  BY <1>2, PlainStep, Zenon DEF Plan, Plain, Writing
<1> QED
  BY <1>1, <1>2, ZenonT(60) DEF Plan, disk

\* A reader does not see what is staged.
LEMMA StageView == ASSUME IInv, AInv, IInv', AInv', Stage PROVE LogicalView' = LogicalView
<1>1. pc' = "create" /\ store'.target = "Prepared"
  BY ZenonT(60) DEF Stage, Persist, IInv, ControlType, Stores
<1> QED
  BY <1>1, PlainStep, Zenon DEF Stage, Plain, Writing

\* A reader sees no step of the cleanup.
LEMMA CleanupView == ASSUME IInv, AInv, IInv', AInv', Cleanup PROVE LogicalView' = LogicalView
<1>1. output' = output /\ pc = "cleanup"
  BY Zenon DEF Cleanup, CleanupOther, CleanupJournal, CleanupRoot
<1>2. CASE pc' = "cleanup"
  BY <1>1, <1>2, PlainStep, Zenon DEF Plain
<1>3. CASE root' = NoRoot
  <2>1. ~Undecided'
    BY <1>3, RootsAre, Zenon DEF Undecided
  <2> QED
    BY <1>1, <2>1, PlainStep, Zenon DEF Plain
<1> QED
  BY <1>2, <1>3, Zenon DEF Cleanup, CleanupOther, CleanupJournal, CleanupRoot

\* A reader does not see a failing operation, unless it failed after the commit point.
LEMMA FaultView ==
  ASSUME IInv, AInv, IInv', AInv', Fault, ~(Writing({"Committed"}) /\ root' # root)
  PROVE  LogicalView' = LogicalView
<1>0. output' = output /\ txn' = txn
  BY Zenon DEF Fault, FaultBeforeMutation, FaultInPersist, FaultInMutation, FaultInRollback, FaultInCleanup, disk
<1>1. CASE UNCHANGED root
  BY <1>0, <1>1, UntouchedView, Zenon DEF disk
<1>2. CASE FaultBeforeMutation /\ pc = "plan"
  <2>1. ~Undecided'
    <3>1. root' \in {NoRoot, FreshRoot}
      BY <1>2, Zenon DEF FaultBeforeMutation
    <3>2. ~SaysUndecided'
      BY <3>1, RootsAre, SMTT(60) DEF SaysUndecided, NoJournal
    <3> QED
      BY <3>2, UndecidedIs, PTL DEF IInv
  <2> QED
    BY <1>0, <1>2, <2>1, PlainStep, Zenon DEF Plain
<1>3. CASE FaultBeforeMutation /\ pc = "stage"
  BY <1>0, <1>3, PlainStep, Zenon DEF FaultBeforeMutation, CleanThen, Plain
<1>4. CASE FaultInPersist /\ pc = "write" /\ root' = [root EXCEPT !.journal[store.next] = store.target] /\ root' # root
  <2>1. Writing(Phases) /\ store.target # "Committed" /\ store.next \in Sequences
    BY <1>4, 0 \in Sequences, 1 \in Sequences, 2 \in Sequences, 3 \in Sequences, ZenonT(40)
    DEF Writing, IInv, ControlType, Stores, PointInv
  <2>2. root.journal[store.next] \in {"none", "torn"}
    BY <2>1, SMTT(40) DEF IInv, PointInv, NothingFrom
  <2>3. PlanInv'
    BY Zenon DEF AInv
  <2> QED
    BY <1>0, <1>4, <2>1, <2>2, <2>3, JournalView, Zenon
<1> QED
  BY <1>1, <1>2, <1>3, <1>4, Zenon DEF Fault, FaultBeforeMutation, FaultInPersist, FaultInMutation, FaultInRollback,
     FaultInCleanup, disk

\* A reader sees no snapshot but the Committed one.
LEMMA SnapshotView ==
  ASSUME IInv, AInv, IInv', AInv', CreateSnapshot \/ (WriteSnapshot /\ store.target # "Committed")
  PROVE  LogicalView' = LogicalView
<1>0. Writing(Phases) /\ PlanInv' /\ output' = output /\ txn' = txn
  BY Zenon DEF CreateSnapshot, WriteSnapshot, Writing, IInv, ControlType, Stores, AInv
<1>1. CASE UNCHANGED root
  BY <1>0, <1>1, UntouchedView, Zenon DEF disk
<1>2. store.next \in Sequences /\ root.journal[store.next] \in {"none", "torn"}
  <2>1. store.next \in Sequences /\ NothingFrom(store.next)
    BY <1>0, SMTT(60) DEF IInv, ControlType, Stores, PointInv, Writing
  <2> QED
    BY <2>1, SMTT(60) DEF NothingFrom
<1> QED
  BY <1>0, <1>1, <1>2, JournalView, Zenon DEF CreateSnapshot, WriteSnapshot

(***************************************************************************)
(* What each step is to the caller.                                        *)
(***************************************************************************)
AtomicStep == Atomic!AtomicNext \/ UNCHANGED Atomic!atomicVars

\* The export goes on.
LEMMA GoesOn ==
  ASSUME IInv, AInv, IInv', AInv', pc # "idle", pc' # "idle", UNCHANGED <<request, outcome>>,
         spent'.late = spent.late, LogicalView' = LogicalView, Committing' <=> Committing
  PROVE  AtomicStep
<1>1. PastCommit <=> Committing
  BY CommitIs, Zenon DEF AInv
<1>2. (PastCommit <=> Committing)'
  BY CommitIs, PTL DEF AInv
<1>3. PastCommit' = PastCommit
  <2>1. PastCommit' <=> PastCommit
    BY <1>1, <1>2, Zenon
  <2>2. PastCommit \in BOOLEAN /\ PastCommit' \in BOOLEAN
    BY Zenon DEF PastCommit
  <2> QED
    BY <2>1, <2>2, Zenon
<1>4. Asked' = Asked
  BY Zenon DEF Asked
<1> QED
  BY <1>3, <1>4, Zenon DEF AtomicStep, Atomic!atomicVars

\* The caller is told what happened.
LEMMA Returns ==
  ASSUME IInv, AInv, IInv', AInv', pc # "idle", spent'.late = spent.late, LogicalView' = LogicalView,
         NEW r \in Atomic!Results, Stop(r),
         r \in Atomic!SaysInstalled => Committing, r \in Atomic!SaysNotInstalled => ~Committing
  PROVE  AtomicStep
<1>1. PastCommit <=> Committing
  BY CommitIs, Zenon DEF AInv
<1>2. PastCommit' = FALSE
  BY Zenon DEF Stop, PastCommit
<1>3. Asked # Atomic!Idle
  <2>1. request \in [policy : Policies, payload : Payloads]
    BY Zenon DEF AInv, CallInv
  <2>2. request.policy \in {"Fail", "Replace", "Uniquify"} /\ Asked = request
    BY <2>1, Zenon DEF Asked
  <2> QED
    BY <2>2, SMTT(60) DEF Atomic!Idle
<1>4. Asked' = Atomic!Idle /\ outcome' = r
  BY Zenon DEF Stop, Asked, Atomic!Idle
<1> QED
  BY <1>1, <1>2, <1>3, <1>4, Zenon DEF AtomicStep, Atomic!AtomicNext, Atomic!Return

\* Away from the commit point both are simple.
LEMMA Uncommitted ==
  ASSUME IInv, AInv, IInv', AInv', pc \notin {"idle", "finalize", "cleanup"},
         spent'.late = spent.late, LogicalView' = LogicalView,
         \/ UNCHANGED <<request, outcome>> /\ pc' # "idle" /\ ~Committing'
         \/ \E r \in {"unchanged", "restored", "indeterminate", "recoveryRequired", "recoveryFailed", "crashed"} :
                Stop(r)
  PROVE  AtomicStep
<1>1. ~Committing
  BY Zenon DEF Committing
<1>2. CASE UNCHANGED <<request, outcome>> /\ pc' # "idle" /\ ~Committing'
  BY <1>1, <1>2, GoesOn, Zenon
<1>3. ASSUME NEW r \in {"unchanged", "restored", "indeterminate", "recoveryRequired", "recoveryFailed", "crashed"},
             Stop(r)
      PROVE  AtomicStep
  BY <1>1, <1>3, Returns, ZenonT(60) DEF Atomic!Results, Atomic!SaysInstalled, Atomic!SaysNotInstalled
<1> QED
  BY <1>2, <1>3, Zenon

\* The set is installed when the Committed snapshot is durable.
LEMMA Installs ==
  ASSUME IInv, AInv, IInv', AInv', pc = "write", store.target = "Committed", UNCHANGED <<output, txn>>,
         root' = [root EXCEPT !.journal[store.next] = store.target], spent'.late = spent.late,
         \/ UNCHANGED <<request, outcome>> /\ pc' # "idle" /\ Committing'
         \/ Stop("indeterminate")
  PROVE  AtomicStep
<1>0. /\ Writing({"Committed"}) /\ Writing(Phases) /\ PastValidation /\ DiskType /\ PlanInv /\ CommitInv /\ CallInv
      /\ root.journal[2] = "Mutating" /\ root.exists /\ ~recovering
      /\ store.next = 3 /\ root.journal[3] \in {"none", "torn"} /\ output \in Folders /\ root \in Roots
  BY SMTT(60) DEF Writing, PastValidation, IInv, DiskType, PointInv, NothingFrom, AInv, CallInv
<1>1. Asked = request /\ request \in [policy : Policies, payload : Payloads] /\ Asked # Atomic!Idle
      /\ txn.policy = request.policy /\ txn.payload = request.payload
  <2>1. request \in [policy : Policies, payload : Payloads]
    BY <1>0, Zenon DEF CallInv
  <2>2. request.policy \in {"Fail", "Replace", "Uniquify"} /\ Asked = request
    BY <2>1, Zenon DEF Asked
  <2> QED
    BY <1>0, <2>1, <2>2, SMTT(60) DEF Atomic!Idle, CallInv
<1>2. output # Missing /\ LateEdits \subseteq spent.late
      /\ \A n \in LateEdits : output[n] \in EditedContent
  BY <1>0, Zenon DEF AInv, LateInv
<1>3. Undecided /\ output \in Directory
  BY <1>0, <1>2, UndecidedIs, Zenon DEF SaysUndecided, IInv, Folders
<1>4. LogicalView' = output
  <2>1. root'.journal[3] = "Committed"
    BY <1>0, SMTT(60) DEF Roots
  <2>2. ~SaysUndecided'
    BY <2>1, Zenon DEF SaysUndecided
  <2>3. ~Undecided'
    BY <2>2, UndecidedIs, PTL DEF IInv
  <2>4. (LogicalView = Listing(output))'
    BY <2>3, ViewDecided, PTL
  <2> QED
    BY <1>2, <2>4, Zenon DEF Listing
<1>5. ASSUME NEW n \in Names, \A i \in Entries : txn.dest[i] # n
      PROVE  LogicalView[n] = Validated[n]
             /\ (txn.policy # "Replace" /\ LogicalView[n] # Absent => output[n] = LogicalView[n])
  <2>1. Validated[n] = IF txn.mode = "Swap" THEN Absent ELSE output[n]
    BY <1>5, Zenon DEF Validated
  <2>2. CASE txn.mode = "Entries"
    BY <1>0, <1>2, <1>3, <1>5, <2>1, <2>2, ViewEntries, ZenonT(60) DEF Listing
  <2>3. CASE txn.mode = "Swap"
    <3>1. root.previous = EmptyDirectory /\ EmptyDirectory # Missing
      BY <1>0, <2>3, SMTT(60) DEF CommitInv, EmptyDirectory, Directory
    <3>2. LogicalView = EmptyDirectory
      BY <1>3, <2>3, <3>1, ViewSwap, Zenon DEF Listing
    <3> QED
      BY <2>1, <2>3, <3>2, Zenon DEF EmptyDirectory
  <2> QED
    BY <1>0, <2>2, <2>3, Zenon DEF DiskType, Transactions
<1>6. ASSUME txn.policy # "Replace", NEW i \in Entries, LogicalView[txn.dest[i]] # Absent
      PROVE  output[txn.dest[i]] = LogicalView[txn.dest[i]]
  <2>1. ~txn.existed[i] /\ root.backups[i] = Absent /\ txn.dest[i] \in Names
    BY <1>0, <1>6, Destined, Zenon DEF PlanInv
  <2>2. CASE txn.mode = "Entries"
    <3>1. LogicalView[txn.dest[i]] = EntryView(i)
      BY <1>0, <1>3, <2>2, ViewEntries, Zenon
    <3> QED
      BY <1>2, <1>6, <2>1, <3>1, Zenon DEF EntryView, Listing
  <2>3. CASE txn.mode = "Swap"
    <3>1. root.previous = EmptyDirectory /\ EmptyDirectory # Missing
      BY <1>0, <2>3, SMTT(60) DEF CommitInv, EmptyDirectory, Directory
    <3>2. LogicalView = EmptyDirectory
      BY <1>3, <2>3, <3>1, ViewSwap, Zenon DEF Listing
    <3> QED
      BY <1>6, <2>1, <3>2, Zenon DEF EmptyDirectory
  <2> QED
    BY <1>0, <2>2, <2>3, Zenon DEF DiskType, Transactions
<1>7. Asked.policy # "Replace" => \A n \in Names : LogicalView[n] # Absent => LogicalView'[n] = LogicalView[n]
  <2>1. SUFFICES ASSUME Asked.policy # "Replace", NEW n \in Names, LogicalView[n] # Absent
                 PROVE  LogicalView'[n] = LogicalView[n]
    BY Zenon
  <2>2. CASE \E i \in Entries : txn.dest[i] = n
    BY <1>1, <1>4, <1>6, <2>1, <2>2, SMTT(60)
  <2>3. CASE \A i \in Entries : txn.dest[i] # n
    BY <1>1, <1>4, <1>5, <2>1, <2>3, Zenon
  <2> QED
    BY <2>2, <2>3, Zenon
<1> DEFINE set == [n \in Names |-> IF \E i \in Entries : txn.dest[i] = n
                                   THEN Rendered(CHOOSE i \in Entries : txn.dest[i] = n, Asked.payload)
                                   ELSE LogicalView[n]]
<1>8. ASSUME NEW n \in Names PROVE set[n] = Validated[n]
  <2>1. CASE \E i \in Entries : txn.dest[i] = n
    BY <1>1, <2>1, Zenon DEF Validated
  <2>2. CASE \A i \in Entries : txn.dest[i] # n
    <3>1. set[n] = LogicalView[n]
      BY <2>2, Zenon
    <3> QED
      BY <1>5, <2>2, <3>1, Zenon
  <2> QED
    BY <2>1, <2>2, Zenon
<1>9. {n \in Names : LogicalView'[n] # set[n]} = LateEdits
  BY <1>4, <1>8, ZenonT(60) DEF LateEdits
<1>10. Atomic!Foreigners = EditedContent
  BY Zenon DEF Atomic!Foreigners, EditedContent
<1>11. /\ txn.dest \in [Entries -> Names] /\ \A i, j \in Entries : txn.dest[i] = txn.dest[j] => i = j
       /\ DOMAIN LogicalView' = Names
  BY <1>0, <1>3, <1>4, Destined, Zenon DEF DiskType, Transactions, Directory
<1>12. \E dest \in [Entries -> Names] :
         LET it == [n \in Names |-> IF \E i \in Entries : dest[i] = n
                                    THEN Rendered(CHOOSE i \in Entries : dest[i] = n, Asked.payload)
                                    ELSE LogicalView[n]]
             edited == {n \in Names : LogicalView'[n] # it[n]}
         IN  /\ \A i, j \in Entries : dest[i] = dest[j] => i = j
             /\ DOMAIN LogicalView' = Names
             /\ edited \subseteq spent.late /\ \A n \in edited : LogicalView'[n] \in Atomic!Foreigners
  <2> USE <1>11
  <2> WITNESS txn.dest \in [Entries -> Names]
  <2>1. \A n \in LateEdits : LogicalView'[n] \in Atomic!Foreigners
    BY <1>2, <1>4, <1>10, Zenon
  <2> QED
    BY <1>2, <1>9, <1>11, <2>1, Zenon
<1>13. \/ PastCommit' = TRUE /\ Asked' = Asked /\ outcome' = outcome
       \/ PastCommit' = FALSE /\ Asked' = Atomic!Idle /\ outcome' = "indeterminate"
  <2>1. CASE UNCHANGED <<request, outcome>> /\ pc' # "idle" /\ Committing'
    <3>1. (PastCommit <=> Committing)'
      BY CommitIs, PTL DEF AInv
    <3> QED
      BY <1>1, <2>1, <3>1, Zenon DEF Asked, PastCommit
  <2>2. CASE Stop("indeterminate")
    BY <2>2, ZenonT(60) DEF Stop, Asked, Atomic!Idle, PastCommit
  <2> QED
    BY <2>1, <2>2, Zenon
<1>14. ~PastCommit
  BY CommitIs, Zenon DEF AInv, Committing
<1>15. Atomic!InstallSet
  BY <1>1, <1>7, <1>12, <1>13, <1>14, ZenonT(60) DEF Atomic!InstallSet
<1> QED
  BY <1>15, Zenon DEF AtomicStep, Atomic!AtomicNext

\* Someone else's edit shows at its name, or nowhere yet.
LEMMA EditView ==
  ASSUME IInv, AInv, IInv', AInv', Edit
  PROVE  \E n \in Names :
           /\ \/ LogicalView' = LogicalView
              \/ \E c \in Atomic!Foreigners : LogicalView' = [LogicalView EXCEPT ![n] = c]
           /\ spent'.late \in {spent.late, spent.late \cup {n}}
<1>0. UNCHANGED <<root, txn>> /\ DiskType /\ PlanInv /\ DiskType' /\ PlanInv' /\ IInv /\ IInv'
  BY ZenonT(60) DEF Edit, IInv, AInv
<1>1. ASSUME Undecided', (txn.mode = "Entries")'
      PROVE  (/\ \A i \in Entries : LogicalView[txn.dest[i]] = EntryView(i)
              /\ \A n \in Names : (\A i \in Entries : txn.dest[i] # n) => LogicalView[n] = Listing(output)[n]
              /\ LogicalView \in Directory)'
  BY <1>0, <1>1, ViewEntries, PTL
<1>2. PICK n \in Names, c \in EditedContent :
            /\ output \in Directory /\ output # Missing
            /\ output' \in Directory /\ output' # Missing /\ output'[n] = c
            /\ \A m \in Names : m # n => output'[m] = output[m]
            /\ spent'.late \in {spent.late, spent.late \cup {n}}
  BY EditIs, ZenonT(60)
<1>3. LogicalView \in Directory /\ LogicalView' \in Directory
  <2>1. (LogicalView \in Directory)'
    BY <1>0, ViewType, PTL
  <2> QED
    BY <1>0, <2>1, ViewType, Zenon DEF Directory, Content
<1>4. Undecided' = Undecided /\ Listing(output) = output /\ Listing(output') = output'
  BY <1>0, <1>2, SameUndecided, Zenon DEF Listing
<1>5. LogicalView'[n] \in {LogicalView[n], c} /\ \A m \in Names : m # n => LogicalView'[m] = LogicalView[m]
  <2>1. CASE ~Undecided
    <3>1. LogicalView = output /\ LogicalView' = output'
      BY <1>4, <2>1, ViewDecided, ZenonT(60) DEF LogicalView
    <3> QED
      BY <1>2, <3>1, Zenon
  <2>2. CASE Undecided /\ txn.mode = "Swap"
    <3>1. \/ LogicalView' = LogicalView
          \/ LogicalView = output /\ LogicalView' = output'
      BY <1>0, <1>4, <2>2, ZenonT(60) DEF LogicalView, Listing, EmptyDirectory
    <3> QED
      BY <1>2, <3>1, Zenon
  <2>3. CASE Undecided /\ txn.mode = "Entries"
    <3>1. /\ \A i \in Entries : LogicalView[txn.dest[i]] = EntryView(i)
          /\ \A m \in Names : (\A i \in Entries : txn.dest[i] # m) => LogicalView[m] = output[m]
      BY <1>0, <1>4, <2>3, ViewEntries, ZenonT(60)
    <3>2. (/\ \A i \in Entries : LogicalView[txn.dest[i]] = EntryView(i)
           /\ \A m \in Names : (\A i \in Entries : txn.dest[i] # m) => LogicalView[m] = Listing(output)[m]
           /\ LogicalView \in Directory)'
      BY <1>0, <1>4, <1>1, <2>3, Zenon
    <3>3. ASSUME NEW i \in Entries, txn.dest[i] # n PROVE EntryView(i)' = EntryView(i)
      <4>1. txn.dest[i] \in Names /\ output'[txn.dest[i]] = output[txn.dest[i]]
        BY <1>0, <1>2, <3>3, Destined, ZenonT(60)
      <4> QED
        BY <1>0, <1>2, <1>4, <4>1, ZenonT(60) DEF EntryView, PathMatchesEntry, Validates, Rendered
    <3>4. ASSUME NEW i \in Entries, txn.dest[i] = n PROVE EntryView(i)' \in {EntryView(i), c}
      <4>1. c # Rendered(i, txn.payload)
        BY <1>0, EditedIsForeign, ZenonT(60)
      <4> QED
        BY <1>0, <1>2, <1>4, <3>4, <4>1, ZenonT(60) DEF EntryView, PathMatchesEntry, Validates, Rendered
    <3>5. ASSUME NEW m \in Names 
          PROVE  LogicalView'[m] = LogicalView[m] \/ (m = n /\ LogicalView'[m] = c)
      <4>1. CASE \E i \in Entries : txn.dest[i] = m
        <5>1. PICK i \in Entries : txn.dest[i] = m
          BY <4>1, Zenon
        <5>2. LogicalView[m] = EntryView(i) /\ LogicalView'[m] = EntryView(i)'
          BY <1>0, <3>1, <3>2, <5>1, Zenon
        <5>3. CASE m = n
          BY <3>4, <5>1, <5>2, <5>3, Zenon
        <5>4. CASE m # n
          BY <3>3, <5>1, <5>2, <5>4, ZenonT(60)
        <5> QED
          BY <5>3, <5>4, ZenonT(60)
      <4>2. CASE \A i \in Entries : txn.dest[i] # m
        <5>1. LogicalView[m] = output[m] /\ LogicalView'[m] = output'[m]
          BY <1>0, <1>4, <3>1, <3>2, <4>2, ZenonT(60)
        <5>2. output'[m] = output[m] \/ (m = n /\ output'[m] = c)
          BY <1>2, ZenonT(60)
        <5> QED
          BY <5>1, <5>2, ZenonT(60)
      <4> QED
        BY <4>1, <4>2, Zenon
    <3> QED
      BY <3>5, ZenonT(60)
  <2> QED
    BY <1>0, <2>1, <2>2, <2>3, Zenon DEF DiskType, Transactions
<1>6. CASE LogicalView'[n] = LogicalView[n]
  <2>1. LogicalView' = LogicalView
    BY <1>3, <1>5, <1>6, SMTT(60) DEF Directory
  <2> QED
    BY <1>2, <2>1, Zenon
<1>7. CASE LogicalView'[n] = c
  <2>1. LogicalView' = [LogicalView EXCEPT ![n] = c]
    BY <1>3, <1>5, <1>7, Zenon DEF Directory
  <2>2. c \in Atomic!Foreigners
    BY Zenon DEF Atomic!Foreigners, EditedContent
  <2> QED
    BY <1>2, <2>1, <2>2, Zenon
<1> QED
  BY <1>5, <1>6, <1>7, Zenon

\* Someone else's edit is one of AtomicExport.
LEMMA EditIsForeign == ASSUME IInv, AInv, IInv', AInv', Edit PROVE AtomicStep
<1>1. UNCHANGED <<root, pc, recovering, verdict, outcome, request>>
  BY Zenon DEF Edit
<1>2. Asked' = Asked /\ PastCommit' = PastCommit /\ outcome' = outcome
  BY <1>1, ZenonT(60) DEF Asked, PastCommit, LatestPhase, LatestSequence, ValidSequences
<1> QED
  BY <1>2, EditView, Zenon DEF AtomicStep, Atomic!AtomicNext, Atomic!ForeignEdit

\* The begin of an export is the start of one of AtomicExport.
LEMMA BeginIsStart == ASSUME IInv, AInv, IInv', AInv', Begin PROVE AtomicStep
<1>1. LogicalView' = LogicalView
  BY CreatedView, Zenon DEF Begin, AInv
<1>2. spent'.late = {}
  <2> DEFINE q == Spend("exports")
  <2>1. q \in Counters /\ spent' = [q EXCEPT !.late = {}]
    BY Spending, Zenon DEF Begin, IInv, ControlType
  <2> HIDE DEF q
  <2> QED
    BY <2>1, Zenon DEF Counters
<1>3. Asked = Atomic!Idle /\ Asked' \in [policy : Policies, payload : Payloads]
  BY DEF Begin, Unlocked, Asked, Atomic!Idle
<1>4. PastCommit' = FALSE /\ outcome' = "none"
  BY Zenon DEF Begin, PastCommit
<1> QED
  BY <1>1, <1>2, <1>3, <1>4, Zenon DEF AtomicStep, Atomic!AtomicNext, Atomic!Start

\* Recovery changes nothing for a reader; if it gives up, the call says so.
LEMMA RecoverIsAtomic == ASSUME IInv, AInv, IInv', AInv', Recover PROVE AtomicStep
<1>1. UNCHANGED <<disk, spent>> /\ pc = "recover" /\ recovering
  BY ZenonT(60) DEF Recover, RecoverNothing, RecoverUnknown, RecoverUnstarted, RecoverMutating, RecoverRollingBack,
     RecoverCommitted, AInv, CallInv
<1>2. LogicalView' = LogicalView /\ spent'.late = spent.late
  BY <1>1, UntouchedView, Zenon
<1>3. CASE Stop("recoveryFailed")
  BY <1>1, <1>2, <1>3, Uncommitted, Zenon
<1>4. CASE UNCHANGED <<request, outcome>> /\ pc' # "idle" /\ ~Committing'
  BY <1>1, <1>2, <1>4, Uncommitted, Zenon
<1> QED
  BY <1>1, <1>3, <1>4, Zenon DEF Recover, RecoverNothing, RecoverUnknown, RecoverUnstarted, RecoverMutating,
     RecoverRollingBack, RecoverCommitted, CleanThen, Continue, Committing

\* A persist that fails ends the export or starts its cleanup.
LEMMA FailedPersistSays ==
  ASSUME IInv, PersistFailed
  PROVE  \/ UNCHANGED <<request, outcome>> /\ pc' # "idle" /\ ~Committing'
         \/ \E r \in {"indeterminate", "recoveryRequired", "recoveryFailed"} : Stop(r)
<1>1. store.target \in Phases
  BY Zenon DEF IInv, ControlType, Stores
<1>2. CASE store.target \in {"Staging", "Prepared", "Mutating"}
  BY <1>2, ZenonT(60) DEF PersistFailed, CleanThen, Committing
<1>3. CASE store.target \in {"RollingBack", "Committed"}
  BY <1>3, Zenon DEF PersistFailed
<1> QED
  BY <1>1, <1>2, <1>3, Zenon

\* The Committed snapshot installs the set; planning, staging and the other snapshots stutter.
LEMMA PersistIsAtomic ==
  ASSUME IInv, AInv, IInv', AInv', Plan \/ CreateSnapshot \/ WriteSnapshot \/ Stage PROVE AtomicStep
<1>0. spent' = spent /\ pc \in {"plan", "create", "write", "stage"}
  BY Zenon DEF Plan, CreateSnapshot, WriteSnapshot, Stage
<1>1. CASE WriteSnapshot /\ store.target = "Committed"
  <2>1. ~recovering
    BY <1>1, ZenonT(60) DEF WriteSnapshot, AInv, CallInv, Writing
  <2> QED
    BY <1>1, <2>1, Installs, ZenonT(60) DEF WriteSnapshot, AfterPersist, Committing
<1>2. CASE WriteSnapshot /\ store.target # "Committed"
  <2>1. AfterPersist \notin {"idle", "finalize", "cleanup"}
    BY <1>2, ZenonT(60) DEF AfterPersist, IInv, ControlType, Stores
  <2> QED
    BY <1>0, <1>2, <2>1, SnapshotView, Uncommitted, Zenon DEF WriteSnapshot, Committing
<1>3. CASE CreateSnapshot
  <2>1. \/ UNCHANGED <<request, outcome>> /\ pc' # "idle" /\ ~Committing'
        \/ \E r \in {"indeterminate", "recoveryRequired", "recoveryFailed"} : Stop(r)
    BY <1>3, FailedPersistSays, Zenon DEF CreateSnapshot, Continue, Committing
  <2> QED
    BY <1>0, <1>3, <2>1, SnapshotView, Uncommitted, Zenon
<1>4. CASE Plan
  <2>1. \/ UNCHANGED <<request, outcome>> /\ pc' # "idle" /\ ~Committing'
        \/ Stop("unchanged")
    BY <1>4, Zenon DEF Plan, Committing
  <2> QED
    BY <1>0, <1>4, <2>1, PlanView, Uncommitted, Zenon
<1>5. CASE Stage
  BY <1>0, <1>5, StageView, Uncommitted, Zenon DEF Stage, Persist, Committing
<1> QED
  BY <1>1, <1>2, <1>3, <1>4, <1>5, Zenon

\* Backups, installs, the swap and the validation stutter; after the commit point the call may return.
LEMMA CommitIsAtomic == ASSUME IInv, AInv, IInv', AInv', Commit PROVE AtomicStep
<1>0. spent' = spent /\ PlanInv'
  BY Zenon DEF Commit, ValidateBeforeMutation, Backup, Install, SwapOut, SwapCheck, SwapIn, ValidateCommitted,
     SyncOutput, FinalizeCommitted, AInv
<1>1. CASE FinalizeCommitted
  <2>0. LogicalView' = LogicalView /\ pc = "finalize"
    BY <1>1, UntouchedView, Zenon DEF FinalizeCommitted
  <2>1. CASE CleanThen("success")
    BY <1>0, <2>0, <2>1, GoesOn, Zenon DEF CleanThen, Committing
  <2>2. CASE recovering /\ Stop("recoveryFailed")
    BY <1>0, <2>0, <2>2, Returns, Zenon DEF Atomic!Results, Atomic!SaysInstalled, Committing
  <2>3. CASE ~recovering /\ Stop("committedPending")
    BY <1>0, <2>0, <2>3, Returns, Zenon DEF Atomic!Results, Atomic!SaysNotInstalled, Committing
  <2> QED
    BY <1>1, <2>1, <2>2, <2>3, Zenon DEF FinalizeCommitted
<1>2. CASE ~FinalizeCommitted
  <2>1. pc \notin {"idle", "finalize", "cleanup"} /\ UNCHANGED <<request, outcome>> /\ pc' # "idle" /\ ~Committing'
    <3>1. CASE ValidateBeforeMutation \/ SyncOutput
      BY <3>1, Zenon DEF ValidateBeforeMutation, SyncOutput, Persist, CleanThen, Committing
    <3>2. CASE Backup \/ Install
      BY <3>2, ZenonT(60) DEF Backup, Install, NextEntry, MutationFailed, Committing
    <3>3. CASE SwapOut \/ SwapCheck \/ SwapIn \/ ValidateCommitted
      BY <3>3, ZenonT(60) DEF SwapOut, SwapCheck, SwapIn, ValidateCommitted, Continue, MutationFailed, Committing
    <3> QED
      BY <1>2, <3>1, <3>2, <3>3, Zenon DEF Commit
  <2>2. LogicalView' = LogicalView
    <3>1. CASE UNCHANGED disk
      BY <3>1, UntouchedView, Zenon
    <3> QED
      BY <1>0, <1>2, <3>1, BackupView, InstallView, SwapView, Zenon DEF Commit, ValidateBeforeMutation, SwapCheck,
         ValidateCommitted, SyncOutput
  <2> QED
    BY <1>0, <2>1, <2>2, Uncommitted, Zenon
<1> QED
  BY <1>1, <1>2, Zenon

\* The rollback stutters, or returns without having installed anything.
LEMMA RollbackIsAtomic == ASSUME IInv, AInv, IInv', AInv', Rollback PROVE AtomicStep
<1>0. spent' = spent /\ PlanInv' /\ pc \in {"rollback", "restore", "reinstate", "resync"}
  BY Zenon DEF Rollback, RollbackReplaced, Restore, RollbackOriginal, RollbackCreated, RollbackEntriesDone,
     RollbackSwap, Reinstate, SyncRestored, AInv
<1>1. LogicalView' = LogicalView
  <2>1. CASE UNCHANGED disk
    BY <2>1, UntouchedView, Zenon
  <2> QED
    BY <1>0, <2>1, RollbackEntryView, RestoreView, SwapView, Zenon DEF Rollback, RollbackEntriesDone, SyncRestored
<1>2. \/ UNCHANGED <<request, outcome>> /\ pc' # "idle" /\ ~Committing'
      \/ Stop("recoveryRequired") \/ Stop("recoveryFailed")
  <2>1. CASE SyncRestored
    BY <2>1, ZenonT(60) DEF SyncRestored, CleanThen, Committing, AInv, CallInv
  <2>2. CASE RollbackReplaced \/ Restore \/ RollbackOriginal \/ RollbackCreated
    BY <2>2, ZenonT(60) DEF RollbackReplaced, Restore, RollbackOriginal, RollbackCreated, RollbackNext, Continue, Committing
  <2>3. CASE RollbackEntriesDone \/ RollbackSwap \/ Reinstate
    BY <2>3, ZenonT(60) DEF RollbackEntriesDone, RollbackSwap, Reinstate, RecoveryFailed, Continue, Committing
  <2> QED
    BY <2>1, <2>2, <2>3, Zenon DEF Rollback
<1> QED
  BY <1>0, <1>1, <1>2, Uncommitted, Zenon

\* The cleanup stutters until it returns what the transaction did.
LEMMA CleanupIsAtomic == ASSUME IInv, AInv, IInv', AInv', Cleanup PROVE AtomicStep
<1>0. spent' = spent /\ LogicalView' = LogicalView /\ pc = "cleanup"
  BY CleanupView, Zenon DEF Cleanup, CleanupOther, CleanupJournal, CleanupRoot
<1>1. CASE CleanupOther \/ CleanupJournal
  BY <1>0, <1>1, GoesOn, SMTT(60) DEF CleanupOther, CleanupJournal, Committing
<1>2. CASE Continue("recover") /\ recovering
  BY <1>0, <1>2, GoesOn, Zenon DEF Continue, Committing
<1>3. CASE Stop(verdict) /\ ~recovering
  <2>1. verdict \in {"unchanged", "restored", "success"} /\ (Committing <=> verdict = "success")
    BY <1>0, <1>3, Zenon DEF AInv, CallInv, Committing
  <2> QED
    BY <1>0, <1>3, <2>1, Returns, ZenonT(60) DEF Atomic!Results, Atomic!SaysInstalled, Atomic!SaysNotInstalled
<1> QED
  BY <1>1, <1>2, <1>3, Zenon DEF Cleanup, CleanupRoot

\* A failing operation stutters, or returns what it leaves.
LEMMA FaultIsAtomic == ASSUME IInv, AInv, IInv', AInv', Fault PROVE AtomicStep
<1>0. spent'.late = spent.late
  BY ZenonT(60) DEF Fault, Spend, IInv, ControlType, Counters
<1>1. CASE Writing({"Committed"}) /\ root' # root
  <2>1. FaultInPersist /\ pc = "write" /\ root' = [root EXCEPT !.journal[store.next] = store.target]
        /\ store.target = "Committed"
    BY <1>1, Zenon DEF Fault, FaultBeforeMutation, FaultInPersist, FaultInMutation, FaultInRollback, FaultInCleanup,
       Writing, disk
  <2>2. Stop("indeterminate") /\ UNCHANGED <<output, txn>>
    BY <2>1, Zenon DEF FaultInPersist, PersistFailed
  <2> QED
    BY <1>0, <2>1, <2>2, Installs, ZenonT(60)
<1>2. CASE ~(Writing({"Committed"}) /\ root' # root)
  <2>0. LogicalView' = LogicalView
    BY <1>2, FaultView, Zenon
  <2>1. CASE FaultBeforeMutation
    <3>1. pc \in {"recover", "plan", "stage", "ready"}
      BY <2>1, Zenon DEF FaultBeforeMutation
    <3>2. \/ UNCHANGED <<request, outcome>> /\ pc' # "idle" /\ ~Committing'
          \/ Stop("recoveryFailed") \/ Stop("unchanged")
      BY <2>1, Zenon DEF FaultBeforeMutation, CleanThen, Committing
    <3> QED
      BY <1>0, <2>0, <3>1, <3>2, Uncommitted, Zenon
  <2>2. CASE FaultInPersist
    <3>1. pc \in {"create", "write"} /\ PersistFailed
      BY <2>2, Zenon DEF FaultInPersist
    <3> QED
      BY <1>0, <2>0, <3>1, FailedPersistSays, Uncommitted, ZenonT(60)
  <2>3. CASE FaultInMutation
    <3>1. pc \in Mutating /\ (MutationFailed \/ Stop("indeterminate"))
      BY <2>3, Zenon DEF FaultInMutation
    <3>2. \/ UNCHANGED <<request, outcome>> /\ pc' # "idle" /\ ~Committing'
          \/ Stop("indeterminate")
      BY <3>1, Zenon DEF MutationFailed, Committing
    <3> QED
      BY <1>0, <2>0, <3>1, <3>2, Uncommitted, Zenon
  <2>4. CASE FaultInRollback
    <3>1. pc \in RollingBack
      BY <2>4, Zenon DEF FaultInRollback
    <3>2. \/ UNCHANGED <<request, outcome>> /\ pc' # "idle" /\ ~Committing'
          \/ Stop("recoveryRequired") \/ Stop("recoveryFailed")
      BY <2>4, ZenonT(60) DEF FaultInRollback, RollbackNext, RecoveryFailed, Committing
    <3> QED
      BY <1>0, <2>0, <3>1, <3>2, Uncommitted, Zenon
  <2>5. CASE FaultInCleanup
    <3>1. pc = "cleanup"
      BY <2>5, Zenon DEF FaultInCleanup
    <3>2. CASE Committing
      BY <1>0, <2>0, <2>5, <3>1, <3>2, Returns, Zenon DEF FaultInCleanup, Atomic!Results, Atomic!SaysNotInstalled, Committing
    <3>3. CASE ~Committing
      BY <1>0, <2>0, <2>5, <3>1, <3>3, Returns, Zenon DEF FaultInCleanup, Atomic!Results, Atomic!SaysInstalled, Committing
    <3> QED
      BY <3>2, <3>3, Zenon
  <2> QED
    BY <2>1, <2>2, <2>3, <2>4, <2>5, Zenon DEF Fault
<1> QED
  BY <1>1, <1>2, Zenon

\* A crash ends the call; another process that creates the directory stutters.
LEMMA OutsideIsAtomic ==
  ASSUME IInv, AInv, IInv', AInv', Crash \/ PrepareByOther \/ UNCHANGED vars PROVE AtomicStep
<1>1. CASE Crash
  <2>1. spent'.late = spent.late /\ LogicalView' = LogicalView
    BY <1>1, UntouchedView, ZenonT(60) DEF Crash, Spend, IInv, ControlType, Counters
  <2> QED
    BY <1>1, <2>1, Returns, Zenon DEF Crash, Atomic!Results, Atomic!SaysInstalled, Atomic!SaysNotInstalled
<1>2. CASE PrepareByOther
  <2>1. LogicalView' = LogicalView
    BY <1>2, CreatedView, ZenonT(60) DEF PrepareByOther, AInv
  <2> QED
    BY <1>2, <2>1, GoesOn, Zenon DEF PrepareByOther, Committing
<1>3. CASE UNCHANGED vars
  <2>1. LogicalView' = LogicalView /\ UNCHANGED <<pc, recovering, verdict, root, outcome, request, spent>>
    BY <1>3, UntouchedView, Zenon DEF vars, disk
  <2>2. PastCommit' = PastCommit /\ Asked' = Asked
    BY <2>1, ZenonT(40) DEF PastCommit, Asked, LatestPhase, LatestSequence, ValidSequences
  <2> QED
    BY <2>1, <2>2, Zenon DEF AtomicStep, Atomic!atomicVars
<1> QED
  BY <1>1, <1>2, <1>3, Zenon

\* Every step is a step of AtomicExport or stutters.
LEMMA NextIsAtomic == ASSUME IInv, AInv, [Next]_vars PROVE AtomicStep
<1>1. IInv' /\ AInv'
  BY NextStep, NextAtomic, Zenon
<1> QED
  BY <1>1, BeginIsStart, EditIsForeign, RecoverIsAtomic, PersistIsAtomic, CommitIsAtomic, RollbackIsAtomic,
     CleanupIsAtomic, FaultIsAtomic, OutsideIsAtomic, Zenon DEF Next, Exporter

\* The initial directories are shown as they are.
LEMMA InitialIsAtomic == ASSUME Init PROVE Atomic!AtomicInit
<1>1. ~Undecided
  BY RootsAre, ZenonT(60) DEF Init, Undecided
<1>2. LogicalView = Listing(output)
  BY <1>1, ViewDecided, ZenonT(60)
<1> QED
  BY <1>2, ZenonT(60) DEF Init, Atomic!AtomicInit, PastCommit, Asked, Atomic!Idle

\* The export set is installed atomically (multi_output.rs): ExportTransaction
\* implements AtomicExport for any number of artifacts, exports, crashes,
\* failing operations, torn snapshots and foreign edits.
THEOREM TransactionIsAtomic == Spec => CommitsAtomically
<1>1. Spec => [](IInv /\ AInv)
  <2>1. Init => IInv /\ AInv
    BY Initial, AtomicInitial, Zenon
  <2>2. IInv /\ AInv /\ [Next]_vars => (IInv /\ AInv)'
    BY NextStep, NextAtomic, Zenon
  <2> QED
    BY <2>1, <2>2, PTL DEF Spec
<1>2. ASSUME IInv /\ AInv, [Next]_vars PROVE [Atomic!AtomicNext]_(Atomic!atomicVars)
  BY <1>2, NextIsAtomic, Zenon DEF AtomicStep
<1>3. Init => Atomic!AtomicInit
  BY InitialIsAtomic, Zenon
<1> QED
  BY <1>1, <1>2, <1>3, PTL DEF Spec, CommitsAtomically, Atomic!AtomicSpec
=============================================================================
