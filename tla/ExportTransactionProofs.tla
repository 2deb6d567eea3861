---------------------- MODULE ExportTransactionProofs -----------------------
(***************************************************************************)
(* Proofs about ExportTransaction for any number of artifacts, exports,    *)
(* crashes, failing operations and foreign edits.                          *)
(***************************************************************************)
EXTENDS ExportTransaction, TLAPS

Folders == Directory \cup {Missing}
Held1 == Content \cup {Absent}
Roots ==
    [exists : BOOLEAN, journal : [Sequences -> Phases \cup {"none", "torn"}], staged : Folders,
     backups : [Entries -> Held1], discard : SUBSET Entries, previous : Folders, discarded : BOOLEAN]
Transactions ==
    [mode : {"Swap", "Entries"}, policy : Policy, payload : Payloads \cup {Foreign},
     dest : [Entries -> Names], existed : [Entries -> BOOLEAN],
     previousKind : [Entries -> Kinds \cup {"none"}]]
Requests == [policy : Policy, payload : Payloads \cup {Foreign}]
Stores == [target : Phases, next : 0..4]
Counters == [exports : Nat, crashes : Nat, faults : Nat, edits : Nat,
             late : SUBSET Names]

DiskType == output \in Folders /\ root \in Roots /\ txn \in Transactions
ControlType ==
    request \in Requests /\ pc \in Points /\ at \in 0..N /\ store \in Stores /\ spent \in Counters

\* The transaction holds originals that are not in the output directory.
Retains == root.backups # NoBackups \/ root.previous # Missing

\* Each phase has its place in the journal, and the root holds originals only
\* behind a snapshot that says so.
DiskInv ==
    /\ root.journal[0] \in {"none", "torn", "Staging"}
    /\ root.journal[1] \in {"none", "torn", "Prepared"}
    /\ root.journal[2] \in {"none", "torn", "Mutating"}
    /\ root.journal[3] \in {"none", "torn", "RollingBack", "Committed"}
    /\ ~root.exists => root = NoRoot
    /\ Retains => root.journal[2] = "Mutating" \/ root.journal[3] \in {"RollingBack", "Committed"}
    /\ txn.mode = "Entries" => root.previous = Missing
    /\ txn.mode = "Swap" => root.backups = NoBackups

\* No snapshot from number n on is valid.
NothingFrom(n) == \A s \in Sequences : s >= n => root.journal[s] \in {"none", "torn"}

Mutating == {"backup", "install", "swapOut", "swapCheck", "swapIn", "validate", "sync"}
RollingBack == {"rollback", "restore", "reinstate", "resync"}

NumberOf(phase) ==
    CASE phase = "Staging" -> 0 [] phase = "Prepared" -> 1 [] phase = "Mutating" -> 2
      [] phase \in {"RollingBack", "Committed"} -> 3

\* A snapshot of this phase is being written.
Writing(phases) == pc \in {"create", "write"} /\ store.target \in phases

\* What the journal and the root say where the exporter is.
PointInv ==
    /\ pc = "plan" => root = NoRoot
    /\ pc \notin {"idle", "recover", "plan"} => root.exists
    /\ Writing(Phases) => store.next = NumberOf(store.target) /\ NothingFrom(store.next)
    /\ pc = "stage" => store.next = 1 /\ NothingFrom(1)
    /\ pc = "ready" => store.next = 2 /\ NothingFrom(2)
    /\ pc \in Mutating \/ Writing({"RollingBack", "Committed"}) => root.journal[2] = "Mutating"
    /\ pc \in Mutating => store.next = 3 /\ NothingFrom(3)
    /\ pc \in RollingBack => root.journal[3] = "RollingBack"
    /\ pc = "finalize" => root.journal[3] = "Committed"
    /\ pc \in {"stage", "ready", "resync"} \/ Writing({"Staging", "Prepared", "Mutating"}) => ~Retains
    /\ pc = "cleanup" => root.journal[3] = "Committed" \/ ~Retains
    /\ pc \in {"ready", "backup", "install", "swapOut", "swapCheck", "swapIn"}
         \/ Writing({"Prepared", "Mutating"}) => root.staged \in Directory

\* Where the loops over the entries are.
LoopInv ==
    /\ pc \in {"backup", "install", "restore"} => at \in Entries /\ txn.mode = "Entries"
    /\ pc \in {"swapOut", "swapCheck", "swapIn", "reinstate"} => txn.mode = "Swap"
    /\ pc = "backup" => \A i \in Entries : i >= at => root.backups[i] = Absent
    /\ pc = "swapOut" => root.previous = Missing
    /\ pc \in {"rollback", "restore"} /\ ~failed => \A i \in Entries : i > at => root.backups[i] = Absent
    /\ pc = "restore" => root.backups[at] # Absent

IInv == DiskType /\ DiskInv /\ ControlType /\ PointInv /\ LoopInv

\* The destination that a backup goes back to is free.
RestoreInv == pc = "restore" /\ output # Missing => output[txn.dest[at]] = Absent

USE ExportAssumption DEF Entries, Sequences, Phases, Points, Policy, Kinds, Mutating, RollingBack,
                         NumberOf

\* The root of a new transaction and the absent one are roots.
LEMMA RootsAre ==
  /\ FreshRoot \in Roots /\ FreshRoot.exists /\ FreshRoot.journal = NoJournal
  /\ FreshRoot.backups = NoBackups /\ FreshRoot.previous = Missing
  /\ NoRoot \in Roots /\ ~NoRoot.exists /\ NoRoot.journal = NoJournal
  /\ NoRoot.backups = NoBackups /\ NoRoot.previous = Missing
  BY Zenon DEF Roots, FreshRoot, NoRoot, NoJournal, NoBackups, Held1, Folders

\* The initial states satisfy the invariant.
LEMMA Initial == ASSUME Init PROVE IInv
<1>1. [i \in Entries |-> <<i, 0>>] \in [Entries -> Names]
  BY SMTT(60) DEF Names
<1>2. DiskType /\ ControlType
  BY <1>1, RootsAre, SMTT(60) DEF Init, DiskType, ControlType, Transactions, Folders, Requests, Stores, Counters
<1> QED
  BY <1>2, RootsAre DEF Init, IInv, DiskInv, PointInv, LoopInv, Retains, NoJournal, Writing

\* load_latest_journal: the phase is that of the last valid snapshot.
LEMMA LatestIs ==
  ASSUME DiskType, NEW s \in Sequences, root.journal[s] \in Phases, NothingFrom(s + 1)
  PROVE  LatestSequence = s /\ LatestPhase = root.journal[s]
<1>1. s \in ValidSequences /\ \A t \in ValidSequences : t <= s /\ t \in Nat
  BY SMTT(60) DEF DiskType, Roots, ValidSequences, NothingFrom
<1>2. LatestSequence \in ValidSequences /\ s <= LatestSequence
  BY <1>1, Zenon DEF LatestSequence
<1>3. LatestSequence <= s /\ LatestSequence \in Nat
  BY <1>1, <1>2, Zenon
<1> QED
  BY <1>1, <1>2, <1>3, SMTT(60) DEF LatestPhase

\* What the latest valid snapshot says, by the places of the journal.
LEMMA Latest ==
  ASSUME DiskType, DiskInv
  PROVE  /\ root.journal[3] \in Phases => LatestPhase = root.journal[3]
         /\ root.journal[3] \notin Phases /\ root.journal[2] \in Phases =>
              LatestPhase = "Mutating" /\ LatestSequence = 2
         /\ root.journal[3] \notin Phases /\ root.journal[2] \notin Phases =>
              LatestPhase \in {"unknown", "Staging", "Prepared"}
<1>0. \/ root.journal[3] \in Phases
      \/ NothingFrom(3) /\ root.journal[2] \in Phases
      \/ NothingFrom(2) /\ root.journal[1] \in Phases
      \/ NothingFrom(1) /\ root.journal[0] \in Phases
      \/ NothingFrom(0)
  BY SMTT(60) DEF DiskInv, NothingFrom
<1>1. CASE root.journal[3] \in Phases
  BY <1>1, LatestIs, SMTT(60) DEF NothingFrom
<1>2. CASE NothingFrom(3) /\ root.journal[2] \in Phases
  BY <1>2, LatestIs, SMTT(60) DEF DiskInv, NothingFrom
<1>3. CASE NothingFrom(2) /\ root.journal[1] \in Phases
  BY <1>3, LatestIs, SMTT(60) DEF DiskInv, NothingFrom
<1>4. CASE NothingFrom(1) /\ root.journal[0] \in Phases
  BY <1>4, LatestIs, SMTT(60) DEF DiskInv, NothingFrom
<1>5. CASE NothingFrom(0)
  BY <1>5, SMTT(40) DEF LatestPhase, ValidSequences, NothingFrom
<1> QED
  BY <1>0, <1>1, <1>2, <1>3, <1>4, <1>5, Zenon

\* The counters stay counters, and only an edit counts as one.
LEMMA Counting ==
  ASSUME NEW s \in Counters, NEW k \in Nat, NEW l \in SUBSET Names
  PROVE  /\ [s EXCEPT !.exports = k] \in Counters /\ [s EXCEPT !.exports = k].edits = s.edits
         /\ [s EXCEPT !.crashes = k] \in Counters /\ [s EXCEPT !.crashes = k].edits = s.edits
         /\ [s EXCEPT !.faults = k] \in Counters /\ [s EXCEPT !.faults = k].edits = s.edits
         /\ [s EXCEPT !.late = l] \in Counters /\ [s EXCEPT !.late = l].edits = s.edits
         /\ [s EXCEPT !.edits = k] \in Counters /\ [s EXCEPT !.edits = k].edits = k
  BY Zenon DEF Counters

\* The counters of mishaps can be counted on.
LEMMA CountersAre ==
  ASSUME NEW s \in Counters
  PROVE  /\ s.exports + 1 \in Nat /\ s.crashes + 1 \in Nat /\ s.faults + 1 \in Nat
         /\ s.edits + 1 \in Nat /\ s.late \in SUBSET Names /\ s.edits # s.edits + 1
<1>1. s.exports \in Nat /\ s.crashes \in Nat /\ s.faults \in Nat /\ s.edits \in Nat
      /\ s.late \in SUBSET Names
  BY Zenon DEF Counters
<1>2. \A k \in Nat : k + 1 \in Nat /\ k # k + 1
  OBVIOUS
<1> QED
  BY <1>1, <1>2, Zenon

\* Spending a mishap keeps the counters.
LEMMA Spending ==
  ASSUME spent \in Counters
  PROVE  Spend("exports") \in Counters /\ Spend("crashes") \in Counters /\ Spend("faults") \in Counters
  BY Counting, CountersAre, Zenon DEF Spend

\* The exporter returns, whatever it leaves on the disk.
LEMMA Stopping ==
  ASSUME IInv, DiskType', DiskInv', spent' \in Counters, NEW r, Stop(r) PROVE IInv'
  BY SMTT(60) DEF Stop, IInv, ControlType, Requests, Stores, PointInv, LoopInv, Writing

\* The exporter starts to clean up a root that holds nothing it still needs.
LEMMA Cleaning ==
  ASSUME IInv, DiskType', DiskInv', spent' \in Counters, NEW r, CleanThen(r),
         root'.exists, root'.journal[3] = "Committed" \/ ~Retains'
  PROVE  IInv'
  BY Zenon DEF CleanThen, IInv, ControlType, PointInv, LoopInv, Writing

\* A step that leaves the disk alone leaves what is said about it.
LEMMA SameDisk ==
  ASSUME IInv, UNCHANGED disk PROVE DiskType' /\ DiskInv' /\ Retains' = Retains /\ root' = root
  BY ZenonT(40) DEF disk, IInv, DiskType, DiskInv, Retains, NoBackups

\* A failing mutation leaves the disk to the rollback.
LEMMA Failing ==
  ASSUME IInv, UNCHANGED disk, spent' \in Counters, pc \in Mutating \ {"sync"}, MutationFailed PROVE IInv'
<1>1. DiskType' /\ DiskInv' /\ ControlType'
  BY SameDisk, Zenon DEF MutationFailed, IInv, ControlType, Stores
<1>2. PointInv' /\ LoopInv'
  BY SameDisk, ZenonT(40) DEF MutationFailed, IInv, ControlType, Stores, PointInv, LoopInv, Writing, NothingFrom
<1> QED
  BY <1>1, <1>2, Zenon DEF IInv

\* A snapshot that could not be persisted, torn or not.
LEMMA Unpersisted ==
  ASSUME IInv, Writing(Phases), DiskType', DiskInv', spent' \in Counters, PersistFailed,
         root'.exists = root.exists, Retains' = Retains
  PROVE  IInv'
<1>1. \/ CleanThen("unchanged") /\ store.target \in {"Staging", "Prepared", "Mutating"}
      \/ \E result : Stop(result)
  BY Zenon DEF PersistFailed, IInv, ControlType, Stores
<1>2. CASE CleanThen("unchanged") /\ store.target \in {"Staging", "Prepared", "Mutating"}
  BY <1>2, Cleaning, Zenon DEF IInv, PointInv, Writing
<1> QED
  BY <1>1, <1>2, Stopping, Zenon

\* plan_destinations names one destination per entry; uniquify takes the first
\* free suffix.
LEMMA Planned ==
  ASSUME IInv, output # Missing, \A i \in Entries : Resolvable(i)
  PROVE  /\ PlannedTransaction \in Transactions
         /\ \A i \in Entries : \E s \in 0..MaxSuffix : ResolveDestination(i) = <<i, s>>
<1>1. output \in Directory /\ request \in Requests
  BY Zenon DEF IInv, DiskType, ControlType, Folders
<1>2. ASSUME NEW i \in Entries PROVE \E s \in 0..MaxSuffix : ResolveDestination(i) = <<i, s>>
  <2>1. CASE request.policy = "Uniquify"
    BY <2>1, Zenon DEF Resolvable, ResolveDestination
  <2>2. CASE request.policy # "Uniquify"
    BY <2>2, 0 \in 0..MaxSuffix, Zenon DEF ResolveDestination
  <2> QED
    BY <2>1, <2>2, Zenon
<1>3. ASSUME NEW i \in Entries PROVE ResolveDestination(i) \in Names
  BY <1>2, SMTT(60) DEF Names
<1>4. ASSUME NEW n \in Names, output[n] # Absent PROVE output[n].kind \in Kinds
  BY <1>1, <1>4, Zenon DEF Directory, Content
<1> QED
  BY <1>1, <1>2, <1>3, <1>4, Zenon DEF PlannedTransaction, Transactions, Requests

\* A snapshot is created or written under the number of its phase.
LEMMA Journalled ==
  ASSUME IInv, Writing(Phases), NEW p \in {"torn", store.target}, UNCHANGED <<output, txn>>,
         root' = [root EXCEPT !.journal[store.next] = p]
  PROVE  /\ store.next = NumberOf(store.target) /\ store.target \in Phases /\ store.next \in Sequences
         /\ root'.journal = [root.journal EXCEPT ![store.next] = p]
         /\ DiskType' /\ DiskInv' /\ root'.exists /\ root'.staged = root.staged
         /\ root'.backups = root.backups /\ root'.previous = root.previous /\ Retains' = Retains
<1>1. store.next = NumberOf(store.target) /\ store.target \in Phases /\ root \in Roots
      /\ root.exists
  BY Zenon DEF IInv, DiskType, ControlType, Stores, PointInv, Writing
<1>2. /\ root'.exists /\ root'.staged = root.staged /\ root'.backups = root.backups
      /\ root'.previous = root.previous /\ root'.journal = [root.journal EXCEPT ![store.next] = p]
      /\ root' \in Roots
  BY <1>1, ZenonT(60) DEF Roots
<1>3. Retains' = Retains
  BY <1>2, Zenon DEF Retains, NoBackups
<1>4. Retains => store.target \in {"RollingBack", "Committed"} /\ root.journal[2] = "Mutating"
  BY <1>1, Zenon DEF IInv, PointInv, Writing
<1>5. DiskInv'
  BY <1>1, <1>2, <1>3, <1>4, SMTT(40) DEF IInv, DiskInv, DiskType, Roots, Retains
<1>6. DiskType'
  BY <1>2, Zenon DEF IInv, DiskType
<1>7. store.next \in Sequences
  BY <1>1, SMTT(60)
<1> QED
  BY <1>1, <1>2, <1>3, <1>5, <1>6, <1>7, Zenon

\* A transaction that has a Mutating snapshot changes what it holds.
LEMMA Mutated ==
  ASSUME IInv, pc \in Mutating \cup RollingBack, root' \in Roots, output' \in Folders, txn' = txn,
         root'.exists = root.exists, root'.journal = root.journal,
         txn.mode = "Entries" => root'.previous = root.previous,
         txn.mode = "Swap" => root'.backups = root.backups
  PROVE  DiskType' /\ DiskInv'
  BY ZenonT(60) DEF IInv, DiskType, DiskInv, PointInv

\* A rendered artifact is content, so a destination that matches is occupied.
LEMMA Matching ==
  ASSUME DiskType, NEW i \in Entries, PathMatchesEntry(output, i)
  PROVE  DestinationExists(i) /\ output[txn.dest[i]] = Rendered(i, txn.payload)
<1>1. Rendered(i, txn.payload) \in Content
  BY Zenon DEF Rendered, Content, DiskType, Transactions
<1> QED
  BY <1>1, ZenonT(60) DEF PathMatchesEntry, Validates, DestinationExists

\* Moving an entry's destination to the discard directory.
LEMMA Discarding ==
  ASSUME IInv, at \in Entries, output # Missing, MoveToDiscard
  PROVE  /\ output' \in Directory /\ output'[txn.dest[at]] = Absent
         /\ \A n \in Names : n # txn.dest[at] => output'[n] = output[n]
         /\ root' \in Roots
         /\ root'.exists = root.exists /\ root'.staged = root.staged /\ root'.journal = root.journal
         /\ root'.backups = root.backups /\ root'.previous = root.previous
<1>1. output \in Directory /\ txn.dest[at] \in Names /\ root \in Roots
  BY ZenonT(60) DEF Folders, IInv, DiskType, Transactions
<1>2. output' \in Directory /\ output'[txn.dest[at]] = Absent /\ \A n \in Names : n # txn.dest[at] => output'[n] = output[n]
  BY <1>1, ZenonT(60) DEF MoveToDiscard, Directory
<1>3. root' = [root EXCEPT !.discard = root.discard \cup {at}] /\ root.discard \cup {at} \in SUBSET Entries
  BY <1>1, ZenonT(60) DEF MoveToDiscard, Roots
<1> QED
  BY <1>1, <1>2, <1>3, Zenon DEF Roots

\* One entry is rolled back, or its failure is collected.
LEMMA RolledOne ==
  ASSUME IInv, pc \in {"rollback", "restore"}, at \in Entries, txn.mode = "Entries",
         txn' = txn, spent' \in Counters, output' \in Folders, root' \in Roots,
         root'.exists = root.exists, root'.journal = root.journal, root'.previous = root.previous,
         \A i \in Entries : i # at => root'.backups[i] = root.backups[i],
         NEW fails, RollbackNext(fails), root'.backups[at] = Absent \/ fails
  PROVE  IInv'
<1>1. ~failed' => ~failed /\ root'.backups[at] = Absent
  BY Zenon DEF RollbackNext
<1>3. ControlType' /\ PointInv'
  BY SMTT(40) DEF RollbackNext, IInv, ControlType, PointInv, Writing
<1>2. LoopInv'
  BY <1>1, SMTT(60) DEF RollbackNext, IInv, LoopInv, ControlType
<1> QED
  BY <1>2, <1>3, Mutated, Zenon DEF IInv

\* The processes that do not hold the lock change the output directory only.
LEMMA OutsideStep ==
  ASSUME IInv, output' \in Folders, spent' \in Counters,
         UNCHANGED <<root, txn, pc, at, store, recovering, failed, request, verdict, outcome>>
  PROVE  IInv'
<1>1. DiskType' /\ DiskInv' /\ ControlType' /\ LoopInv'
  BY SMTT(60) DEF IInv, DiskType, DiskInv, ControlType, LoopInv, Retains, NoBackups
<1>2. PointInv'
  BY SMTT(60) DEF IInv, PointInv, NothingFrom, Retains, NoBackups, Writing
<1> QED
  BY <1>1, <1>2, Zenon DEF IInv

\* Someone else's edit keeps the types and is counted.
LEMMA Edited1 == ASSUME IInv, Edit PROVE output' \in Folders /\ spent' \in Counters /\ spent'.edits # spent.edits
<1>1. PICK n \in Names, c \in {Absent} \cup [kind : Kinds, bytes : {Edited}] :
            /\ output' = [output EXCEPT ![n] = c]
            /\ spent' = [spent EXCEPT !.edits = @ + 1,
                                      !.late = IF PastValidation THEN @ \cup {n} ELSE @]
  BY ZenonT(60) DEF Edit
<1>2. output \in Directory /\ c \in Content \cup {Absent}
  BY Zenon DEF Edit, IInv, DiskType, Folders, Content
<1>3. spent \in Counters /\ spent.edits + 1 \in Nat /\ spent.late \in SUBSET Names
  BY CountersAre, Zenon DEF IInv, ControlType
<1>4. spent' \in Counters /\ spent'.edits = spent.edits + 1
  <2> DEFINE k == spent.edits + 1
             l == IF PastValidation THEN spent.late \cup {n} ELSE spent.late
             q == [spent EXCEPT !.edits = k]
  <2>1. l \in SUBSET Names /\ spent' = [q EXCEPT !.late = l]
    BY <1>1, <1>3, SMTT(60)
  <2>2. q \in Counters
    BY <1>3, Zenon DEF Counters
  <2>3. q.edits = k
    BY <1>3, Zenon DEF Counters
  <2> HIDE DEF q, l
  <2>4. [q EXCEPT !.late = l] \in Counters
    BY <2>1, <2>2, Zenon DEF Counters
  <2>5. [q EXCEPT !.late = l].edits = q.edits
    BY <2>2, Zenon DEF Counters
  <2> QED
    BY <2>1, <2>3, <2>4, <2>5, Zenon
<1> QED
  BY <1>1, <1>2, <1>4, CountersAre, ZenonT(60) DEF Directory, Folders, IInv, ControlType

\* Every step preserves the invariant.
LEMMA NextStep == ASSUME IInv, [Next]_vars PROVE IInv'
<1>1. CASE Begin
  <2> USE <1>1
  <2>1. DiskType' /\ DiskInv'
    BY ZenonT(60) DEF Begin, Unlocked, EmptyDirectory, Directory, Folders, IInv, DiskType, DiskInv, Retains, NoBackups
  <2>2. spent' \in Counters
    BY Spending, Counting, Zenon DEF Begin, Unlocked, IInv, ControlType
  <2>3. ControlType'
    BY <2>2 DEF Begin, Unlocked, IInv, ControlType, Requests
  <2> QED
    BY <2>1, <2>3, Zenon DEF Begin, Unlocked, IInv, PointInv, LoopInv, Writing
<1>2. CASE Recover
  <2> USE <1>2
  <2>0. DiskType /\ DiskInv /\ DiskType' /\ DiskInv' /\ Retains' = Retains /\ root' = root /\ spent' \in Counters
    BY SameDisk, Zenon DEF Recover, RecoverNothing, RecoverUnknown, RecoverUnstarted, RecoverMutating,
       RecoverRollingBack, RecoverCommitted, IInv, ControlType
  <2>1. CASE RecoverNothing
    BY <2>0, <2>1, ZenonT(60) DEF RecoverNothing, IInv, DiskInv, ControlType, PointInv, LoopInv, Writing
  <2>2. CASE RecoverUnknown
    <3>1. RootIsEmpty => ~Retains
      BY RootsAre, Zenon DEF RootIsEmpty, Retains
    <3> QED
      BY <2>0, <2>2, <3>1, Stopping, Cleaning, Zenon DEF RecoverUnknown
  <2>3. CASE RecoverUnstarted
    BY <2>0, <2>3, Latest, Cleaning, ZenonT(60) DEF RecoverUnstarted, DiskInv
  <2>4. CASE RecoverMutating
    <3>1. root.journal[2] = "Mutating" /\ root.journal[3] \notin Phases /\ LatestSequence = 2
      BY <2>0, <2>4, Latest, Zenon DEF RecoverMutating, DiskInv
    <3>2. ControlType' /\ PointInv' /\ LoopInv'
      BY <2>0, <2>4, <3>1, SMTT(60) DEF RecoverMutating, IInv, ControlType, Stores, PointInv, LoopInv, Writing, NothingFrom, DiskInv
    <3> QED
      BY <2>0, <3>2, Zenon DEF IInv
  <2>5. CASE RecoverRollingBack
    <3>1. root.journal[3] = "RollingBack"
      BY <2>0, <2>5, Latest, ZenonT(60) DEF RecoverRollingBack, DiskInv
    <3> QED
      BY <2>0, <2>5, <3>1, SMTT(60) DEF RecoverRollingBack, IInv, ControlType, PointInv, LoopInv, Writing
  <2>6. CASE RecoverCommitted
    <3>1. root.journal[3] = "Committed"
      BY <2>0, <2>6, Latest, Zenon DEF RecoverCommitted, DiskInv
    <3> QED
      BY <2>0, <2>6, <3>1, ZenonT(60) DEF RecoverCommitted, Continue, IInv, ControlType, PointInv, LoopInv, Writing
  <2> QED
    BY <2>1, <2>2, <2>3, <2>4, <2>5, <2>6, Zenon DEF Recover
<1>3. CASE Plan
  <2> USE <1>3
  <2>1. CASE output # Missing /\ \A i \in Entries : Resolvable(i)
    <3>1. DiskType' /\ ControlType'
      BY <2>1, Planned, RootsAre, SMTT(60) DEF Plan, IInv, DiskType, ControlType, Stores
    <3> QED
      BY <2>1, <3>1, RootsAre, SMTT(60) DEF Plan, IInv, DiskInv, PointInv, LoopInv, Retains, NoJournal, NothingFrom, NoBackups, Writing
  <2>2. CASE Stop("unchanged") /\ UNCHANGED <<root, txn>>
    BY <2>2, SameDisk, Stopping, Zenon DEF Plan, disk, IInv, ControlType
  <2> QED
    BY <2>1, <2>2, Zenon DEF Plan
<1>4. CASE CreateSnapshot
  <2> USE <1>4
  <2>0. Writing(Phases)
    BY Zenon DEF CreateSnapshot, Writing, IInv, ControlType, Stores
  <2>1. CASE root.journal[store.next] = "none"
    <3>1. /\ store.next = NumberOf(store.target) /\ store.target \in Phases /\ store.next \in Sequences
          /\ root'.journal = [root.journal EXCEPT ![store.next] = "torn"]
          /\ DiskType' /\ DiskInv' /\ root'.exists /\ root'.staged = root.staged
          /\ root'.backups = root.backups /\ root'.previous = root.previous /\ Retains' = Retains
      BY <2>0, <2>1, Journalled, Zenon DEF CreateSnapshot
    <3>2. ControlType' /\ LoopInv'
      BY <2>1, ZenonT(60) DEF CreateSnapshot, Continue, IInv, ControlType, LoopInv
    <3>3. PointInv'
      BY <2>0, <2>1, <3>1, SMTT(40) DEF CreateSnapshot, Continue, IInv, DiskType, Roots, PointInv, NothingFrom, Writing
    <3> QED
      BY <3>1, <3>2, <3>3, Zenon DEF IInv
  <2>2. CASE PersistFailed /\ UNCHANGED root
    BY <2>0, <2>2, SameDisk, Unpersisted, Zenon DEF CreateSnapshot, disk, IInv, ControlType
  <2> QED
    BY <2>1, <2>2, Zenon DEF CreateSnapshot
<1>5. CASE WriteSnapshot
  <2> USE <1>5
  <2>0. Writing(Phases)
    BY Zenon DEF WriteSnapshot, Writing, IInv, ControlType, Stores
  <2>1. /\ store.next = NumberOf(store.target) /\ store.target \in Phases /\ store.next \in Sequences
        /\ root'.journal = [root.journal EXCEPT ![store.next] = store.target]
        /\ DiskType' /\ DiskInv' /\ root'.exists /\ root'.staged = root.staged
        /\ root'.backups = root.backups /\ root'.previous = root.previous /\ Retains' = Retains
    BY <2>0, Journalled, Zenon DEF WriteSnapshot
  <2>2. store' = [target |-> store.target, next |-> store.next + 1] /\ pc' = AfterPersist
    BY Zenon DEF WriteSnapshot, IInv, ControlType, Stores
  <2>3. ControlType'
    BY <2>1, <2>2, SMTT(40) DEF WriteSnapshot, AfterPersist, IInv, DiskType, ControlType, Stores
  <2>4. PointInv'
    <3>1. CASE store.target = "Staging"
      BY <2>0, <2>1, <2>2, <3>1, SMTT(60) DEF WriteSnapshot, AfterPersist, IInv, DiskType, Roots, PointInv, NothingFrom, Writing
    <3>4. CASE store.target = "Prepared"
      BY <2>0, <2>1, <2>2, <3>4, SMTT(60) DEF WriteSnapshot, AfterPersist, IInv, DiskType, Roots, PointInv, NothingFrom, Writing
    <3>2. CASE store.target = "Mutating"
      BY <2>0, <2>1, <2>2, <3>2, SMTT(60) DEF WriteSnapshot, AfterPersist, IInv, DiskType, Roots, PointInv, NothingFrom, Writing
    <3>3. CASE store.target \in {"RollingBack", "Committed"}
      BY <2>0, <2>1, <2>2, <3>3, SMTT(40) DEF WriteSnapshot, AfterPersist, IInv, DiskType, Roots, PointInv, NothingFrom, Writing
    <3> QED
      BY <2>1, <3>1, <3>2, <3>3, <3>4, Zenon
  <2>5. LoopInv'
    BY <2>0, <2>1, <2>2, SMTT(40) DEF WriteSnapshot, AfterPersist, IInv, DiskType, Transactions, PointInv, LoopInv, Retains, NoBackups, Writing
  <2> QED
    BY <2>1, <2>3, <2>4, <2>5, Zenon DEF IInv
<1>6. CASE Stage
  <2> USE <1>6
  <2>1. ASSUME NEW n \in Names, \E i \in Entries : txn.dest[i] = n
        PROVE  Rendered(CHOOSE i \in Entries : txn.dest[i] = n, txn.payload) \in Content
    <3>1. PICK j \in Entries : j = CHOOSE i \in Entries : txn.dest[i] = n
      BY <2>1, Zenon
    <3> QED
      BY <3>1, ZenonT(60) DEF Rendered, Content, IInv, DiskType, Transactions
  <2>2. StagedOutput \in Directory
    BY <2>1, Zenon DEF StagedOutput, Directory
  <2>3. /\ root' \in Roots /\ root'.exists = root.exists /\ root'.journal = root.journal
        /\ root'.backups = root.backups /\ root'.previous = root.previous /\ root'.staged \in Directory
    BY <2>2, ZenonT(60) DEF Stage, IInv, DiskType, Roots, Folders
  <2>4. DiskType' /\ ControlType'
    BY <2>3, Zenon DEF Stage, Persist, IInv, DiskType, ControlType, Stores
  <2>5. DiskInv' /\ PointInv' /\ LoopInv'
    BY <2>3, SMTT(60) DEF Stage, Persist, IInv, DiskInv, ControlType, Stores, PointInv, LoopInv, Retains, NoBackups, NothingFrom, Writing
  <2> QED
    BY <2>4, <2>5, Zenon DEF IInv
<1>7. CASE ValidateBeforeMutation
  <2> USE <1>7
  <2>1. CASE CleanThen("unchanged")
    <3>1. ~Retains /\ root.exists /\ spent' \in Counters /\ UNCHANGED disk
      BY Zenon DEF ValidateBeforeMutation, IInv, ControlType, PointInv
    <3> QED
      BY <2>1, <3>1, SameDisk, Cleaning, SMTT(60)
  <2>2. CASE Persist("Mutating")
    <3>1. ControlType' /\ LoopInv'
      BY <2>2, ZenonT(60) DEF Persist, ValidateBeforeMutation, IInv, ControlType, Stores, LoopInv
    <3>2. PointInv'
      BY <2>2, SameDisk, SMTT(60) DEF Persist, ValidateBeforeMutation, IInv, ControlType, Stores, PointInv, Writing, NothingFrom
    <3> QED
      BY <3>1, <3>2, SameDisk, Zenon DEF ValidateBeforeMutation, IInv
  <2> QED
    BY <2>1, <2>2, Zenon DEF ValidateBeforeMutation
<1>8. CASE Backup
  <2> USE <1>8
  <2>0. at \in Entries /\ txn.mode = "Entries" /\ root \in Roots /\ pc = "backup" /\ txn \in Transactions
    BY Zenon DEF Backup, IInv, DiskType, LoopInv
  <2>1. CASE /\ DestinationExists(at) /\ NextEntry("backup", "install")
             /\ root' = [root EXCEPT !.backups[at] = output[txn.dest[at]]]
             /\ output' = [output EXCEPT ![txn.dest[at]] = Absent]
    <3>1. output \in Directory /\ output[txn.dest[at]] \in Held1 /\ txn.dest[at] \in Names
      BY <2>0, <2>1, Zenon DEF DestinationExists, Directory, Folders, Held1, IInv, DiskType, Transactions
    <3>2. /\ root' \in Roots /\ root'.staged = root.staged
          /\ root'.exists = root.exists /\ root'.journal = root.journal /\ root'.previous = root.previous
          /\ root'.backups = [root.backups EXCEPT ![at] = output[txn.dest[at]]]
      BY <2>0, <2>1, <3>1, ZenonT(60) DEF Roots
    <3>3. output' \in Folders
      BY <2>1, <3>1, Zenon DEF Directory, Folders
    <3>4. ControlType' /\ LoopInv'
      BY <2>0, <2>1, <3>2, SMTT(60) DEF Backup, NextEntry, IInv, ControlType, LoopInv, Roots
    <3>5. PointInv'
      BY <2>0, <2>1, <3>2, ZenonT(60) DEF NextEntry, IInv, PointInv, NothingFrom, Writing
    <3> QED
      BY <2>0, <3>2, <3>3, <3>4, <3>5, Mutated, Zenon DEF Backup, IInv
  <2>2. CASE NextEntry("backup", "install") /\ UNCHANGED <<output, root>>
    <3>1. UNCHANGED disk /\ spent' = spent
      BY <2>2, Zenon DEF Backup, disk
    <3>2. ControlType' /\ LoopInv'
      BY <2>0, <2>2, <3>1, SMTT(60) DEF NextEntry, disk, IInv, ControlType, LoopInv
    <3>3. PointInv'
      BY <2>0, <2>2, <3>1, SameDisk, ZenonT(60) DEF NextEntry, IInv, PointInv, NothingFrom, Writing
    <3> QED
      BY <3>1, <3>2, <3>3, SameDisk, Zenon DEF IInv
  <2>3. CASE MutationFailed /\ UNCHANGED <<output, root>>
    BY <2>0, <2>3, Failing, Zenon DEF Backup, disk, IInv, ControlType
  <2> QED
    BY <2>1, <2>2, <2>3, Zenon DEF Backup
<1>9. CASE Install
  <2> USE <1>9
  <2>0. /\ at \in Entries /\ txn.mode = "Entries" /\ root \in Roots /\ pc = "install"
        /\ txn.dest[at] \in Names /\ root.staged \in Directory
    BY ZenonT(60) DEF Install, IInv, DiskType, LoopInv, PointInv, Transactions
  <2>1. CASE /\ output # Missing /\ NextEntry("install", "validate")
             /\ output' = [output EXCEPT ![txn.dest[at]] = root.staged[txn.dest[at]]]
             /\ root' = root \/ root' = [root EXCEPT !.staged[txn.dest[at]] = Absent]
    <3>1. output' \in Folders
      BY <2>0, <2>1, ZenonT(60) DEF Directory, Folders, IInv, DiskType
    <3>2. /\ root' \in Roots /\ root'.staged \in Directory /\ root'.backups = root.backups
          /\ root'.exists = root.exists /\ root'.journal = root.journal /\ root'.previous = root.previous
      <4>1. CASE root' = [root EXCEPT !.staged[txn.dest[at]] = Absent]
        <5>1. [root.staged EXCEPT ![txn.dest[at]] = Absent] \in Directory
          BY <2>0, Zenon DEF Directory
        <5> QED
          BY <2>0, <4>1, <5>1, ZenonT(60) DEF Roots, Folders
      <4> QED
        BY <2>0, <2>1, <4>1, Zenon
    <3>3. ControlType' /\ LoopInv'
      BY <2>0, <2>1, SMTT(60) DEF Install, NextEntry, IInv, ControlType, LoopInv
    <3>4. PointInv'
      BY <2>0, <2>1, <3>2, ZenonT(60) DEF NextEntry, IInv, PointInv, NothingFrom, Writing
    <3> QED
      BY <2>0, <3>1, <3>2, <3>3, <3>4, Mutated, Zenon DEF Install, IInv
  <2>2. CASE MutationFailed /\ UNCHANGED <<output, root>>
    BY <2>0, <2>2, Failing, Zenon DEF Install, disk, IInv, ControlType
  <2> QED
    BY <2>1, <2>2, Zenon DEF Install
<1>10. CASE SwapOut \/ SwapIn
  <2> USE <1>10
  <2>0. root \in Roots /\ output \in Folders /\ txn.mode = "Swap" /\ pc \in {"swapOut", "swapIn"} /\ root.staged \in Directory
    BY ZenonT(60) DEF SwapOut, SwapIn, IInv, DiskType, LoopInv, PointInv
  <2>1. CASE \/ SwapOut /\ root' = [root EXCEPT !.previous = output] /\ output' = Missing /\ Continue("swapCheck")
             \/ SwapIn /\ root' = [root EXCEPT !.staged = Missing] /\ output' = root.staged /\ Continue("validate")
    <3>1. /\ root' \in Roots /\ output' \in Folders
          /\ root'.exists = root.exists /\ root'.journal = root.journal /\ root'.backups = root.backups
          /\ SwapOut => root'.staged = root.staged
      <4>1. CASE root' = [root EXCEPT !.previous = output] /\ output' = Missing
        BY <2>0, <4>1, ZenonT(60) DEF Roots, Folders
      <4>2. CASE SwapIn /\ root' = [root EXCEPT !.staged = Missing] /\ output' = root.staged
        <5>1. ~SwapOut
          BY <4>2, Zenon DEF SwapOut, SwapIn
        <5> QED
          BY <2>0, <4>2, <5>1, ZenonT(60) DEF Roots, Folders
      <4> QED
        BY <2>1, <4>1, <4>2, Zenon
    <3>2. ControlType' /\ LoopInv'
      BY <2>0, <2>1, ZenonT(60) DEF SwapOut, SwapIn, Continue, IInv, ControlType, LoopInv
    <3>3. PointInv'
      BY <2>0, <2>1, <3>1, ZenonT(60) DEF SwapOut, SwapIn, Continue, IInv, PointInv, NothingFrom, Writing
    <3> QED
      BY <2>0, <3>1, <3>2, <3>3, Mutated, Zenon DEF SwapOut, SwapIn, IInv
  <2>2. CASE MutationFailed /\ UNCHANGED <<output, root>>
    BY <2>0, <2>2, Failing, ZenonT(60) DEF SwapOut, SwapIn, disk, IInv, ControlType
  <2> QED
    BY <2>1, <2>2, ZenonT(60) DEF SwapOut, SwapIn
<1>11. CASE SwapCheck
  <2> USE <1>11
  <2>0. UNCHANGED disk /\ spent' \in Counters /\ pc = "swapCheck"
    BY Zenon DEF SwapCheck, IInv, ControlType
  <2>1. CASE Continue("swapIn")
    <3>1. ControlType' /\ LoopInv'
      BY <2>0, <2>1, Zenon DEF Continue, IInv, ControlType, LoopInv, disk
    <3>2. PointInv'
      BY <2>0, <2>1, SameDisk, ZenonT(60) DEF Continue, IInv, PointInv, NothingFrom, Writing
    <3> QED
      BY <2>0, <3>1, <3>2, SameDisk, Zenon DEF IInv
  <2> QED
    BY <2>0, <2>1, Failing, Zenon DEF SwapCheck
<1>12. CASE ValidateCommitted
  <2> USE <1>12
  <2>0. UNCHANGED disk /\ spent' \in Counters /\ pc = "validate"
    BY Zenon DEF ValidateCommitted, IInv, ControlType
  <2>1. CASE Continue("sync")
    <3>1. ControlType' /\ LoopInv'
      BY <2>0, <2>1, Zenon DEF Continue, IInv, ControlType, LoopInv, disk
    <3>2. PointInv'
      BY <2>0, <2>1, SameDisk, ZenonT(40) DEF Continue, IInv, PointInv, NothingFrom, Writing
    <3> QED
      BY <2>0, <3>1, <3>2, SameDisk, Zenon DEF IInv
  <2> QED
    BY <2>0, <2>1, Failing, Zenon DEF ValidateCommitted
<1>13. CASE SyncOutput
  <2> USE <1>13
  <2>1. ControlType' /\ LoopInv'
    BY Zenon DEF SyncOutput, Persist, IInv, ControlType, Stores, LoopInv
  <2>2. PointInv'
    BY SameDisk, ZenonT(40) DEF SyncOutput, Persist, IInv, ControlType, Stores, PointInv, Writing, NothingFrom
  <2> QED
    BY <2>1, <2>2, SameDisk, Zenon DEF SyncOutput, IInv
<1>14. CASE FinalizeCommitted
  BY <1>14, SameDisk, Stopping, Cleaning, ZenonT(60) DEF FinalizeCommitted, IInv, ControlType, PointInv
<1>15. CASE RollbackReplaced \/ RollbackCreated \/ RollbackOriginal
  <2> USE <1>15
  <2>0. /\ at \in Entries /\ root \in Roots /\ output \in Folders /\ DiskType /\ spent' \in Counters
        /\ pc = "rollback" /\ txn.mode = "Entries" /\ txn' = txn
    <3>1. at > 0 /\ pc = "rollback" /\ txn.mode = "Entries" /\ UNCHANGED <<txn, spent>>
      BY Zenon DEF RollbackReplaced, RollbackCreated, RollbackOriginal, disk
    <3> QED
      BY <3>1, SMTT(60) DEF IInv, DiskType, ControlType
  <2>1. \/ UNCHANGED <<output, root>>
        \/ MoveToDiscard /\ output # Missing
    BY Zenon DEF RollbackReplaced, RollbackCreated, RollbackOriginal, disk, PathMatchesEntry, Validates
  <2>2. /\ output' \in Folders /\ root' \in Roots
        /\ root'.exists = root.exists /\ root'.journal = root.journal
        /\ root'.backups = root.backups /\ root'.previous = root.previous
    BY <2>0, <2>1, Discarding, ZenonT(60) DEF Folders
  <2>3. CASE pc' = "rollback"
    <3>1. PICK fails : RollbackNext(fails) /\ (root.backups[at] = Absent \/ fails)
      BY <2>3, Zenon DEF RollbackReplaced, RollbackCreated, RollbackOriginal, Continue, HasBackup
    <3> QED
      BY <2>0, <2>2, <3>1, RolledOne, ZenonT(60)
  <2>4. CASE Continue("restore") /\ HasBackup
    <3>1. ControlType' /\ LoopInv' /\ PointInv'
      BY <2>0, <2>2, <2>4, ZenonT(40) DEF Continue, HasBackup, IInv, LoopInv, ControlType, PointInv, Writing
    <3> QED
      BY <2>0, <2>2, <3>1, Mutated, Zenon DEF IInv
  <2> QED
    BY <2>3, <2>4, Zenon DEF RollbackReplaced, RollbackCreated, RollbackOriginal, RollbackNext
<1>16. CASE Restore
  <2> USE <1>16
  <2>0. at \in Entries /\ root \in Roots /\ txn.mode = "Entries" /\ txn \in Transactions /\ output \in Folders /\ spent' \in Counters
    BY Zenon DEF Restore, IInv, DiskType, ControlType, LoopInv
  <2>1. CASE RollbackNext(TRUE) /\ UNCHANGED <<output, root>>
    BY <2>0, <2>1, RolledOne, Zenon DEF Restore
  <2>2. CASE /\ output # Missing /\ RollbackNext(FALSE)
             /\ output' = [output EXCEPT ![txn.dest[at]] = root.backups[at]]
             /\ root' = [root EXCEPT !.backups[at] = Absent]
    <3>1. output' \in Folders
      BY <2>0, <2>2, ZenonT(60) DEF Folders, Directory, Transactions, Roots, Held1
    <3>2. /\ root' \in Roots
          /\ root'.exists = root.exists /\ root'.journal = root.journal /\ root'.previous = root.previous
          /\ root'.backups[at] = Absent /\ \A i \in Entries : i # at => root'.backups[i] = root.backups[i]
      BY <2>0, <2>2, ZenonT(40) DEF Roots, Held1
    <3> QED
      BY <2>0, <2>2, <3>1, <3>2, RolledOne, Zenon DEF Restore
  <2> QED
    BY <2>1, <2>2, ZenonT(60) DEF Restore
<1>17. CASE RollbackEntriesDone
  <2> USE <1>17
  <2>1. CASE ~failed /\ Continue("resync")
    <3>1. ~Retains
      <4>1. root.previous = Missing /\ root.backups \in [Entries -> Held1]
        BY Zenon DEF RollbackEntriesDone, IInv, DiskType, DiskInv, Roots
      <4>2. \A i \in Entries : root.backups[i] = Absent
        BY <2>1, SMTT(60) DEF RollbackEntriesDone, IInv, LoopInv
      <4> QED
        BY <4>1, <4>2, ZenonT(60) DEF Retains, NoBackups
    <3>2. ControlType' /\ LoopInv' /\ PointInv'
      BY <2>1, <3>1, SameDisk, SMTT(60) DEF RollbackEntriesDone, Continue, IInv, ControlType, LoopInv, PointInv, Writing
    <3> QED
      BY <3>2, SameDisk, Zenon DEF RollbackEntriesDone, IInv
  <2> QED
    BY <2>1, SameDisk, Stopping, Zenon DEF RollbackEntriesDone, RecoveryFailed, IInv, ControlType
<1>18. CASE RollbackSwap
  <2> USE <1>18
  <2>0. root \in Roots /\ output \in Folders /\ txn.mode = "Swap" /\ pc = "rollback" /\ txn' = txn /\ spent' \in Counters
    BY Zenon DEF RollbackSwap, IInv, DiskType, ControlType
  <2>1. \/ Continue("reinstate") /\ UNCHANGED <<output, root>>
        \/ Continue("reinstate") /\ output' = Missing /\ root' = [root EXCEPT !.discarded = TRUE]
        \/ Continue("resync") /\ UNCHANGED <<output, root>> /\ root.previous = Missing
        \/ (\E result : Stop(result)) /\ UNCHANGED <<output, root>>
    BY Zenon DEF RollbackSwap, RecoveryFailed
  <2>2. /\ output' \in Folders /\ root' \in Roots
        /\ root'.exists = root.exists /\ root'.journal = root.journal
        /\ root'.backups = root.backups /\ root'.previous = root.previous
    <3>1. CASE root' = [root EXCEPT !.discarded = TRUE]
      BY <2>0, <3>1, <2>1, ZenonT(40) DEF Roots, Folders
    <3> QED
      BY <2>0, <2>1, <3>1, Zenon
  <2>3. DiskType' /\ DiskInv'
    BY <2>0, <2>2, Mutated, Zenon
  <2>4. CASE Continue("reinstate") \/ (Continue("resync") /\ root.previous = Missing)
    <3>1. ControlType' /\ LoopInv' /\ PointInv'
      BY <2>0, <2>2, <2>4, ZenonT(40) DEF Continue, IInv, ControlType, LoopInv, PointInv, DiskInv, Retains, NoBackups, Writing
    <3> QED
      BY <2>3, <3>1, Zenon DEF IInv
  <2> QED
    BY <2>0, <2>1, <2>3, <2>4, Stopping, Zenon
<1>19. CASE Reinstate
  <2> USE <1>19
  <2>0. root \in Roots /\ output \in Folders /\ txn.mode = "Swap" /\ pc = "reinstate" /\ txn' = txn /\ spent' \in Counters
    BY Zenon DEF Reinstate, IInv, DiskType, ControlType, LoopInv
  <2>1. CASE output' = root.previous /\ root' = [root EXCEPT !.previous = Missing] /\ Continue("resync")
    <3>1. /\ output' \in Folders /\ root' \in Roots
          /\ root'.exists = root.exists /\ root'.journal = root.journal
          /\ root'.backups = root.backups /\ root'.previous = Missing
      BY <2>0, <2>1, ZenonT(60) DEF Roots, Folders
    <3>2. ControlType' /\ LoopInv' /\ PointInv'
      BY <2>0, <2>1, <3>1, Zenon DEF Continue, IInv, ControlType, LoopInv, PointInv, DiskInv, Retains, NoBackups, Writing
    <3> QED
      BY <2>0, <3>1, <3>2, Mutated, Zenon DEF IInv
  <2>2. CASE RecoveryFailed /\ UNCHANGED <<output, root>>
    BY <2>0, <2>2, SameDisk, Stopping, Zenon DEF RecoveryFailed, disk
  <2> QED
    BY <2>1, <2>2, Zenon DEF Reinstate
<1>20. CASE SyncRestored
  <2> USE <1>20
  <2>1. ~Retains /\ root.exists /\ spent' \in Counters /\ UNCHANGED disk
    BY Zenon DEF SyncRestored, IInv, ControlType, PointInv
  <2> QED
    BY <2>1, SameDisk, Cleaning, SMTT(60) DEF SyncRestored
<1>21. CASE Cleanup
  <2> USE <1>21
  <2>0. root \in Roots /\ pc = "cleanup" /\ output' = output /\ txn' = txn /\ spent' \in Counters
    BY ZenonT(60) DEF Cleanup, CleanupOther, CleanupJournal, CleanupRoot, IInv, DiskType, ControlType
  <2>1. CASE CleanupRoot
    <3>1. DiskType' /\ DiskInv'
      BY <2>0, <2>1, RootsAre, SMTT(60) DEF CleanupRoot, IInv, DiskType, DiskInv, Retains, NoJournal
    <3>2. CASE Continue("recover")
      BY <2>0, <3>1, <3>2, ZenonT(60) DEF Continue, IInv, ControlType, PointInv, LoopInv, Writing
    <3> QED
      BY <2>0, <2>1, <3>1, <3>2, Stopping, Zenon DEF CleanupRoot
  <2>2. CASE CleanupOther \/ CleanupJournal
    <3>1. /\ root' \in Roots /\ root'.exists = root.exists
          /\ root'.backups \in {root.backups, NoBackups} /\ root'.previous \in {root.previous, Missing}
          /\ \/ root'.journal = root.journal
             \/ ~Retains /\ \E s \in Sequences : root'.journal = [root.journal EXCEPT ![s] = "none"]
      <4>1. CASE CleanupJournal
        <5>1. PICK s \in Sequences : root' = [root EXCEPT !.journal[s] = "none"]
          BY <4>1, Zenon DEF CleanupJournal
        <5>2. ~Retains
          BY <4>1, Zenon DEF CleanupJournal, OthersRemain, Retains
        <5>3. /\ root' \in Roots /\ root'.exists = root.exists /\ root'.backups = root.backups
              /\ root'.previous = root.previous /\ root'.journal = [root.journal EXCEPT ![s] = "none"]
          BY <2>0, <5>1, ZenonT(60) DEF Roots
        <5> QED
          BY <5>2, <5>3, Zenon
      <4>2. CASE CleanupOther
        <5>1. NoBackups \in [Entries -> Held1] /\ Missing \in Folders /\ {} \in SUBSET Entries
          BY ZenonT(60) DEF NoBackups, Held1, Folders
        <5>2. CASE root' = [root EXCEPT !.backups = NoBackups]
          BY <2>0, <5>1, <5>2, ZenonT(60) DEF Roots
        <5>6. CASE root' = [root EXCEPT !.previous = Missing]
          BY <2>0, <5>1, <5>6, ZenonT(60) DEF Roots
        <5>3. CASE root' = [root EXCEPT !.discard = {}]
          BY <2>0, <5>1, <5>3, ZenonT(60) DEF Roots
        <5>4. CASE root' = [root EXCEPT !.discarded = FALSE]
          BY <2>0, <5>4, ZenonT(60) DEF Roots
        <5>5. CASE root' = [root EXCEPT !.staged = Missing]
          BY <2>0, <5>1, <5>5, ZenonT(60) DEF Roots
        <5> QED
          BY <4>2, <5>2, <5>3, <5>4, <5>5, <5>6, ZenonT(60) DEF CleanupOther
      <4> QED
        BY <2>2, <4>1, <4>2, Zenon
    <3>2. DiskType' /\ DiskInv'
      BY <2>0, <3>1, SMTT(40) DEF IInv, DiskType, DiskInv, PointInv, Roots, Retains, NoBackups
    <3>4. UNCHANGED <<pc, at, store, failed, request, spent>>
      BY <2>2, Zenon DEF CleanupOther, CleanupJournal
    <3>5. root'.journal[3] = "Committed" \/ ~Retains'
      BY <2>0, <3>1, ZenonT(60) DEF IInv, PointInv, Retains, NoBackups
    <3>3. ControlType' /\ PointInv' /\ LoopInv'
      BY <2>0, <3>1, <3>4, <3>5, ZenonT(60) DEF IInv, ControlType, PointInv, LoopInv, Writing
    <3> QED
      BY <3>2, <3>3, Zenon DEF IInv
  <2> QED
    BY <2>1, <2>2, Zenon DEF Cleanup
<1>22. CASE Fault
  <2> USE <1>22
  <2>0. spent' \in Counters /\ DiskType /\ DiskInv /\ root \in Roots
    BY Spending, Zenon DEF Fault, IInv, DiskType, ControlType
  <2>1. CASE FaultBeforeMutation /\ pc = "stage"
    <3>1. /\ root' \in Roots /\ root'.exists = root.exists /\ root'.journal = root.journal
          /\ root'.backups = root.backups /\ root'.previous = root.previous
      <4>1. EmptyDirectory \in Folders
        BY Zenon DEF EmptyDirectory, Directory, Folders
      <4> QED
        BY <2>0, <2>1, <4>1, ZenonT(40) DEF FaultBeforeMutation, Roots
    <3>2. DiskType' /\ DiskInv' /\ ~Retains' /\ root'.exists
      BY <2>1, <3>1, Zenon DEF FaultBeforeMutation, IInv, DiskType, DiskInv, PointInv, Retains, NoBackups
    <3> QED
      BY <2>0, <2>1, <3>2, Cleaning, Zenon DEF FaultBeforeMutation
  <2>2. CASE FaultBeforeMutation /\ pc = "plan"
    <3>1. DiskType' /\ DiskInv'
      BY <2>2, RootsAre, SMTT(60) DEF FaultBeforeMutation, IInv, DiskType, DiskInv, PointInv, Retains, NoJournal
    <3> QED
      BY <2>0, <2>2, <3>1, Stopping, Zenon DEF FaultBeforeMutation
  <2>3. CASE FaultBeforeMutation /\ pc \in {"recover", "ready"}
    <3>1. UNCHANGED disk /\ (pc = "ready" => ~Retains /\ root.exists)
      BY <2>3, ZenonT(60) DEF FaultBeforeMutation, disk, IInv, PointInv
    <3> QED
      BY <2>0, <2>3, <3>1, SameDisk, Stopping, Cleaning, SMTT(60) DEF FaultBeforeMutation
  <2>4. CASE FaultInPersist
    <3>1. Writing(Phases) /\ PersistFailed
      BY <2>4, Zenon DEF FaultInPersist, Writing, IInv, ControlType, Stores
    <3>2. CASE UNCHANGED root
      BY <2>0, <2>4, <3>1, <3>2, SameDisk, Unpersisted, Zenon DEF FaultInPersist, disk
    <3>3. CASE root' = [root EXCEPT !.journal[store.next] = store.target]
      <4>1. root.exists
        BY <3>1, Zenon DEF IInv, PointInv, Writing
      <4>2. DiskType' /\ DiskInv' /\ root'.exists = root.exists /\ Retains' = Retains
        <5>1. UNCHANGED <<output, txn>> /\ store.target \in {"torn", store.target}
          BY <2>4, ZenonT(60) DEF FaultInPersist
        <5>2. DiskType' /\ DiskInv' /\ root'.exists /\ Retains' = Retains
          BY <3>1, <3>3, <5>1, Journalled, Zenon
        <5> QED
          BY <4>1, <5>2, <2>0, <3>3, Zenon DEF Roots
      <4> QED
        BY <2>0, <3>1, <4>2, Unpersisted, Zenon
    <3> QED
      BY <2>4, <3>2, <3>3, Zenon DEF FaultInPersist
  <2>5. CASE FaultInMutation
    BY <2>0, <2>5, SameDisk, Stopping, Failing, ZenonT(60) DEF FaultInMutation
  <2>6. CASE FaultInRollback
    <3>1. CASE RollbackNext(TRUE) /\ at > 0 /\ txn.mode = "Entries" /\ pc \in {"rollback", "restore"} /\ UNCHANGED disk
      <4>1. at \in Entries
        BY <3>1, SMTT(60) DEF IInv, ControlType
      <4> QED
        BY <2>0, <3>1, <4>1, RolledOne, ZenonT(60) DEF disk, DiskType
    <3> QED
      BY <2>0, <2>6, <3>1, SameDisk, Stopping, ZenonT(60) DEF FaultInRollback, RecoveryFailed
  <2>7. CASE FaultInCleanup
    BY <2>0, <2>7, SameDisk, Stopping, Zenon DEF FaultInCleanup
  <2> QED
    BY <2>1, <2>2, <2>3, <2>4, <2>5, <2>6, <2>7, Zenon DEF Fault, FaultBeforeMutation
<1>23. CASE Crash
  BY <1>23, SameDisk, Stopping, Spending, Zenon DEF Crash, IInv, ControlType
<1>24. CASE PrepareByOther
  <2>1. output' \in Folders /\ spent' \in Counters
    BY <1>24, Zenon DEF PrepareByOther, EmptyDirectory, Directory, Folders, IInv, ControlType
  <2> QED
    BY <1>24, <2>1, OutsideStep, Zenon DEF PrepareByOther
<1>25. CASE Edit
  BY <1>25, Edited1, OutsideStep, Zenon DEF Edit
<1>26. CASE UNCHANGED vars
  BY <1>26, OutsideStep, Zenon DEF vars, IInv, DiskType, ControlType
<1> QED
    BY <1>1, <1>2, <1>3, <1>4, <1>5, <1>6, <1>7, <1>8, <1>9, <1>10, <1>11, <1>12, <1>13, <1>14,
     <1>15, <1>16, <1>17, <1>18, <1>19, <1>20, <1>21, <1>22, <1>23, <1>24, <1>25, <1>26, Zenon DEF Next,
     Exporter, Commit, Rollback

\* What every reachable state of the transaction satisfies: each phase has its
\* place in the journal, the program counter agrees with the latest snapshot,
\* and originals are held below the root only while a snapshot says so.
THEOREM JournalExplains == Spec => []IInv
  BY Initial, NextStep, PTL DEF Spec

\* While the exporter mutates or rolls back, the latest snapshot says so.
LEMMA Explained ==
  ASSUME IInv
  PROVE  /\ pc \in Mutating \cup RollingBack => Undecided
         /\ pc = "cleanup" /\ Retains => root.exists /\ LatestPhase = "Committed"
<1>1. pc \in Mutating => root.journal[2] = "Mutating" /\ root.journal[3] \notin Phases
  BY SMTT(60) DEF IInv, PointInv, NothingFrom
<1> QED
  BY <1>1, Latest, ZenonT(60) DEF IInv, PointInv, Undecided

\* Write-ahead rule (commit.rs, persist before every mutation), for any number
\* of artifacts, crashes, faults and edits.
THEOREM WritesAhead == Spec => WriteAhead
<1>1. ASSUME IInv, Exporter, output' # output PROVE pc \in Mutating \cup RollingBack
  <2>1. ~Recover /\ ~Plan /\ ~CreateSnapshot /\ ~WriteSnapshot /\ ~Stage
    BY <1>1, ZenonT(60) DEF Recover, RecoverNothing, RecoverUnknown, RecoverUnstarted, RecoverMutating,
       RecoverRollingBack, RecoverCommitted, Plan, CreateSnapshot, WriteSnapshot, Stage, disk
  <2>2. ~Cleanup
    BY <1>1, Zenon DEF Cleanup, CleanupOther, CleanupJournal, CleanupRoot
  <2>3. ~ValidateBeforeMutation /\ ~FinalizeCommitted /\ ~SyncRestored
    BY <1>1, Zenon DEF ValidateBeforeMutation, FinalizeCommitted, SyncRestored, disk
  <2> QED
    BY <1>1, <2>1, <2>2, <2>3, Zenon DEF Exporter, Commit, Backup, Install, SwapOut, SwapCheck, SwapIn,
       ValidateCommitted, SyncOutput, Rollback, RollbackReplaced, Restore, RollbackOriginal,
       RollbackCreated, RollbackEntriesDone, RollbackSwap, Reinstate
<1>2. ASSUME IInv, [Next]_vars, Exporter /\ output' # output PROVE Undecided
  BY <1>1, <1>2, Explained, Zenon
<1> QED
  BY <1>2, JournalExplains, PTL DEF Spec, WriteAhead

-----------------------------------------------------------------------------
(***************************************************************************)
(* Where the originals are: no export loses one that it has not replaced.  *)
(***************************************************************************)
\* A step that moves each held original to a place that is looked at keeps all.
LEMMA KeepsHeld ==
  ASSUME \A n \in Names : Listing(output)[n] # Absent /\ (Undecided => <<n, Listing(output)[n]>> \notin Installed)
           => <<n, Listing(output)[n]>> \in Held',
         \A n \in Names : Listing(root.previous)[n] # Absent => <<n, Listing(root.previous)[n]>> \in Held',
         \A i \in Entries : root.backups[i] # Absent => <<txn.dest[i], root.backups[i]>> \in Held'
  PROVE  Originals \subseteq Held'
<1> SUFFICES ASSUME NEW h \in Originals PROVE h \in Held'
  BY Zenon
<1>1. h \in Held /\ h[2] # Absent /\ (Undecided => h \notin Installed)
  BY Zenon DEF Originals
<1>2. CASE \E n \in Names : h = <<n, Listing(output)[n]>>
  BY <1>1, <1>2, SMTT(60)
<1>3. CASE \E n \in Names : h = <<n, Listing(root.previous)[n]>>
  BY <1>1, <1>3, SMTT(60)
<1>4. CASE \E i \in Entries : h = <<txn.dest[i], root.backups[i]>>
  BY <1>1, <1>4, SMTT(60)
<1> QED
  BY <1>1, <1>2, <1>3, <1>4, Zenon DEF Held

\* The places where originals are looked for after a step.
LEMMA HeldAfter ==
  /\ \A n \in Names : <<n, Listing(output')[n]>> \in Held'
  /\ \A n \in Names : <<n, Listing(root'.previous)[n]>> \in Held'
  /\ \A i \in Entries : <<txn'.dest[i], root'.backups[i]>> \in Held'
  BY ZenonT(60) DEF Held, Listing

\* A step that leaves the three places alone.
LEMMA SameHeld ==
  ASSUME Listing(output') = Listing(output), root'.previous = root.previous,
         root'.backups = root.backups, txn' = txn
  PROVE  Originals \subseteq Held'
  BY KeepsHeld, HeldAfter, Zenon

\* An empty or missing output holds nothing at any name.
LEMMA NothingElsewhere ==
  ASSUME NEW d, DirectoryIsEmpty(d) \/ d = Missing PROVE \A n \in Names : Listing(d)[n] = Absent
  BY Zenon DEF DirectoryIsEmpty, Listing, EmptyDirectory

\* What a rollback discards is what this transaction installed.
LEMMA DiscardKeeps ==
  ASSUME IInv, pc = "rollback", at \in Entries, PathMatchesEntry(output, at), MoveToDiscard, txn' = txn
  PROVE  Originals \subseteq Held'
<1>1. output \in Directory /\ output # Missing /\ output[txn.dest[at]] = Rendered(at, txn.payload) /\ txn.dest[at] \in Names
  BY ZenonT(60) DEF PathMatchesEntry, Validates, Folders, IInv, DiskType, Transactions
<1>2. root'.backups = root.backups /\ root'.previous = root.previous /\ output' \in Directory /\ output' # Missing
  BY <1>1, Discarding, ZenonT(60)
<1>3. \A n \in Names : n # txn.dest[at] => output'[n] = output[n]
  BY <1>1, ZenonT(60) DEF MoveToDiscard, Directory
<1>4. <<txn.dest[at], output[txn.dest[at]]>> \in Installed /\ Undecided
  BY <1>1, Explained, ZenonT(60) DEF Installed
<1>5. \A n \in Names : Listing(output)[n] # Absent /\ (Undecided => <<n, Listing(output)[n]>> \notin Installed)
        => <<n, Listing(output)[n]>> \in Held'
  <2>1. ASSUME NEW n \in Names, n # txn.dest[at] PROVE <<n, output[n]>> \in Held'
    BY <1>2, <1>3, <2>1, HeldAfter, Zenon DEF Listing
  <2> QED
    BY <1>1, <1>4, <2>1, Zenon DEF Listing
<1> QED
  BY <1>2, <1>5, HeldAfter, KeepsHeld, Zenon

\* A step with the root it found and nothing retained.
LEMMA PlanKeeps ==
  ASSUME IInv, pc = "plan", output' = output, root' \in {NoRoot, FreshRoot} PROVE Originals \subseteq Held'
<1>1. root.backups = NoBackups /\ root.previous = Missing /\ root'.previous = Missing
  BY RootsAre, ZenonT(60) DEF IInv, PointInv
<1> QED
  BY <1>1, HeldAfter, KeepsHeld, NothingElsewhere, ZenonT(60) DEF NoBackups

\* No step but an edit loses an original that is not yet replaced for good.
LEMMA NextKeeps ==
  ASSUME IInv, RestoreInv, [Next]_vars, spent'.edits = spent.edits,
         ~(root.exists /\ LatestPhase = "Committed")
  PROVE  Originals \subseteq Held'
<1>1. CASE Begin
  <2>1. Listing(output') = Listing(output) /\ root' = root /\ txn' = txn
    BY <1>1, Zenon DEF Begin, Unlocked, Listing
  <2> QED
    BY <2>1, SameHeld, Zenon
<1>2. CASE Recover
  BY <1>2, SameHeld, Zenon DEF Recover, RecoverNothing, RecoverUnknown, RecoverUnstarted, RecoverMutating,
     RecoverRollingBack, RecoverCommitted, disk
<1>3. CASE Plan
  <2>1. root = NoRoot
    BY <1>3, Zenon DEF Plan, IInv, PointInv
  <2> QED
    BY <1>3, <2>1, PlanKeeps, Zenon DEF Plan
<1>4. CASE CreateSnapshot \/ WriteSnapshot
  <2>1. root \in Roots /\ store.next \in Sequences /\ store.target \in Phases
    BY <1>4, SMTT(60) DEF CreateSnapshot, WriteSnapshot, IInv, DiskType, ControlType, Stores, PointInv, Writing
  <2>2. PICK p \in Phases \cup {"none", "torn"} : root' = root \/ root' = [root EXCEPT !.journal[store.next] = p]
    BY <1>4, <2>1, Zenon DEF CreateSnapshot, WriteSnapshot
  <2>3. root'.backups = root.backups /\ root'.previous = root.previous
    BY <2>1, <2>2, ZenonT(60) DEF Roots
  <2> QED
    BY <1>4, <2>3, SameHeld, Zenon DEF CreateSnapshot, WriteSnapshot
<1>5. CASE Stage
  <2>1. root'.backups = root.backups /\ root'.previous = root.previous
    BY <1>5, Zenon DEF Stage, IInv, DiskType, Roots
  <2> QED
    BY <1>5, <2>1, SameHeld, Zenon DEF Stage
<1>6. CASE Commit
  <2>1. CASE ValidateBeforeMutation \/ SwapCheck \/ ValidateCommitted \/ SyncOutput \/ FinalizeCommitted
    BY <2>1, SameHeld, Zenon DEF ValidateBeforeMutation, SwapCheck, ValidateCommitted, SyncOutput, FinalizeCommitted, disk
  <2>2. CASE Backup
    <3> USE <2>2
    <3>1. CASE UNCHANGED <<output, root>>
      BY <3>1, SameHeld, Zenon DEF Backup
    <3>2. CASE /\ DestinationExists(at)
               /\ root' = [root EXCEPT !.backups[at] = output[txn.dest[at]]]
               /\ output' = [output EXCEPT ![txn.dest[at]] = Absent]
      <4>1. /\ at \in Entries /\ root \in Roots /\ output \in Directory /\ output # Missing
            /\ txn.dest[at] \in Names /\ output[txn.dest[at]] \in Content /\ txn' = txn /\ root.backups[at] = Absent
        BY <3>2, SMTT(60) DEF Backup, DestinationExists, Directory, Folders, IInv, DiskType, LoopInv, PointInv, Transactions
      <4>2. /\ root'.previous = root.previous /\ root'.backups[at] = output[txn.dest[at]]
            /\ \A i \in Entries : i # at => root'.backups[i] = root.backups[i]
        BY <3>2, <4>1, ZenonT(60) DEF Roots
      <4>3. output' \in Directory /\ output' # Missing /\ \A n \in Names : n # txn.dest[at] => output'[n] = output[n]
        BY <3>2, <4>1, ZenonT(60) DEF Directory
      <4>4. \A n \in Names : <<n, Listing(output)[n]>> \in Held'
        <5>1. ASSUME NEW n \in Names PROVE <<n, output[n]>> \in Held'
          <6>1. CASE n = txn.dest[at]
            BY <4>1, <4>2, <6>1, HeldAfter, Zenon
          <6>2. CASE n # txn.dest[at]
            BY <4>3, <6>2, HeldAfter, Zenon DEF Listing
          <6> QED
            BY <6>1, <6>2, Zenon
        <5> QED
          BY <4>1, <5>1, Zenon DEF Listing
      <4>5. \A i \in Entries : root.backups[i] # Absent => <<txn.dest[i], root.backups[i]>> \in Held'
        <5>1. ASSUME NEW i \in Entries, i # at PROVE <<txn.dest[i], root.backups[i]>> \in Held'
          BY <4>1, <4>2, <5>1, HeldAfter, Zenon
        <5> QED
          BY <4>1, <5>1, Zenon
      <4> QED
        BY <4>1, <4>2, <4>4, <4>5, HeldAfter, KeepsHeld, Zenon
    <3> QED
      BY <3>1, <3>2, Zenon DEF Backup
  <2>3. CASE Install
    <3> USE <2>3
    <3>1. CASE UNCHANGED <<output, root>>
      BY <3>1, SameHeld, Zenon DEF Install
    <3>2. CASE /\ output # Missing /\ ~DestinationExists(at)
               /\ output' = [output EXCEPT ![txn.dest[at]] = root.staged[txn.dest[at]]]
               /\ root' = root \/ root' = [root EXCEPT !.staged[txn.dest[at]] = Absent]
      <4>1. /\ at \in Entries /\ root \in Roots /\ output \in Directory /\ txn' = txn
            /\ txn.dest[at] \in Names /\ output[txn.dest[at]] = Absent /\ root.staged \in Directory
        BY <3>2, ZenonT(40) DEF Install, DestinationExists, Folders, IInv, DiskType, LoopInv, PointInv, Transactions
      <4>2. root'.previous = root.previous /\ root'.backups = root.backups
        BY <3>2, <4>1, ZenonT(60) DEF Roots
      <4>3. output' \in Directory /\ output' # Missing /\ \A n \in Names : n # txn.dest[at] => output'[n] = output[n]
        BY <3>2, <4>1, SMTT(60) DEF Directory
      <4>4. \A n \in Names : Listing(output)[n] # Absent => <<n, Listing(output)[n]>> \in Held'
        <5>1. ASSUME NEW n \in Names, n # txn.dest[at] PROVE <<n, output[n]>> \in Held'
          BY <4>3, <5>1, HeldAfter, Zenon DEF Listing
        <5> QED
          BY <3>2, <4>1, <5>1, Zenon DEF Listing
      <4> QED
        BY <4>1, <4>2, <4>4, HeldAfter, KeepsHeld, Zenon
    <3> QED
      BY <3>1, <3>2, Zenon DEF Install
  <2>4. CASE SwapOut
    <3> USE <2>4
    <3>1. CASE UNCHANGED <<output, root>>
      BY <3>1, SameHeld, Zenon DEF SwapOut
    <3>2. CASE root' = [root EXCEPT !.previous = output]
      <4>1. root \in Roots /\ output \in Folders /\ root.previous = Missing /\ txn' = txn
        BY <3>2, Zenon DEF SwapOut, IInv, DiskType, LoopInv
      <4>2. root'.previous = output /\ root'.backups = root.backups
        BY <3>2, <4>1, Zenon DEF Roots
      <4> QED
        BY <4>1, <4>2, HeldAfter, KeepsHeld, NothingElsewhere, ZenonT(60)
    <3> QED
      BY <3>1, <3>2, Zenon DEF SwapOut
  <2>5. CASE SwapIn
    <3> USE <2>5
    <3>1. CASE UNCHANGED <<output, root>>
      BY <3>1, SameHeld, Zenon DEF SwapIn
    <3>2. CASE CanRenameOver(output) /\ root' = [root EXCEPT !.staged = Missing]
      <4>1. root \in Roots /\ txn' = txn
        BY Zenon DEF SwapIn, IInv, DiskType
      <4>2. root'.previous = root.previous /\ root'.backups = root.backups
        BY <3>2, <4>1, Zenon DEF Roots
      <4> QED
        BY <3>2, <4>1, <4>2, HeldAfter, KeepsHeld, NothingElsewhere, ZenonT(60) DEF CanRenameOver, DirectoryIsEmpty
    <3> QED
      BY <3>1, <3>2, Zenon DEF SwapIn
  <2> QED
    BY <1>6, <2>1, <2>2, <2>3, <2>4, <2>5, Zenon DEF Commit
<1>7. CASE Rollback
  <2>1. CASE RollbackOriginal \/ RollbackEntriesDone \/ SyncRestored
    BY <2>1, SameHeld, Zenon DEF RollbackOriginal, RollbackEntriesDone, SyncRestored, disk
  <2>2. CASE RollbackReplaced \/ RollbackCreated
    <3>1. CASE UNCHANGED <<output, root>>
      BY <2>2, <3>1, SameHeld, Zenon DEF RollbackReplaced, RollbackCreated
    <3>2. CASE PathMatchesEntry(output, at) /\ MoveToDiscard
      <4>0. at > 0 /\ pc = "rollback" /\ txn' = txn
        BY <2>2, Zenon DEF RollbackReplaced, RollbackCreated
      <4>1. at \in Entries /\ pc = "rollback" /\ txn' = txn
        BY <4>0 DEF IInv, ControlType
      <4> QED
        BY <3>2, <4>1, DiscardKeeps, Zenon
    <3> QED
      BY <2>2, <3>1, <3>2, Zenon DEF RollbackReplaced, RollbackCreated
  <2>3. CASE Restore
    <3> USE <2>3
    <3>1. CASE UNCHANGED <<output, root>>
      BY <3>1, SameHeld, Zenon DEF Restore
    <3>2. CASE /\ output # Missing
               /\ output' = [output EXCEPT ![txn.dest[at]] = root.backups[at]]
               /\ root' = [root EXCEPT !.backups[at] = Absent]
      <4>1. /\ at \in Entries /\ root \in Roots /\ output \in Directory /\ txn' = txn
            /\ txn.dest[at] \in Names /\ output[txn.dest[at]] = Absent /\ root.backups[at] \in Held1
        BY <3>2, SMTT(60) DEF Restore, RestoreInv, Folders, IInv, DiskType, LoopInv, Transactions, Roots
      <4>2. root'.previous = root.previous /\ \A i \in Entries : i # at => root'.backups[i] = root.backups[i]
        BY <3>2, <4>1, ZenonT(60) DEF Roots
      <4>3. /\ output' \in Directory /\ output' # Missing /\ output'[txn.dest[at]] = root.backups[at]
            /\ \A n \in Names : n # txn.dest[at] => output'[n] = output[n]
        BY <3>2, <4>1, SMTT(60) DEF Directory, Held1
      <4>4. \A n \in Names : Listing(output)[n] # Absent => <<n, Listing(output)[n]>> \in Held'
        <5>1. ASSUME NEW n \in Names, n # txn.dest[at] PROVE <<n, output[n]>> \in Held'
          BY <4>3, <5>1, HeldAfter, Zenon DEF Listing
        <5> QED
          BY <3>2, <4>1, <5>1, Zenon DEF Listing
      <4>5. \A i \in Entries : <<txn.dest[i], root.backups[i]>> \in Held'
        <5>1. ASSUME NEW i \in Entries, i # at PROVE <<txn.dest[i], root.backups[i]>> \in Held'
          BY <4>1, <4>2, <5>1, HeldAfter, Zenon
        <5>2. <<txn.dest[at], root.backups[at]>> \in Held'
          BY <4>1, <4>3, HeldAfter, Zenon DEF Listing
        <5> QED
          BY <5>1, <5>2, Zenon
      <4> QED
        BY <4>2, <4>4, <4>5, HeldAfter, KeepsHeld, Zenon
    <3> QED
      BY <3>1, <3>2, Zenon DEF Restore
  <2>4. CASE RollbackSwap
    <3> USE <2>4
    <3>1. CASE UNCHANGED <<output, root>>
      BY <3>1, SameHeld, Zenon DEF RollbackSwap
    <3>2. CASE /\ root' = [root EXCEPT !.discarded = TRUE]
               /\ OutputMatchesCompleteSet(output) \/ DirectoryIsEmpty(output)
      <4>1. root'.previous = root.previous /\ root'.backups = root.backups /\ txn' = txn
        BY <3>2, Zenon DEF RollbackSwap, IInv, DiskType, Roots
      <4>2. Undecided
        BY Explained, Zenon DEF RollbackSwap
      <4>3. CASE OutputMatchesCompleteSet(output)
        <5>1. ASSUME NEW n \in Names, output[n] # Absent PROVE <<n, output[n]>> \in Installed
          <6>1. PICK i \in Entries : txn.dest[i] = n
            BY <4>3, <5>1, SMTT(60) DEF OutputMatchesCompleteSet
          <6>2. output[txn.dest[i]] = Rendered(i, txn.payload)
            BY <4>3, Zenon DEF OutputMatchesCompleteSet, PathMatchesEntry, Validates
          <6> QED
            BY <6>1, <6>2, Zenon DEF Installed
        <5>2. output # Missing
          BY <4>3, Zenon DEF OutputMatchesCompleteSet
        <5> QED
          BY <4>1, <4>2, <5>1, <5>2, HeldAfter, KeepsHeld, Zenon DEF Listing
      <4>4. CASE DirectoryIsEmpty(output)
        BY <4>1, <4>4, HeldAfter, KeepsHeld, NothingElsewhere, ZenonT(60)
      <4> QED
        BY <3>2, <4>3, <4>4, Zenon
    <3> QED
      BY <3>1, <3>2, Zenon DEF RollbackSwap
  <2>5. CASE Reinstate
    <3> USE <2>5
    <3>1. CASE UNCHANGED <<output, root>>
      BY <3>1, SameHeld, Zenon DEF Reinstate
    <3>2. CASE CanRenameOver(output) /\ output' = root.previous /\ root' = [root EXCEPT !.previous = Missing]
      <4>1. root'.backups = root.backups /\ txn' = txn
        BY <3>2, Zenon DEF Reinstate, IInv, DiskType, Roots
      <4> QED
        BY <3>2, <4>1, HeldAfter, KeepsHeld, NothingElsewhere, ZenonT(60) DEF CanRenameOver, DirectoryIsEmpty
    <3> QED
      BY <3>1, <3>2, Zenon DEF Reinstate
  <2> QED
    BY <1>7, <2>1, <2>2, <2>3, <2>4, <2>5, Zenon DEF Rollback
<1>8. CASE Cleanup
  <2> USE <1>8
  <2>1. pc = "cleanup" /\ ~Retains /\ root \in Roots /\ txn' = txn /\ output' = output
    BY Explained, Zenon DEF Cleanup, CleanupOther, CleanupJournal, CleanupRoot, IInv, DiskType
  <2>2. root.backups = NoBackups /\ root.previous = Missing
    BY <2>1, Zenon DEF Retains
  <2>3. root'.backups = NoBackups /\ root'.previous = Missing
    <3>1. CASE CleanupRoot
      BY <3>1, RootsAre, Zenon DEF CleanupRoot
    <3>2. CASE CleanupJournal
      BY <2>1, <2>2, <3>2, ZenonT(60) DEF CleanupJournal, Roots
    <3>3. CASE CleanupOther
      BY <2>1, <2>2, <3>3, Zenon DEF CleanupOther, Roots
    <3> QED
      BY <3>1, <3>2, <3>3, Zenon DEF Cleanup
  <2> QED
    BY <2>1, <2>2, <2>3, SameHeld, Zenon
<1>9. CASE Fault
  <2>1. CASE UNCHANGED disk
    BY <2>1, SameHeld, Zenon DEF disk
  <2>2. CASE FaultBeforeMutation /\ pc = "plan"
    BY <2>2, PlanKeeps, Zenon DEF FaultBeforeMutation
  <2>3. CASE FaultBeforeMutation /\ pc # "plan"
    <3>1. root'.backups = root.backups /\ root'.previous = root.previous
      BY <2>3, Zenon DEF FaultBeforeMutation, IInv, DiskType, Roots
    <3> QED
      BY <2>3, <3>1, SameHeld, Zenon DEF FaultBeforeMutation
  <2>4. CASE FaultInPersist
    <3>1. root'.backups = root.backups /\ root'.previous = root.previous
      BY <2>4, ZenonT(60) DEF FaultInPersist, IInv, DiskType, Roots, ControlType, Stores, PointInv
    <3> QED
      BY <2>4, <3>1, SameHeld, Zenon DEF FaultInPersist
  <2> QED
    BY <1>9, <2>1, <2>2, <2>3, <2>4, Zenon DEF Fault, FaultInMutation, FaultInRollback, FaultInCleanup
<1>10. CASE Crash \/ UNCHANGED vars
  BY <1>10, SameHeld, Zenon DEF Crash, vars, disk
<1>11. CASE PrepareByOther
  <2>1. Listing(output') = Listing(output) /\ root' = root /\ txn' = txn
    BY <1>11, Zenon DEF PrepareByOther, Listing
  <2> QED
    BY <2>1, SameHeld, Zenon
<1>12. CASE Edit
  BY <1>12, Edited1, Zenon
<1> QED
  BY <1>1, <1>2, <1>3, <1>4, <1>5, <1>6, <1>7, <1>8, <1>9, <1>10, <1>11, <1>12, Zenon DEF Next, Exporter

\* A restore starts from a free destination; only an edit can take it.
LEMMA RestoreStarts ==
  ASSUME IInv, RestoreInv, [Next]_vars, "restore" \notin EditPoints PROVE RestoreInv'
<1> SUFFICES ASSUME pc' = "restore", output' # Missing PROVE output'[txn'.dest[at']] = Absent
  BY Zenon DEF RestoreInv
<1>1. \/ RollbackReplaced
      \/ pc = "restore" /\ (PrepareByOther \/ Edit \/ UNCHANGED vars)
  <2>1. ~Begin /\ ~Recover /\ ~Plan /\ ~CreateSnapshot /\ ~WriteSnapshot /\ ~Stage
    BY ZenonT(60) DEF Begin, Unlocked, Recover, RecoverNothing, RecoverUnknown, RecoverUnstarted, RecoverMutating,
       RecoverRollingBack, RecoverCommitted, Plan, CreateSnapshot, PersistFailed, WriteSnapshot,
       AfterPersist, Stage, Stop, CleanThen, Continue, Persist, IInv, ControlType, Stores
  <2>2. ~Commit
    BY Zenon DEF Commit, ValidateBeforeMutation, Backup, Install, SwapOut, SwapCheck, SwapIn, NextEntry,
       ValidateCommitted, SyncOutput, FinalizeCommitted, MutationFailed, Stop, CleanThen, Continue, Persist
  <2>3. Rollback => RollbackReplaced
    BY Zenon DEF Rollback, Restore, RollbackOriginal, RollbackCreated, RollbackEntriesDone, RollbackSwap,
       Reinstate, SyncRestored, RollbackNext, RecoveryFailed, Stop, CleanThen, Continue
  <2>4. ~Cleanup /\ ~Crash
    BY Zenon DEF Cleanup, CleanupOther, CleanupJournal, CleanupRoot, Crash, Stop, Continue
  <2>5. ~Fault
    BY Zenon DEF Fault, FaultBeforeMutation, FaultInPersist, FaultInMutation, FaultInRollback, FaultInCleanup,
       PersistFailed, MutationFailed, RecoveryFailed, RollbackNext, Stop, CleanThen, IInv, ControlType, Stores
  <2>6. PrepareByOther \/ Edit \/ UNCHANGED vars => pc = "restore"
    BY Zenon DEF PrepareByOther, Edit, vars
  <2> QED
    BY <2>1, <2>2, <2>3, <2>4, <2>5, <2>6, Zenon DEF Next, Exporter
<1>2. CASE RollbackReplaced
  <2>1. at \in Entries /\ at' = at /\ txn' = txn
    BY <1>2, SMTT(60) DEF RollbackReplaced, Continue, RollbackNext, IInv, ControlType
  <2>2. CASE output' = output /\ ~DestinationExists(at)
    BY <2>1, <2>2, Zenon DEF DestinationExists
  <2>3. CASE MoveToDiscard /\ PathMatchesEntry(output, at)
    BY <2>1, <2>3, Discarding, Zenon DEF PathMatchesEntry, Validates
  <2> QED
    BY <1>2, <2>2, <2>3, Zenon DEF RollbackReplaced, RollbackNext
<1>3. CASE pc = "restore" /\ PrepareByOther
  <2>1. txn.dest[at] \in Names
    BY <1>3, ZenonT(40) DEF IInv, LoopInv, DiskType, Transactions
  <2> QED
    BY <1>3, <2>1, Zenon DEF PrepareByOther, EmptyDirectory
<1>4. CASE pc = "restore" /\ UNCHANGED vars
  BY <1>4, Zenon DEF vars, RestoreInv
<1> QED
  BY <1>1, <1>2, <1>3, <1>4, Zenon DEF Edit

\* Nothing is lost (recovery.rs, rollback and cleanup order), for any number of
\* artifacts, crashes, faults and edits, as long as nobody writes to a
\* destination between the check that it is free and the rename that restores
\* its backup.
THEOREM OriginalsSurvive == ASSUME "restore" \notin EditPoints PROVE Spec => NothingLost
<1>1. Init => RestoreInv
  BY Zenon DEF Init, RestoreInv
<1>2. Spec => []RestoreInv
  BY <1>1, RestoreStarts, JournalExplains, PTL DEF Spec
<1>3. ASSUME IInv, RestoreInv, [Next]_vars
      PROVE  spent'.edits = spent.edits /\ ~(root.exists /\ LatestPhase = "Committed") => Originals \subseteq Held'
  BY <1>3, NextKeeps, Zenon
<1> QED
  BY <1>2, <1>3, JournalExplains, PTL DEF Spec, NothingLost
=============================================================================
