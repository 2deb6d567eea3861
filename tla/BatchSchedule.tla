---------------------------- MODULE BatchSchedule ----------------------------
(***************************************************************************)
(* SchedulerService::batch with a resume manifest: independent captures    *)
(* with bounded concurrency, a manifest persisted after every outcome,     *)
(* and calls repeated after crashes, errors and shutdowns.                 *)
(*                                                                         *)
(* Jobs are numbered in request order. Every job has its own output path;  *)
(* number n of it is the n-th name that ConflictPolicy::Uniquify tries.    *)
(***************************************************************************)
EXTENDS Integers, FiniteSets, Sequences, SequencesExt

CONSTANTS
    NumJobs,        \* jobs of the request
    Concurrency,    \* concurrency
    Requests,       \* conflict policies of the outputs, and retry_failed
    MaxCrashes,     \* bound: crashes, failed writes and shutdowns
    MaxFailures,    \* bound: captures that fail
    MaxEdits        \* bound: artifacts that are deleted or edited

Jobs == 1..NumJobs
FileNumbers == 0..2
Digests == 1..4

VARIABLES
    request,     \* the options, the same in every call
    file,        \* the digest at each output name, 0 when there is no file
    disk,        \* the persisted manifest, or NoManifest
    manifest,    \* the manifest in memory
    outcome,     \* outcomes: whether each job has one
    queue,       \* the jobs not started
    running,     \* the captures in the buffer: their result, or Capturing
    phase,       \* where the batch is
    cancelled,   \* the schedule's token
    crashes, failures, edits

vars == <<request, file, disk, manifest, outcome, queue, running, phase, cancelled, crashes, failures,
          edits>>

Policy == request.policy
RetryFailed == request.retry_failed

\* Job 0 does not exist.
NoManifest == [jobs |-> <<>>, pending |-> <<0>>]
Capturing == [status |-> "capturing", path |-> 0, digest |-> 0]
Failed == [status |-> "failed", path |-> 0, digest |-> 0]

Init ==
    /\ request \in Requests
    /\ file = [o \in Jobs \X FileNumbers |-> 0]
    /\ disk = NoManifest /\ manifest = NoManifest
    /\ outcome = [j \in Jobs |-> FALSE]
    /\ queue = <<>> /\ running = <<>>
    /\ phase = "idle" /\ cancelled = FALSE
    /\ crashes = 0 /\ failures = 0 /\ edits = 0

Without(f, keys) == [x \in DOMAIN f \ keys |-> f[x]]
With(f, key, value) == [x \in DOMAIN f \cup {key} |-> IF x = key THEN value ELSE f[x]]

\* The jobs of a set in request order.
InOrder(js) == SelectSeq([j \in Jobs |-> j], LAMBDA j : j \in js)
-----------------------------------------------------------------------------
(* Loading. *)

\* load_or_create_manifest, for the same plan
Loaded == IF disk = NoManifest THEN [jobs |-> <<>>, pending |-> InOrder(Jobs)] ELSE disk

\* validate_batch_manifest
Valid(m) ==
    /\ DOMAIN m.jobs \subseteq Jobs
    /\ \A j \in DOMAIN m.jobs : m.jobs[j].status = "succeeded" => m.jobs[j].path = 0
    /\ m.pending = InOrder(Jobs \ DOMAIN m.jobs)

\* resume_artifact_is_current
Current(m, j) == file[<<j, m.jobs[j].path>>] = m.jobs[j].digest

\* A reuse that recognises no record.
ReusableNone(m) == {}

\* The records that stand for their job.
Reusable(m) ==
    {j \in DOMAIN m.jobs : IF m.jobs[j].status = "succeeded" THEN Current(m, j)
                           ELSE ~RetryFailed}

\* refresh_batch_pending
PendingOf(done) == InOrder({j \in Jobs : ~done[j]})

\* A load that repeats every job and leaves the records until then.
LoadRepeating ==
    /\ phase \in {"idle", "done"}
    /\ outcome' = [j \in Jobs |-> FALSE]
    /\ manifest' = [jobs |-> Loaded.jobs, pending |-> PendingOf(outcome')]
    /\ queue' = InOrder(Jobs)
    /\ phase' = "first"
    /\ running' = <<>> /\ cancelled' = FALSE
    /\ UNCHANGED <<request, file, disk, crashes, failures, edits>>

Load ==
    /\ phase \in {"idle", "done"}
    /\ IF Valid(Loaded)
       THEN /\ LET reused == Reusable(Loaded)
               IN  /\ outcome' = [j \in Jobs |-> j \in reused]
                   /\ manifest' = [jobs |-> Without(Loaded.jobs, Jobs \ reused),
                                   pending |-> PendingOf(outcome')]
                   /\ queue' = InOrder(Jobs \ reused)
            /\ phase' = "first"
       ELSE phase' = "rejected" /\ UNCHANGED <<outcome, manifest, queue>>
    /\ running' = <<>> /\ cancelled' = FALSE
    /\ UNCHANGED <<request, file, disk, crashes, failures, edits>>

\* The manifest is not written: the previous one stays. Before the first
\* capture the call ends; later it cancels the captures and waits for them.
PersistFails ==
    /\ phase \in {"first", "persist"} /\ crashes < MaxCrashes
    /\ crashes' = crashes + 1
    /\ IF phase = "first"
       THEN phase' = "idle" /\ UNCHANGED cancelled
       ELSE phase' = "drain" /\ cancelled' = TRUE
    /\ UNCHANGED <<request, file, disk, manifest, outcome, queue, running, failures, edits>>

\* persist_manifest_if_configured: an atomic replacement.
Persist ==
    /\ phase \in {"first", "persist"}
    /\ disk' = manifest
    /\ phase' = "run"
    /\ UNCHANGED <<request, file, manifest, outcome, queue, running, cancelled, crashes, failures, edits>>
-----------------------------------------------------------------------------
(* Captures. *)

\* A buffer with room for one more.
StartCaptureBeyond ==
    /\ phase \in {"run", "drain"}
    /\ queue # <<>> /\ Cardinality(DOMAIN running) <= Concurrency
    /\ running' = With(running, Head(queue), IF cancelled THEN Failed ELSE Capturing)
    /\ queue' = Tail(queue)
    /\ UNCHANGED <<request, file, disk, manifest, outcome, phase, cancelled, crashes, failures, edits>>

\* buffer_unordered takes the next job when it is polled; a cancelled job ends
\* at once.
StartCapture ==
    /\ phase \in {"run", "drain"}
    /\ queue # <<>> /\ Cardinality(DOMAIN running) < Concurrency
    /\ running' = With(running, Head(queue), IF cancelled THEN Failed ELSE Capturing)
    /\ queue' = Tail(queue)
    /\ UNCHANGED <<request, file, disk, manifest, outcome, phase, cancelled, crashes, failures, edits>>

\* The names the conflict policy lets a capture of job j commit to.
Names(j) ==
    CASE Policy = "replace" -> {0}
      [] Policy = "fail" -> {0} \cap {n \in FileNumbers : file[<<j, n>>] = 0}
      [] OTHER -> {n \in FileNumbers : /\ file[<<j, n>>] = 0
                                    /\ \A k \in 0..n - 1 : file[<<j, k>>] # 0}

\* The digest of a new capture: of no file and no record of that job.
NewDigest(j) ==
    CHOOSE d \in Digests : /\ \A n \in FileNumbers : d # file[<<j, n>>]
                           /\ j \in DOMAIN disk.jobs => d # disk.jobs[j].digest

\* A capture ends, while the scheduler waits or persists: with its artifact
\* committed, or with an error. Whether a cancelled one still commits is a race.
Capture(j) ==
    /\ j \in DOMAIN running /\ running[j] = Capturing
    /\ phase \in {"run", "persist", "drain"}
    /\ \/ \E n \in Names(j) :
            /\ file' = [file EXCEPT ![<<j, n>>] = NewDigest(j)]
            /\ running' = [running EXCEPT ![j] =
                    [status |-> "succeeded", path |-> n, digest |-> NewDigest(j)]]
            /\ UNCHANGED failures
       \/ /\ Names(j) = {} \/ cancelled \/ failures < MaxFailures
          /\ failures' = IF Names(j) = {} \/ cancelled THEN failures ELSE failures + 1
          /\ running' = [running EXCEPT ![j] = Failed]
          /\ UNCHANGED file
    /\ UNCHANGED <<request, disk, manifest, outcome, queue, phase, cancelled, crashes, edits>>

\* An outcome that is noted without being recorded.
HandleUnrecorded(j) ==
    /\ phase = "run"
    /\ j \in DOMAIN running /\ running[j] # Capturing
    /\ outcome' = [outcome EXCEPT ![j] = TRUE]
    /\ manifest' = [manifest EXCEPT !.pending = PendingOf(outcome')]
    /\ running' = Without(running, {j})
    /\ phase' = "persist"
    /\ UNCHANGED <<request, file, disk, queue, cancelled, crashes, failures, edits>>

\* running.next() yields an outcome; it is recorded, then persisted.
Handle(j) ==
    /\ phase = "run"
    /\ j \in DOMAIN running /\ running[j] # Capturing
    /\ outcome' = [outcome EXCEPT ![j] = TRUE]
    /\ manifest' = [jobs |-> With(manifest.jobs, j, running[j]), pending |-> PendingOf(outcome')]
    /\ running' = Without(running, {j})
    /\ phase' = "persist"
    /\ UNCHANGED <<request, file, disk, queue, cancelled, crashes, failures, edits>>

\* The captures of a failed batch are waited for and their outcomes dropped.
DrainOne(j) ==
    /\ phase = "drain"
    /\ j \in DOMAIN running /\ running[j] # Capturing
    /\ running' = Without(running, {j})
    /\ UNCHANGED <<request, file, disk, manifest, outcome, queue, phase, cancelled, crashes, failures,
                   edits>>

End ==
    /\ phase \in {"run", "drain"} /\ queue = <<>> /\ running = <<>>
    /\ phase' = IF phase = "run" THEN "done" ELSE "idle"
    /\ UNCHANGED <<request, file, disk, manifest, outcome, queue, running, cancelled, crashes, failures,
                   edits>>
-----------------------------------------------------------------------------
(* Interruptions. *)

\* The process dies.
Crash ==
    /\ phase \in {"first", "run", "persist", "drain"} /\ crashes < MaxCrashes
    /\ crashes' = crashes + 1
    /\ phase' = "idle" /\ cancelled' = FALSE
    /\ manifest' = NoManifest /\ queue' = <<>> /\ running' = <<>>
    /\ outcome' = [j \in Jobs |-> FALSE]
    /\ UNCHANGED <<request, file, disk, failures, edits>>

\* The runtime closes.
Cancel ==
    /\ phase \in {"first", "run", "persist"} /\ ~cancelled /\ crashes < MaxCrashes
    /\ crashes' = crashes + 1
    /\ cancelled' = TRUE
    /\ UNCHANGED <<request, file, disk, manifest, outcome, queue, running, phase, failures, edits>>

\* Somebody deletes or edits an artifact.
Edit(o) ==
    /\ file[o] # 0 /\ edits < MaxEdits
    /\ edits' = edits + 1
    /\ file' = [file EXCEPT ![o] = 0]
    /\ UNCHANGED <<request, disk, manifest, outcome, queue, running, phase, cancelled, crashes, failures>>

Step == Persist \/ StartCapture \/ End \/ \E j \in Jobs : Capture(j) \/ Handle(j) \/ DrainOne(j)

Next ==
    \/ Load \/ Step \/ PersistFails \/ Crash \/ Cancel
    \/ \E o \in Jobs \X FileNumbers : Edit(o)

\* The batch is called again until everything succeeded, and its task is polled.
Fairness == WF_vars(Load) /\ WF_vars(Step)

Spec == Init /\ [][Next]_vars /\ Fairness
-----------------------------------------------------------------------------
(* Properties. *)

Record == [status : {"succeeded", "failed"}, path : FileNumbers, digest : {0} \cup Digests]

\* Types; the buffer is bounded; while a batch runs every job is in exactly one
\* place: waiting, in the buffer or with an outcome (save what a drain dropped).
TypeOK ==
    /\ file \in [Jobs \X FileNumbers -> {0} \cup Digests]
    /\ \A m \in {disk, manifest} : \A j \in DOMAIN m.jobs : j \in Jobs /\ m.jobs[j] \in Record
    /\ Cardinality(DOMAIN running) <= Concurrency
    /\ phase \in {"idle", "first", "run", "persist", "drain", "done", "rejected"}
    /\ phase \in {"first", "run", "persist"} =>
        \A j \in Jobs : Cardinality({w \in {"queue", "buffer", "outcome"} :
            \/ w = "queue" /\ j \in ToSet(queue)
            \/ w = "buffer" /\ j \in DOMAIN running
            \/ w = "outcome" /\ outcome[j]}) = 1

\* Whatever instant the batch was stopped at, the manifest it left is one that
\* the next call with the same jobs accepts.
ResumeAccepted == phase # "rejected" /\ (disk # NoManifest => Valid(disk))

\* The manifest never tells of an artifact that is not there: unless somebody
\* touched the files, a recorded success names the file of that very capture.
RecordsAreTrue ==
    edits = 0 => \A j \in DOMAIN disk.jobs : disk.jobs[j].status = "succeeded" => Current(disk, j)

\* A capture that was recorded and whose artifact is still there is neither
\* forgotten nor repeated: no crash, failed write, shutdown or later call takes
\* its record or its file away.
KeepsProgress ==
    \A j \in DOMAIN disk.jobs :
        (disk.jobs[j].status = "succeeded" /\ Current(disk, j) /\ edits' = edits) =>
            /\ j \in DOMAIN disk.jobs' /\ disk.jobs'[j] = disk.jobs[j]
            /\ j \in DOMAIN running' => j \in DOMAIN running

\* Called again and again, a batch with retry_failed and replaceable outputs
\* gets every job done.
Persistent == RetryFailed /\ Policy = "replace"
AllDone == \A j \in Jobs : j \in DOMAIN disk.jobs /\ disk.jobs[j].status = "succeeded"
=============================================================================
