--------------------------- MODULE RuntimeProofs ---------------------------
(***************************************************************************)
(* Proofs about what captures share in a runtime: the browser with its     *)
(* contexts, for any captures, callers and limits, and the directory that  *)
(* artifacts are written to, for any captures and other programs.          *)
(***************************************************************************)
EXTENDS RuntimeContexts, ArtifactFiles, FiniteSetTheorems, TLAPS

(***************************************************************************)
(* RuntimeContexts: the browser of a page in use.                          *)
(***************************************************************************)

Stages == {"idle", "running", "slot", "permitted", "gate", "decide", "closing", "reset", "acquire",
           "locked", "started", "leased", "cleanup", "check"}
Purposes == {"page", "ensure", "idle", "recycle"}
Gated == {"decide", "closing", "reset", "acquire", "locked", "started"}

TypeInv ==
    /\ stage \in [Threads -> Stages] /\ purpose \in [Threads -> Purposes]
    /\ lease \in [Threads -> {"none", "live", "dead", "lost"}]
    /\ permits \subseteq Captures /\ IsFiniteSet(permits)

\* An operation on the backend holds the gate from its decision on, a page holds
\* its slot from the semaphore on, and whoever is about to close the browser
\* knows that no lease uses it.
ThreadInv(t) ==
    /\ stage[t] \in Gated => gate = t
    /\ stage[t] = "leased" => purpose[t] = "page" \/ (purpose[t] = "ensure" /\ gate = t)
    /\ stage[t] \in {"acquire", "locked", "started"} => purpose[t] \in {"page", "ensure"}
    /\ stage[t] = "reset" => purpose[t] # "idle"
    /\ stage[t] = "cleanup" => t \in PageThreads /\ t[1] \in permits /\ purpose[t] = "recycle"
    /\ purpose[t] = "page" => t \in PageThreads /\ (stage[t] # "slot" => t[1] \in permits)
    /\ purpose[t] = "ensure" => t \notin PageThreads
    /\ lease[t] # "none" => stage[t] \in {"leased", "cleanup"}
    /\ lease[t] = "dead" => closing = "done" /\ (timedOut \/ t \notin PageThreads)
    /\ stage[t] = "closing" => \A u \in Threads : lease[u] # "live"

\* A shutdown that did not give up closes the backend when every slot is back.
ShutdownInv ==
    /\ closing \in {"backend", "locked"} /\ ~timedOut => permits = {}
    /\ closing = "done" => browser = "none"

IInv == TypeInv /\ (\A t \in Threads : ThreadInv(t)) /\ ShutdownInv

\* The threads of pages, jobs and callers are different ones.
LEMMA ThreadsAre ==
  /\ \A c \in Captures : /\ Page(c) \in Threads /\ Page(c) \in PageThreads /\ Page(c)[1] = c
                         /\ Job(c) \in Threads /\ Job(c) \notin PageThreads
  /\ \A t \in PageThreads : t \in Threads /\ t[1] \in Captures /\ t = Page(t[1])
  /\ \A t \in Callers \X {"caller"} : t \in Threads /\ t \notin PageThreads
  /\ \A t \in Threads : t # Nobody
  BY DEF Threads, PageThreads, JobThreads, Page, Job, Nobody

\* The initial states satisfy the invariant.
LEMMA Initial == ASSUME Init PROVE IInv
<1>1. IsFiniteSet({})
  BY FS_EmptySet, Zenon
<1> QED
  BY <1>1, Zenon DEF Init, IInv, TypeInv, ThreadInv, ShutdownInv, Stages, Purposes, Gated

\* A step of one thread that opens no lease leaves the other threads alone.
LEMMA Moved ==
  ASSUME IInv, NEW t \in Threads, NEW s \in Stages, NEW p \in Purposes,
         stage' = [stage EXCEPT ![t] = s], purpose' = [purpose EXCEPT ![t] = p],
         gate' = gate \/ (gate = Nobody /\ gate' = t) \/ (gate = t /\ gate' = Nobody),
         permits' \subseteq Captures, IsFiniteSet(permits'),
         \A u \in PageThreads : u # t /\ u[1] \in permits => u[1] \in permits',
         lease' \in [Threads -> {"none", "live", "dead", "lost"}],
         \A u \in Threads : lease'[u] # lease[u] => lease'[u] = "none" \/ (lease[u] = "live" /\ lease'[u] = "lost"),
         UNCHANGED <<closing, timedOut>>, ThreadInv(t)', ShutdownInv'
  PROVE  IInv'
<1>1. TypeInv'
  BY Zenon DEF IInv, TypeInv
<1>2. ASSUME NEW u \in Threads, u # t PROVE ThreadInv(u)'
  <2>1. ThreadInv(u) /\ stage'[u] = stage[u] /\ purpose'[u] = purpose[u]
    BY <1>2, Zenon DEF IInv, TypeInv
  <2>2. gate = u => gate' = u
    BY <1>2, ThreadsAre, Zenon
  <2>3. \A v \in Threads : lease'[v] = "live" => lease[v] = "live"
    BY Zenon
  <2>4. (lease'[u] # "none" => lease[u] # "none") /\ (lease'[u] = "dead" => lease[u] = "dead")
    BY Zenon
  <2> QED
    BY <1>2, <2>1, <2>2, <2>3, <2>4, ZenonT(60) DEF ThreadInv
<1> QED
  BY <1>1, <1>2, Zenon DEF IInv


\* The usual case: the slots, the leases and the browser stay.
LEMMA Stepped ==
  ASSUME IInv, NEW t \in Threads, NEW s \in Stages, NEW p \in Purposes,
         stage' = [stage EXCEPT ![t] = s], purpose' = [purpose EXCEPT ![t] = p],
         gate' = gate \/ (gate = Nobody /\ gate' = t) \/ (gate = t /\ gate' = Nobody),
         UNCHANGED <<permits, lease, closing, timedOut>>, browser' = browser \/ browser' = "none",
         ThreadInv(t)'
  PROVE  IInv'
<1>1. ShutdownInv'
  BY Zenon DEF IInv, ShutdownInv
<1>2. permits' \subseteq Captures /\ IsFiniteSet(permits') /\ lease' \in [Threads -> {"none", "live", "dead", "lost"}]
  BY Zenon DEF IInv, TypeInv
<1> QED
  BY <1>1, <1>2, Moved, Zenon

\* What the invariant says of one thread.
LEMMA Kept == ASSUME IInv, NEW t \in Threads PROVE
  /\ ThreadInv(t) /\ purpose = [purpose EXCEPT ![t] = purpose[t]] /\ stage = [stage EXCEPT ![t] = stage[t]]
  /\ purpose[t] \in Purposes /\ stage[t] \in Stages
  BY Zenon DEF IInv, TypeInv

\* The steps of a capture around its page.
LEMMA JobSteps ==
  ASSUME IInv, NEW c \in Captures,
         StartJob(c) \/ CancelJob(c) \/ OpenPage(c) \/ LeaveSlot(c) \/ LeavePage(c) \/ Unregister(c)
  PROVE  IInv'
<1> USE ThreadsAre DEF Go
<1>1. CASE StartJob(c)
  <2>1. stage' = [stage EXCEPT ![Job(c)] = "running"] /\ purpose' = [purpose EXCEPT ![Job(c)] = purpose[Job(c)]]
    BY <1>1, Kept, Zenon DEF StartJob
  <2>2. ThreadInv(Job(c))'
    BY <1>1, <2>1, Kept, SMTT(60) DEF StartJob, ThreadInv, IInv, TypeInv, Gated
  <2> QED
    BY <1>1, <2>1, <2>2, Kept, Stepped, ZenonT(60) DEF StartJob, Stages
<1>2. CASE CancelJob(c)
  BY <1>2, ZenonT(60) DEF CancelJob, IInv, TypeInv, ThreadInv, ShutdownInv
<1>3. CASE OpenPage(c)
  <2>1. ThreadInv(Page(c))'
    BY <1>3, Kept, ZenonT(60) DEF OpenPage, ThreadInv, IInv, TypeInv, Gated
  <2> QED
    BY <1>3, <2>1, Stepped, Zenon DEF OpenPage, Stages, Purposes
<1>4. CASE LeaveSlot(c)
  <2>1. ThreadInv(Page(c))'
    BY <1>4, Kept, ZenonT(60) DEF LeaveSlot, ThreadInv, IInv, TypeInv, Gated
  <2> QED
    BY <1>4, <2>1, Stepped, Zenon DEF LeaveSlot, Stages, Purposes
<1>5. CASE LeavePage(c)
  <2>1. ThreadInv(Page(c))'
    BY <1>5, Kept, ZenonT(60) DEF LeavePage, ThreadInv, IInv, TypeInv, Gated
  <2> QED
    BY <1>5, <2>1, Stepped, Zenon DEF LeavePage, Stages, Purposes
<1>6. CASE Unregister(c)
  <2>1. stage' = [stage EXCEPT ![Job(c)] = "check"] /\ purpose' = [purpose EXCEPT ![Job(c)] = purpose[Job(c)]]
    BY <1>6, Kept, Zenon DEF Unregister
  <2>2. ThreadInv(Job(c))'
    BY <1>6, <2>1, Kept, SMTT(60) DEF Unregister, ThreadInv, IInv, TypeInv, Gated
  <2> QED
    BY <1>6, <2>1, <2>2, Kept, Stepped, Zenon DEF Unregister, Stages
<1> QED
  BY <1>1, <1>2, <1>3, <1>4, <1>5, <1>6, Zenon

\* The steps that move a slot or close the parts of a page.
LEMMA SlotSteps ==
  ASSUME IInv, NEW c \in Captures, TakeSlot(c) \/ Permitted(c) \/ CloseParts(c) \/ DropPermit(c)
  PROVE  IInv'
<1> USE ThreadsAre DEF Go
<1> DEFINE t == Page(c)
<1>0. /\ permits \subseteq Captures /\ IsFiniteSet(permits)
      /\ lease \in [Threads -> {"none", "live", "dead", "lost"}]
  BY Zenon DEF IInv, TypeInv
<1>a. IsFiniteSet(permits \cup {c}) /\ IsFiniteSet(permits \ {c})
  BY <1>0, FS_AddElement, FS_RemoveElement, Zenon
<1>b. \A u \in PageThreads : u # t /\ u[1] \in permits => u[1] \in permits \ {c}
  BY Zenon
<1>1. CASE TakeSlot(c)
  <2>1. stage' = [stage EXCEPT ![t] = "permitted"] /\ purpose' = [purpose EXCEPT ![t] = purpose[t]]
    BY <1>1, Kept, Zenon DEF TakeSlot
  <2>2. ThreadInv(t)'
    BY <1>1, <2>1, Kept, ZenonT(60) DEF TakeSlot, ThreadInv, IInv, TypeInv, Gated
  <2>3. ShutdownInv'
    BY <1>1, Zenon DEF TakeSlot, ShutdownInv, IInv
  <2>4. permits' \subseteq Captures /\ IsFiniteSet(permits') /\ permits \subseteq permits'
    BY <1>0, <1>a, <1>1, Zenon DEF TakeSlot
  <2>5. lease' = lease /\ gate' = gate /\ UNCHANGED <<closing, timedOut>>
    BY <1>1, Zenon DEF TakeSlot
  <2> QED
    BY <1>0, <2>1, <2>2, <2>3, <2>4, <2>5, Kept, Moved, ZenonT(60) DEF Stages
<1>2. CASE Permitted(c) /\ Open
  <2>1. stage' = [stage EXCEPT ![t] = "gate"] /\ purpose' = [purpose EXCEPT ![t] = purpose[t]]
    BY <1>2, Kept, Zenon DEF Permitted
  <2>2. ThreadInv(t)'
    BY <1>2, <2>1, Kept, ZenonT(60) DEF Permitted, ThreadInv, IInv, TypeInv, Gated
  <2> QED
    BY <1>2, <2>1, <2>2, Kept, Stepped, ZenonT(60) DEF Permitted, Stages
<1>3. CASE Permitted(c) /\ ~Open
  <2>2. ThreadInv(t)'
    BY <1>3, Kept, SMTT(60) DEF Permitted, ThreadInv, IInv, TypeInv, Gated
  <2>3. ShutdownInv'
    BY <1>3, Zenon DEF Permitted, ShutdownInv, IInv
  <2> QED
    BY <1>0, <1>a, <1>b, <1>3, <2>2, <2>3, Moved, ZenonT(60) DEF Permitted, Stages, Purposes
<1>4. CASE CloseParts(c)
  <2>1. stage' = [stage EXCEPT ![t] = stage[t]] /\ purpose' = [purpose EXCEPT ![t] = purpose[t]]
    BY <1>4, Kept, Zenon DEF CloseParts
  <2>2. ThreadInv(t)'
    BY <1>4, <2>1, Kept, ZenonT(40) DEF CloseParts, ThreadInv, IInv, TypeInv, Gated
  <2>3. ShutdownInv'
    BY <1>4, Zenon DEF CloseParts, ShutdownInv, IInv
  <2> QED
    BY <1>0, <1>4, <2>1, <2>2, <2>3, Kept, Moved, ZenonT(60) DEF CloseParts
<1>5. CASE DropPermit(c)
  <2>1. stage' = [stage EXCEPT ![t] = "check"] /\ purpose' = [purpose EXCEPT ![t] = purpose[t]]
    BY <1>5, Kept, Zenon DEF DropPermit
  <2>0. purpose[t] # "page" \/ t[1] \in permits
    BY Kept, <1>5, Zenon DEF ThreadInv, DropPermit
  <2>2. ThreadInv(t)'
    BY <1>5, <2>0, <2>1, Kept, ZenonT(60) DEF DropPermit, ThreadInv, IInv, TypeInv, Gated
  <2>3. ShutdownInv'
    BY <1>5, Zenon DEF DropPermit, ShutdownInv, IInv
  <2> QED
    BY <1>0, <1>a, <1>b, <1>5, <2>1, <2>2, <2>3, Kept, Moved, ZenonT(60) DEF DropPermit, Stages
<1> QED
  BY <1>1, <1>2, <1>3, <1>4, <1>5, Zenon


\* Whoever finds the browser due finds it unused: the slots taken are its own.
LEMMA DueUnused ==
  ASSUME IInv, NEW t \in Threads, stage[t] = "decide", Due(t)
  PROVE  \A u \in Threads : lease[u] # "live"
<1>0. IsFiniteSet(permits) /\ lease[t] = "none" /\ gate = t
  BY Kept, Zenon DEF IInv, TypeInv, ThreadInv, Gated
<1>1. CASE purpose[t] = "page"
  <2>1. Cardinality(permits) = 1 /\ t \in PageThreads /\ t[1] \in permits
    BY <1>1, Kept, Zenon DEF Due, Available, OwnSlots, ThreadInv
  <2>2. permits = {t[1]}
    <3>1. Cardinality({t[1]}) = 1
      BY FS_Singleton, Zenon
    <3>2. {t[1]} \subseteq permits
      BY <2>1, Zenon
    <3> QED
      BY <1>0, <2>1, <3>1, <3>2, FS_Subset, Zenon
  <2> QED
    BY <1>0, <1>1, <2>1, <2>2, Kept, ThreadsAre, SMTT(60) DEF ThreadInv
<1>2. CASE purpose[t] # "page"
  <2>1. permits = {}
    BY <1>0, <1>2, FS_EmptySet, Zenon DEF Due, Available, OwnSlots
  <2> QED
    BY <1>0, <1>2, <2>1, Kept, Zenon DEF ThreadInv
<1> QED
  BY <1>1, <1>2, Zenon

\* An operation that ends without a lease.
LEMMA Failed ==
  ASSUME IInv, NEW t \in Threads, Fail(t), lease[t] = "none", purpose[t] = "page" => stage[t] # "slot",
         UNCHANGED <<permits, lease, closing, timedOut>>, browser' = browser \/ browser' = "none"
  PROVE  IInv'
<1> DEFINE s == IF purpose[t] = "page" THEN "cleanup" ELSE "idle"
<1>1. stage' = [stage EXCEPT ![t] = s] /\ purpose' = [purpose EXCEPT ![t] = "recycle"]
  BY Zenon DEF Fail, Go
<1>2. ThreadInv(t)'
  BY <1>1, Kept, ZenonT(60) DEF ThreadInv, IInv, TypeInv, Gated
<1>3. gate' = gate \/ (gate = t /\ gate' = Nobody)
  BY Zenon DEF Fail
<1> QED
  BY <1>1, <1>2, <1>3, Stepped, ZenonT(60) DEF Stages, Purposes

\* The steps of an operation on the backend, from the gate on.
LEMMA GateSteps ==
  ASSUME IInv, NEW t \in Threads,
         TakeGate(t) \/ Decide(t) \/ CloseBackend(t) \/ Reset(t) \/ LockOwner(t) \/ Check(t) \/ Abort(t)
  PROVE  IInv'
<1> USE DEF Go
<1>1. CASE TakeGate(t)
  <2>1. stage' = [stage EXCEPT ![t] = "decide"] /\ purpose' = [purpose EXCEPT ![t] = purpose[t]]
    BY <1>1, Kept, Zenon DEF TakeGate
  <2>2. ThreadInv(t)'
    BY <1>1, <2>1, Kept, ZenonT(60) DEF TakeGate, ThreadInv, IInv, TypeInv, Gated
  <2> QED
    BY <1>1, <2>1, <2>2, Kept, Stepped, Zenon DEF TakeGate, Stages
<1>2. CASE Decide(t)
  <2>1. lease[t] = "none" /\ gate = t /\ stage[t] = "decide"
    BY <1>2, Kept, ZenonT(60) DEF Decide, ThreadInv, IInv, TypeInv, Gated
  <2>2. CASE Due(t) /\ Go(t, "closing") /\ UNCHANGED <<gate, owner, purpose>>
    <3>1. stage' = [stage EXCEPT ![t] = "closing"] /\ purpose' = [purpose EXCEPT ![t] = purpose[t]]
      BY <2>2, Kept, Zenon
    <3>2. ThreadInv(t)'
      BY <1>2, <2>1, <2>2, <3>1, DueUnused, Kept, ZenonT(60) DEF Decide, ThreadInv, IInv, TypeInv, Gated
    <3> QED
      BY <1>2, <2>2, <3>1, <3>2, Kept, Stepped, Zenon DEF Decide, Stages
  <2>3. CASE purpose[t] \in {"page", "ensure"} /\ Go(t, "acquire") /\ UNCHANGED <<gate, owner, purpose>>
    <3>1. stage' = [stage EXCEPT ![t] = "acquire"] /\ purpose' = [purpose EXCEPT ![t] = purpose[t]]
      BY <2>3, Kept, Zenon
    <3>2. ThreadInv(t)'
      BY <1>2, <2>1, <2>3, <3>1, Kept, ZenonT(60) DEF Decide, ThreadInv, IInv, TypeInv, Gated
    <3> QED
      BY <1>2, <2>3, <3>1, <3>2, Kept, Stepped, Zenon DEF Decide, Stages
  <2>4. CASE Fail(t)
    BY <1>2, <2>1, <2>4, Failed, Zenon DEF Decide
  <2> QED
    BY <1>2, <2>2, <2>3, <2>4, Zenon DEF Decide
<1>3. CASE CloseBackend(t)
  <2>1. stage[t] = "closing" /\ lease[t] = "none" /\ gate = t /\ \A u \in Threads : lease[u] # "live"
    BY <1>3, Kept, Zenon DEF CloseBackend, ThreadInv, Gated
  <2>2. lease' = lease /\ browser' = "none"
    BY <1>3, <2>1, Zenon DEF CloseBackend, CloseBrowser, IInv, TypeInv
  <2>3. CASE purpose[t] # "idle" /\ Go(t, "reset") /\ UNCHANGED <<gate, owner, purpose>>
    <3>1. stage' = [stage EXCEPT ![t] = "reset"] /\ purpose' = [purpose EXCEPT ![t] = purpose[t]]
      BY <2>3, Kept, Zenon
    <3>2. ThreadInv(t)'
      BY <1>3, <2>1, <2>2, <2>3, <3>1, Kept, ZenonT(60) DEF CloseBackend, ThreadInv, IInv, TypeInv, Gated
    <3> QED
      BY <1>3, <2>2, <2>3, <3>1, <3>2, Kept, Stepped, ZenonT(60) DEF CloseBackend, Stages
  <2>4. CASE Fail(t)
    BY <1>3, <2>1, <2>2, <2>4, Failed, Zenon DEF CloseBackend
  <2> QED
    BY <1>3, <2>3, <2>4, Zenon DEF CloseBackend
<1>4. CASE Reset(t)
  <2>1. stage[t] = "reset" /\ lease[t] = "none" /\ gate = t
    BY <1>4, Kept, Zenon DEF Reset, ThreadInv, Gated
  <2>3. CASE purpose[t] # "recycle" /\ Go(t, "acquire") /\ UNCHANGED <<gate, owner, purpose>>
    <3>1. stage' = [stage EXCEPT ![t] = "acquire"] /\ purpose' = [purpose EXCEPT ![t] = purpose[t]]
      BY <2>3, Kept, Zenon
    <3>3. purpose[t] \in {"page", "ensure"}
      BY <2>1, <2>3, Kept, Zenon DEF ThreadInv, Purposes
    <3>2. ThreadInv(t)'
      BY <1>4, <2>1, <2>3, <3>1, <3>3, Kept, ZenonT(60) DEF Reset, ThreadInv, IInv, TypeInv, Gated
    <3> QED
      BY <1>4, <2>3, <3>1, <3>2, Kept, Stepped, ZenonT(60) DEF Reset, Stages
  <2>4. CASE Fail(t)
    BY <1>4, <2>1, <2>4, Failed, Zenon DEF Reset
  <2> QED
    BY <1>4, <2>3, <2>4, Zenon DEF Reset
<1>5. CASE LockOwner(t)
  <2>1. stage' = [stage EXCEPT ![t] = "locked"] /\ purpose' = [purpose EXCEPT ![t] = purpose[t]]
    BY <1>5, Kept, Zenon DEF LockOwner
  <2>2. ThreadInv(t)'
    BY <1>5, <2>1, Kept, ZenonT(60) DEF LockOwner, ThreadInv, IInv, TypeInv, Gated
  <2> QED
    BY <1>5, <2>1, <2>2, Kept, Stepped, ZenonT(60) DEF LockOwner, Stages
<1>6. CASE Check(t)
  <2> DEFINE s == IF Available(0) /\ completed >= RecycleAfter THEN "gate" ELSE "idle"
  <2>1. stage' = [stage EXCEPT ![t] = s] /\ purpose' = [purpose EXCEPT ![t] = purpose[t]] /\ s \in {"gate", "idle"}
    BY <1>6, Kept, Zenon DEF Check
  <2> HIDE DEF s
  <2>2. ThreadInv(t)'
    BY <1>6, <2>1, Kept, ZenonT(60) DEF Check, ThreadInv, IInv, TypeInv, Gated
  <2> QED
    BY <1>6, <2>1, <2>2, Kept, Stepped, ZenonT(60) DEF Check, Stages
<1>7. CASE Abort(t)
  <2>1. lease[t] = "none" /\ stage[t] # "slot"
    BY <1>7, Kept, ZenonT(60) DEF Abort, ThreadInv
  <2> QED
    BY <1>7, <2>1, Failed, Zenon DEF Abort
<1> QED
  BY <1>1, <1>2, <1>3, <1>4, <1>5, <1>6, <1>7, Zenon

\* A browser is started, leased and released.
LEMMA LeaseSteps ==
  ASSUME IInv, NEW t \in Threads, StartBrowser(t) \/ Lease(t) \/ ReleaseLease(t)
  PROVE  IInv'
<1> USE DEF Go
<1>0. /\ permits \subseteq Captures /\ IsFiniteSet(permits)
      /\ lease \in [Threads -> {"none", "live", "dead", "lost"}]
  BY Zenon DEF IInv, TypeInv
<1>1. CASE StartBrowser(t)
  <2>1. stage[t] = "locked" /\ lease[t] = "none" /\ gate = t /\ purpose[t] \in {"page", "ensure"}
    BY <1>1, Kept, Zenon DEF StartBrowser, ThreadInv, Gated
  <2>2. CASE Fail(t) /\ UNCHANGED <<browser, lease, crashes>>
    BY <1>1, <2>1, <2>2, Failed, Zenon DEF StartBrowser
  <2>3. ASSUME Crash \/ UNCHANGED <<lease, crashes>>
        PROVE  /\ lease' \in [Threads -> {"none", "live", "dead", "lost"}] /\ lease'[t] = lease[t]
               /\ \A u \in Threads : lease'[u] # lease[u] => lease[u] = "live" /\ lease'[u] = "lost"
    BY <1>0, <2>1, <2>3, ZenonT(60) DEF Crash
  <2>4. CASE ~Cancelled(t) /\ browser' = "running" /\ Go(t, "started") /\ (Crash \/ UNCHANGED <<lease, crashes>>)
             /\ UNCHANGED <<gate, owner, purpose>>
    <3>1. stage' = [stage EXCEPT ![t] = "started"] /\ purpose' = [purpose EXCEPT ![t] = purpose[t]]
      BY <2>4, Kept, Zenon
    <3>2. ThreadInv(t)'
      BY <1>1, <2>1, <2>3, <2>4, <3>1, Kept, ZenonT(60) DEF StartBrowser, ThreadInv, IInv, TypeInv, Gated
    <3>3. ShutdownInv'
      BY <1>1, <2>4, Zenon DEF StartBrowser, ShutdownInv, IInv, Cancelled, Shutdown
    <3> QED
      BY <1>0, <1>1, <2>3, <2>4, <3>1, <3>2, <3>3, Kept, Moved, ZenonT(60) DEF StartBrowser, Stages
  <2>5. CASE ~Cancelled(t) /\ Crash /\ browser' = "none" /\ Fail(t)
    <3> DEFINE s == IF purpose[t] = "page" THEN "cleanup" ELSE "idle"
    <3>1. stage' = [stage EXCEPT ![t] = s] /\ purpose' = [purpose EXCEPT ![t] = "recycle"]
      BY <2>5, Zenon DEF Fail
    <3>2. ThreadInv(t)'
      BY <1>1, <2>1, <2>3, <2>5, <3>1, Kept, ZenonT(60) DEF StartBrowser, ThreadInv, IInv, TypeInv, Gated
    <3>3. ShutdownInv'
      BY <1>1, <2>5, Zenon DEF StartBrowser, ShutdownInv, IInv
    <3>4. gate' = Nobody /\ s \in Stages
      BY <2>1, <2>5, Zenon DEF Fail, Stages
    <3> HIDE DEF s
    <3> QED
      BY <1>0, <1>1, <2>1, <2>3, <2>5, <3>1, <3>2, <3>3, <3>4, Moved, Zenon DEF StartBrowser, Purposes
  <2> QED
    BY <1>1, <2>2, <2>4, <2>5, Zenon DEF StartBrowser
<1>2. CASE Lease(t)
  <2>1. stage[t] = "started" /\ lease[t] = "none" /\ gate = t /\ purpose[t] \in {"page", "ensure"}
    BY <1>2, Kept, Zenon DEF Lease, ThreadInv, Gated
  <2>2. CASE Cancelled(t)
    BY <1>2, <2>1, <2>2, Failed, Zenon DEF Lease
  <2>3. CASE ~Cancelled(t)
    <3>1. TypeInv'
      BY <1>2, <2>3, Zenon DEF Lease, IInv, TypeInv, Stages
    <3>2. ThreadInv(t)'
      BY <1>0, <1>2, <2>1, <2>3, Kept, ZenonT(60) DEF Lease, ThreadInv, IInv, TypeInv, Gated
    <3>3. ASSUME NEW u \in Threads, u # t PROVE ThreadInv(u)'
      <4>1. stage'[u] = stage[u] /\ purpose'[u] = purpose[u] /\ lease'[u] = lease[u] /\ gate # u
        BY <1>0, <1>2, <2>1, <2>3, <3>3, ZenonT(60) DEF Lease, IInv, TypeInv
      <4> QED
        BY <1>2, <2>3, <3>3, <4>1, Kept, ZenonT(60) DEF Lease, ThreadInv, Gated
    <3>4. ShutdownInv'
      BY <1>2, <2>3, Zenon DEF Lease, ShutdownInv, IInv
    <3> QED
      BY <3>1, <3>2, <3>3, <3>4, Zenon DEF IInv
  <2> QED
    BY <2>2, <2>3, Zenon
<1>3. CASE ReleaseLease(t)
  <2>1. stage' = [stage EXCEPT ![t] = "idle"] /\ purpose' = [purpose EXCEPT ![t] = "recycle"]
    BY <1>3, Zenon DEF ReleaseLease, Fail
  <2>2. ThreadInv(t)'
    BY <1>0, <1>3, <2>1, Kept, ZenonT(60) DEF ReleaseLease, ThreadInv, IInv, TypeInv, Gated
  <2>3. ShutdownInv'
    BY <1>3, Zenon DEF ReleaseLease, ShutdownInv, IInv
  <2>4. gate' = gate \/ (gate = t /\ gate' = Nobody)
    BY <1>3, Zenon DEF ReleaseLease, Fail
  <2>5. /\ lease' \in [Threads -> {"none", "live", "dead", "lost"}]
        /\ \A u \in Threads : lease'[u] # lease[u] => lease'[u] = "none"
    BY <1>0, <1>3, Zenon DEF ReleaseLease
  <2> QED
    BY <1>0, <1>3, <2>1, <2>2, <2>3, <2>4, <2>5, Moved, Zenon DEF ReleaseLease, Stages, Purposes
<1> QED
  BY <1>1, <1>2, <1>3, Zenon

\* ensure and close_idle are called.
LEMMA CallSteps ==
  ASSUME IInv, NEW t \in Callers \X {"caller"}, NEW what \in {"ensure", "idle"}, Call(t, what)
  PROVE  IInv'
<1> USE ThreadsAre DEF Go
<1>1. ThreadInv(t)'
  BY Kept, ZenonT(60) DEF Call, ThreadInv, IInv, TypeInv, Gated
<1> QED
  BY <1>1, Stepped, Zenon DEF Call, Stages, Purposes

\* The steps of the shutdown.
LEMMA CloseSteps ==
  ASSUME IInv, BeginClose \/ ShutdownStep
  PROVE  IInv'
<1>0. IsFiniteSet(permits) /\ lease \in [Threads -> {"none", "live", "dead", "lost"}]
  BY Zenon DEF IInv, TypeInv
<1>1. CASE BeginClose \/ CancelAll \/ LockBackend
  <2>1. TypeInv' /\ ShutdownInv'
    BY <1>1, Zenon DEF BeginClose, CancelAll, LockBackend, CloseStep, IInv, TypeInv, ShutdownInv
  <2>2. ASSUME NEW t \in Threads PROVE ThreadInv(t)'
    BY <1>1, Kept, ZenonT(60) DEF BeginClose, CancelAll, LockBackend, CloseStep, ThreadInv
  <2> QED
    BY <2>1, <2>2, Zenon DEF IInv
<1>2. CASE ContextsBack
  <2>1. TypeInv'
    BY <1>2, Zenon DEF ContextsBack, CloseStep, IInv, TypeInv
  <2>2. ASSUME NEW t \in Threads PROVE ThreadInv(t)'
    BY <1>2, Kept, Zenon DEF ContextsBack, CloseStep, ThreadInv
  <2>3. Available(0) => permits = {}
    BY <1>0, FS_EmptySet, Zenon DEF Available
  <2>4. ShutdownInv'
    BY <1>2, <2>3, Zenon DEF ContextsBack, CloseStep, IInv, ShutdownInv
  <2> QED
    BY <2>1, <2>2, <2>4, Zenon DEF IInv
<1>3. CASE FinishClose
  <2>1. TypeInv' /\ ShutdownInv'
    BY <1>3, Zenon DEF FinishClose, CloseBrowser, CloseStep, IInv, TypeInv, ShutdownInv
  <2>2. ASSUME NEW t \in Threads PROVE ThreadInv(t)'
    <3>1. /\ stage' = stage /\ purpose' = purpose /\ gate' = gate /\ permits' = permits /\ timedOut' = timedOut
          /\ closing = "locked" /\ closing' = "done"
          /\ lease' = [u \in Threads |-> IF lease[u] = "live" THEN "dead" ELSE lease[u]]
      BY <1>3, Zenon DEF FinishClose, CloseBrowser, CloseStep
    <3>2. lease[t] # "none" /\ t \in PageThreads => t[1] \in permits
      BY Kept, Zenon DEF ThreadInv
    <3>3. lease'[t] = "dead" => timedOut \/ t \notin PageThreads
      BY <3>1, <3>2, Kept, Zenon DEF ThreadInv, IInv, ShutdownInv
    <3> QED
      BY <3>1, <3>3, Kept, ZenonT(60) DEF ThreadInv
  <2> QED
    BY <2>1, <2>2, Zenon DEF IInv
<1> QED
  BY <1>1, <1>2, <1>3, Zenon DEF ShutdownStep

\* Every step preserves the invariant.
LEMMA NextKeeps == ASSUME IInv, [Next]_vars PROVE IInv'
<1>1. CASE \E c \in Captures : \/ StartJob(c) \/ CancelJob(c) \/ OpenPage(c) \/ TakeSlot(c)
                               \/ Leaving(c) \/ LeavePage(c) \/ Unregister(c)
  BY <1>1, JobSteps, SlotSteps, Zenon DEF Leaving
<1>2. CASE \E t \in Threads : TakeGate(t) \/ Backend(t)
  BY <1>2, GateSteps, LeaseSteps, Zenon DEF Backend
<1>3. CASE \E t \in Callers \X {"caller"}, what \in {"ensure", "idle"} : Call(t, what)
  BY <1>3, CallSteps, Zenon
<1>4. CASE UNCHANGED vars
  BY <1>4, ZenonT(60) DEF vars, IInv, TypeInv, ThreadInv, ShutdownInv
<1> QED
  BY <1>1, <1>2, <1>3, <1>4, CloseSteps, Zenon DEF Next

\* Recycling, close_idle and close take the browser from no page that uses it,
\* none runs after close, and a page in use has its slot, with any number of
\* captures and callers.
THEOREM PagesKeepTheirBrowser == Spec => []PagesKeepBrowser
<1>1. IInv => PagesKeepBrowser
  <2> SUFFICES ASSUME IInv PROVE PagesKeepBrowser
    BY Zenon
  <2>1. LeasesSurvive /\ NoBrowserAfterClose
    BY Zenon DEF IInv, ThreadInv, ShutdownInv, LeasesSurvive, NoBrowserAfterClose
  <2>2. SlotsCoverLeases
    BY Kept, ThreadsAre DEF ThreadInv, SlotsCoverLeases
  <2> QED
    BY <2>1, <2>2, Zenon DEF PagesKeepBrowser
<1> QED
  BY <1>1, Initial, NextKeeps, PTL DEF Spec
-----------------------------------------------------------------------------
(***************************************************************************)
(* ArtifactFiles: what a capture makes visible, for any captures finishing *)
(* at once, any policies, limits and damage.                               *)
(***************************************************************************)
FileSteps == {"create", "encode", "readback", "verify", "claim", "memory", "identity", "hash", "persist",
              "sync", "over"}
Receipts == {"none", "failed", "cancelled", "committed", "lost"}
Staged == [bytes : Nat, intact : BOOLEAN, linked : BOOLEAN]

FilesType ==
    /\ finalizing \in [Artifacts -> FileSteps] /\ stagedFile \in [Artifacts -> Staged]
    /\ published \in [Artifacts -> [bytes : Nat, intact : BOOLEAN]]
    /\ FilesTypeOK

\* What is about to be renamed was hashed; what was renamed is that, and its
\* caller hears of a success or of nothing.
FileInv(a) ==
    /\ finalizing[a] # "over" => receipt[a] = "none"
    /\ finalizing[a] = "persist" => stagedFile[a].bytes = encoded[a] /\ stagedFile[a].intact = TRUE
    /\ published[a] # Unpublished =>
          /\ finalizing[a] \in {"sync", "over"} /\ receipt[a] \in {"none", "committed", "lost"}
          /\ published[a] = [bytes |-> encoded[a], intact |-> TRUE]

FilesInv == FilesType /\ \A a \in Artifacts : FileInv(a)

\* The limits are numbers, and no capture has the name of what another program
\* leaves in the directory.
FileConstants ==
    /\ MaxSuffix \in Nat /\ artifact_bytes \in Nat
    /\ Artifacts \cap {"none", "file", "link"} = {}

FileStep(a) ==
    \/ CreateWriter(a) \/ WriteEncoded(a) \/ FinishWriter(a) \/ Readback(a)
    \/ VerifyReadback(a) \/ SeeCancelled(a) \/ ClaimCommit(a) \/ CommitMemory(a)
    \/ validate_staging_path_identity(a) \/ validate_staged_contents(a)
    \/ persist_noclobber(a) \/ persist_replace(a) \/ persist_unique(a)
    \/ sync_parent_directory(a) \/ DamageStaging(a) \/ ProcessEnds(a)

\* The initial states satisfy the invariant.
LEMMA FilesInitial == ASSUME FileConstants, FilesInit PROVE FilesInv
<1>1. CandidateNames # {} /\ 0 \in CandidateNames /\ 0 \in 0..artifact_bytes
  BY DEF FileConstants, CandidateNames
<1>2. FilesType
  BY <1>1 DEF FilesInit, FilesType, FilesTypeOK, FileSteps, Staged, Unpublished
<1>3. \A a \in Artifacts : FileInv(a)
  BY Zenon DEF FilesInit, FileInv
<1> QED
  BY <1>2, <1>3, Zenon DEF FilesInv

\* The staging file keeps its type when its path, its bytes or both change.
LEMMA StagedKept ==
  ASSUME FilesInv, NEW a \in Artifacts, NEW l \in BOOLEAN,
         stagedFile' = [stagedFile EXCEPT ![a].linked = l]
  PROVE  /\ stagedFile' \in [Artifacts -> Staged]
         /\ \A b \in Artifacts : /\ stagedFile'[b].bytes = stagedFile[b].bytes
                                 /\ stagedFile'[b].intact = stagedFile[b].intact
<1>1. stagedFile[a] \in Staged /\ stagedFile \in [Artifacts -> Staged]
  BY Zenon DEF FilesInv, FilesType
<1>2. PICK r : r = [stagedFile[a] EXCEPT !.linked = l]
  BY Zenon
<1>3. r \in Staged /\ r.bytes = stagedFile[a].bytes /\ r.intact = stagedFile[a].intact
  BY <1>1, <1>2, SMTT(60) DEF Staged
<1>4. stagedFile' = [stagedFile EXCEPT ![a] = r]
  BY <1>2, Zenon
<1>5. \A b \in Artifacts : stagedFile'[b] = IF b = a THEN r ELSE stagedFile[b]
  BY <1>1, <1>4, Zenon
<1> QED
  BY <1>1, <1>3, <1>4, <1>5, ZenonT(60)

\* A refusal leaves everything but the step, the answer and the staging path.
LEMMA Refused ==
  ASSUME FilesInv, NEW a \in Artifacts, NEW how \in Receipts, finalizing[a] \notin {"sync", "over"}, Refuse(a, how)
  PROVE  FilesInv'
<1>1. /\ finalizing' = [finalizing EXCEPT ![a] = "over"] /\ receipt' = [receipt EXCEPT ![a] = how]
      /\ stagedFile' = [stagedFile EXCEPT ![a].linked = FALSE]
      /\ encoded' = encoded /\ suffix' = suffix /\ published' = published /\ destinations' = destinations
  BY Zenon DEF Refuse, Reaches
<1>2. FilesType'
  <2>1. stagedFile' \in [Artifacts -> Staged]
    BY <1>1, StagedKept, Zenon
  <2>2. finalizing' \in [Artifacts -> FileSteps] /\ receipt' \in [Artifacts -> Receipts]
    BY <1>1, Zenon DEF FilesInv, FilesType, FilesTypeOK, FileSteps, Receipts
  <2> QED
    BY <1>1, <2>1, <2>2, Zenon DEF FilesInv, FilesType, FilesTypeOK, Receipts
<1>3. ASSUME NEW b \in Artifacts PROVE FileInv(b)'
  <2>1. CASE b = a
    <3>1. published'[b] = Unpublished /\ finalizing'[b] = "over"
      BY <1>1, <2>1, Zenon DEF FilesInv, FilesType, FileInv
    <3> QED
      BY <3>1, Zenon DEF FileInv
  <2>2. CASE b # a
    <3>1. /\ finalizing'[b] = finalizing[b] /\ receipt'[b] = receipt[b] /\ stagedFile'[b] = stagedFile[b]
          /\ published'[b] = published[b] /\ encoded'[b] = encoded[b]
      BY <1>1, <2>2, Zenon DEF FilesInv, FilesType, FilesTypeOK
    <3> QED
      BY <3>1, ZenonT(60) DEF FilesInv, FileInv
  <2> QED
    BY <2>1, <2>2, Zenon
<1> QED
  BY <1>2, <1>3, Zenon DEF FilesInv

\* A step that only goes on, to anywhere but the commit.
LEMMA Proceeds ==
  ASSUME FilesInv, NEW a \in Artifacts, NEW s \in FileSteps, finalizing[a] \notin {"sync", "over"},
         s # "persist" \/ (stagedFile[a].bytes = encoded[a] /\ stagedFile[a].intact), Proceed(a, s)
  PROVE  FilesInv'
<1>1. /\ finalizing' = [finalizing EXCEPT ![a] = s] /\ receipt' = receipt /\ stagedFile' = stagedFile
      /\ encoded' = encoded /\ suffix' = suffix /\ published' = published /\ destinations' = destinations
  BY Zenon DEF Proceed, Reaches
<1>2. FilesType'
  BY <1>1, SMTT(60) DEF FilesInv, FilesType, FilesTypeOK
<1>3. ASSUME NEW b \in Artifacts PROVE FileInv(b)'
  BY <1>1, SMTT(60) DEF FilesInv, FilesType, FilesTypeOK, Staged, FileInv
<1> QED
  BY <1>2, <1>3, Zenon DEF FilesInv

\* The rename makes visible what was hashed.
LEMMA Renamed ==
  ASSUME FilesInv, NEW a \in Artifacts, NEW name \in CandidateNames, finalizing[a] = "persist", Publishes(a, name)
  PROVE  FilesInv'
<1>1. /\ finalizing' = [finalizing EXCEPT ![a] = "sync"] /\ receipt' = receipt
      /\ stagedFile' = [stagedFile EXCEPT ![a].linked = FALSE]
      /\ published' = [published EXCEPT ![a] = [bytes |-> stagedFile[a].bytes, intact |-> stagedFile[a].intact]]
      /\ encoded' = encoded /\ suffix' = suffix /\ destinations' = [destinations EXCEPT ![name] = a]
  BY Zenon DEF Publishes, Reaches
<1>2. FilesType'
  <2>1. stagedFile' \in [Artifacts -> Staged]
    BY <1>1, StagedKept, Zenon
  <2>2. finalizing' \in [Artifacts -> FileSteps]
    BY <1>1, Zenon DEF FilesInv, FilesType, FileSteps
  <2>3. [bytes |-> stagedFile[a].bytes, intact |-> stagedFile[a].intact] \in [bytes : Nat, intact : BOOLEAN]
    BY Zenon DEF FilesInv, FilesType, Staged
  <2>4. published' \in [Artifacts -> [bytes : Nat, intact : BOOLEAN]]
    BY <1>1, <2>3, Zenon DEF FilesInv, FilesType
  <2>5. destinations' \in [CandidateNames -> {"none", "file", "link"} \cup Artifacts]
    BY <1>1, Zenon DEF FilesInv, FilesType, FilesTypeOK
  <2> QED
    BY <1>1, <2>1, <2>2, <2>4, <2>5, Zenon DEF FilesInv, FilesType, FilesTypeOK
<1>3. ASSUME NEW b \in Artifacts PROVE FileInv(b)'
  <2>1. CASE b = a
    <3>1. /\ finalizing'[b] = "sync" /\ receipt'[b] = "none" /\ encoded'[b] = encoded[b]
          /\ published'[b] = [bytes |-> stagedFile[a].bytes, intact |-> stagedFile[a].intact]
      BY <1>1, <2>1, ZenonT(60) DEF FilesInv, FilesType, FileInv
    <3>2. stagedFile[a].bytes = encoded[b] /\ stagedFile[a].intact = TRUE
      BY <2>1, Zenon DEF FilesInv, FileInv
    <3> QED
      BY <3>1, <3>2, Zenon DEF FileInv
  <2>2. CASE b # a
    <3>1. /\ finalizing'[b] = finalizing[b] /\ receipt'[b] = receipt[b] /\ stagedFile'[b] = stagedFile[b]
          /\ published'[b] = published[b] /\ encoded'[b] = encoded[b]
      BY <1>1, <2>2, Zenon DEF FilesInv, FilesType, FilesTypeOK
    <3> QED
      BY <3>1, ZenonT(60) DEF FilesInv, FileInv
  <2> QED
    BY <2>1, <2>2, Zenon
<1> QED
  BY <1>2, <1>3, Zenon DEF FilesInv

\* The steps of a capture preserve the invariant.
LEMMA FileStepKeeps ==
  ASSUME FileConstants, FilesInv, NEW a \in Artifacts, FileStep(a) PROVE FilesInv'
<1> USE DEF FileSteps, Receipts
<1>1. CASE CreateWriter(a)
  <2>1. CASE Refuse(a, "failed")
    BY <1>1, <2>1, Refused, Zenon DEF CreateWriter
  <2>2. CASE /\ Reaches(a, "encode")
             /\ stagedFile' = [stagedFile EXCEPT ![a].linked = conflict[a] # "Memory"]
             /\ UNCHANGED <<conflict, encoded, suffix, receipt, published, destinations, damage>>
    <3>1. /\ finalizing[a] = "create" /\ finalizing' = [finalizing EXCEPT ![a] = "encode"] /\ receipt' = receipt
          /\ encoded' = encoded /\ suffix' = suffix /\ published' = published /\ destinations' = destinations
      BY <1>1, <2>2, Zenon DEF CreateWriter, Reaches
    <3>2. (conflict[a] # "Memory") \in BOOLEAN
      BY Zenon
    <3>3. FilesType'
      <4>1. stagedFile' \in [Artifacts -> Staged]
        BY <2>2, <3>2, StagedKept, Zenon
      <4>2. finalizing' \in [Artifacts -> FileSteps]
        BY <3>1, Zenon DEF FilesInv, FilesType
      <4> QED
        BY <3>1, <4>1, <4>2, Zenon DEF FilesInv, FilesType, FilesTypeOK
    <3>4. ASSUME NEW b \in Artifacts PROVE FileInv(b)'
      BY <2>2, <3>1, SMTT(60) DEF FilesInv, FilesType, FilesTypeOK, Staged, FileInv
    <3> QED
      BY <3>3, <3>4, Zenon DEF FilesInv
  <2> QED
    BY <1>1, <2>1, <2>2, Zenon DEF CreateWriter
<1>2. CASE WriteEncoded(a)
  <2>1. CASE Refuse(a, "failed")
    BY <1>2, <2>1, Refused, Zenon DEF WriteEncoded
  <2>2. CASE ~Refuse(a, "failed")
    <3>1. /\ finalizing[a] = "encode" /\ ~(encoded[a] + 1 > artifact_bytes)
          /\ encoded' = [encoded EXCEPT ![a] = @ + 1]
          /\ stagedFile' = [stagedFile EXCEPT ![a].bytes = @ + 1]
          /\ finalizing' = finalizing /\ receipt' = receipt
          /\ suffix' = suffix /\ published' = published /\ destinations' = destinations
      BY <1>2, <2>2, Zenon DEF WriteEncoded
    <3>2. encoded' \in [Artifacts -> 0..artifact_bytes]
      BY <3>1, SMTT(60) DEF FileConstants, FilesInv, FilesType, FilesTypeOK
    <3>3. FilesType'
      BY <3>1, <3>2, SMTT(60) DEF FilesInv, FilesType, FilesTypeOK, Staged
    <3>4. ASSUME NEW b \in Artifacts PROVE FileInv(b)'
      BY <3>1, SMTT(60) DEF FilesInv, FilesType, FilesTypeOK, Staged, FileInv
    <3> QED
      BY <3>3, <3>4, Zenon DEF FilesInv
  <2> QED
    BY <2>1, <2>2, Zenon
<1>3. CASE FinishWriter(a) \/ Readback(a) \/ VerifyReadback(a) \/ SeeCancelled(a) \/ ClaimCommit(a)
           \/ validate_staging_path_identity(a) \/ validate_staged_contents(a)
  <2>1. \/ \E how \in Receipts : Refuse(a, how)
        \/ \E s \in FileSteps : /\ Proceed(a, s)
                                /\ s = "persist" => stagedFile[a].bytes = encoded[a] /\ stagedFile[a].intact
    BY <1>3, ZenonT(60) DEF FinishWriter, Readback, VerifyReadback, SeeCancelled, ClaimCommit,
         validate_staging_path_identity, validate_staged_contents
  <2>2. finalizing[a] \notin {"sync", "over"}
    BY <1>3, Zenon DEF FinishWriter, Readback, VerifyReadback, SeeCancelled, ClaimCommit,
         validate_staging_path_identity, validate_staged_contents
  <2> QED
    BY <2>1, <2>2, Refused, Proceeds, Zenon
<1>4. CASE persist_noclobber(a) \/ persist_replace(a) \/ persist_unique(a)
  <2>1. finalizing[a] = "persist" /\ 0 \in CandidateNames /\ suffix[a] \in CandidateNames
    <3>1. 0 \in CandidateNames
      BY DEF FileConstants, CandidateNames
    <3> QED
      BY <1>4, <3>1, Zenon DEF persist_noclobber, persist_replace, persist_unique, FilesInv, FilesType, FilesTypeOK
  <2>2. CASE Refuse(a, "failed")
    BY <2>1, <2>2, Refused, Zenon
  <2>3. CASE Publishes(a, 0) \/ Publishes(a, suffix[a])
    BY <2>1, <2>3, Renamed, Zenon
  <2>4. CASE /\ suffix[a] < MaxSuffix /\ suffix' = [suffix EXCEPT ![a] = @ + 1]
             /\ UNCHANGED <<finalizing, conflict, encoded, stagedFile, receipt, published, destinations, damage>>
    <3>1. suffix' \in [Artifacts -> CandidateNames]
      BY <2>1, <2>4, SMTT(60) DEF FileConstants, FilesInv, FilesType, FilesTypeOK, CandidateNames
    <3> QED
      BY <2>4, <3>1, Zenon DEF FilesInv, FilesType, FilesTypeOK, FileInv
  <2> QED
    BY <1>4, <2>2, <2>3, <2>4, Zenon DEF persist_noclobber, persist_replace, persist_unique
<1>5. CASE CommitMemory(a) \/ sync_parent_directory(a) \/ ProcessEnds(a)
  <2>1. PICK how \in {"committed", "lost"} :
           /\ finalizing' = [finalizing EXCEPT ![a] = "over"] /\ receipt' = [receipt EXCEPT ![a] = how]
    BY <1>5, Zenon DEF CommitMemory, sync_parent_directory, ProcessEnds, Reaches
  <2>2. /\ finalizing[a] # "over" /\ stagedFile' = stagedFile
        /\ encoded' = encoded /\ suffix' = suffix /\ published' = published /\ destinations' = destinations
    BY <1>5, Zenon DEF CommitMemory, sync_parent_directory, ProcessEnds
  <2>3. FilesType'
    BY <2>1, <2>2, SMTT(60) DEF FilesInv, FilesType, FilesTypeOK
  <2>4. ASSUME NEW b \in Artifacts PROVE FileInv(b)'
    BY <2>1, <2>2, SMTT(60) DEF FilesInv, FilesType, FilesTypeOK, FileInv
  <2> QED
    BY <2>3, <2>4, Zenon DEF FilesInv
<1>6. CASE DamageStaging(a)
  <2>1. /\ finalizing[a] \notin {"persist", "sync", "over"} /\ finalizing' = finalizing /\ receipt' = receipt
        /\ encoded' = encoded /\ suffix' = suffix /\ published' = published /\ destinations' = destinations
    BY <1>6, Zenon DEF DamageStaging
  <2>2. stagedFile' \in [Artifacts -> Staged] /\ \A b \in Artifacts : b # a => stagedFile'[b] = stagedFile[b]
    <3>1. stagedFile \in [Artifacts -> Staged] /\ stagedFile[a] \in Staged
      BY Zenon DEF FilesInv, FilesType
    <3>2. CASE stagedFile' = [stagedFile EXCEPT ![a].linked = FALSE]
      BY <3>1, <3>2, StagedKept, Zenon
    <3>3. CASE stagedFile' = [stagedFile EXCEPT ![a].intact = FALSE]
      <4>1. [stagedFile[a] EXCEPT !.intact = FALSE] \in Staged
        BY <3>1, Zenon DEF Staged
      <4> QED
        BY <3>1, <3>3, <4>1, Zenon
    <3>4. CASE stagedFile' = [stagedFile EXCEPT ![a].intact = FALSE, ![a].bytes = @ + 1]
      <4>1. [stagedFile[a] EXCEPT !.intact = FALSE] \in Staged
        BY <3>1, Zenon DEF Staged
      <4>2. \A r \in Staged : [r EXCEPT !.bytes = @ + 1] \in Staged
        BY SMTT(60) DEF Staged
      <4>3. PICK r : r = [stagedFile EXCEPT ![a].intact = FALSE]
        BY Zenon
      <4>4. r \in [Artifacts -> Staged] /\ \A b \in Artifacts : b # a => r[b] = stagedFile[b]
        BY <3>1, <4>1, <4>3, Zenon
      <4>5. stagedFile' = [r EXCEPT ![a].bytes = @ + 1]
        BY <3>4, <4>3, Zenon
      <4>6. [r[a] EXCEPT !.bytes = @ + 1] \in Staged
        BY <4>2, <4>4, Zenon
      <4> QED
        BY <4>4, <4>5, <4>6, Zenon
    <3> QED
      BY <1>6, <3>2, <3>3, <3>4, Zenon DEF DamageStaging
  <2>3. FilesType'
    BY <2>1, <2>2, Zenon DEF FilesInv, FilesType, FilesTypeOK
  <2>4. ASSUME NEW b \in Artifacts PROVE FileInv(b)'
    BY <2>1, <2>2, ZenonT(60) DEF FilesInv, FileInv
  <2> QED
    BY <2>3, <2>4, Zenon DEF FilesInv
<1> QED
  BY <1>1, <1>2, <1>3, <1>4, <1>5, <1>6, Zenon DEF FileStep

\* Every step preserves the invariant.
LEMMA FilesStep == ASSUME FileConstants, FilesInv, [FilesNext]_fileVars PROVE FilesInv'
<1>1. ASSUME NEW name \in CandidateNames, ForeignFile(name) PROVE FilesInv'
  <2>1. destinations' \in [CandidateNames -> {"none", "file", "link"} \cup Artifacts]
    BY <1>1, SMTT(60) DEF ForeignFile, FilesInv, FilesType, FilesTypeOK
  <2>2. /\ finalizing' = finalizing /\ receipt' = receipt /\ stagedFile' = stagedFile
        /\ encoded' = encoded /\ suffix' = suffix /\ published' = published
    BY <1>1, Zenon DEF ForeignFile
  <2> QED
    BY <2>1, <2>2, Zenon DEF FilesInv, FilesType, FilesTypeOK, FileInv
<1>2. CASE UNCHANGED fileVars
  BY <1>2, Zenon DEF fileVars, FilesInv, FilesType, FilesTypeOK, FileInv
<1>3. ASSUME NEW a \in Artifacts, FileStep(a) PROVE FilesInv'
  BY <1>3, FileStepKeeps, Zenon
<1> QED
  BY <1>1, <1>2, <1>3, Zenon DEF FilesNext, FileStep

\* finalize: the invariant of the other two theorems, for any captures,
\* policies and limits.
THEOREM FilesInvariance == ASSUME FileConstants PROVE FilesSpec => []FilesInv
  BY FilesInitial, FilesStep, PTL DEF FilesSpec

\* finalize and validate_staged_contents: for any captures, policies and damage,
\* what is visible is the whole verified document of a capture that was not
\* reported as failed or cancelled, and every document is within artifact_bytes.
THEOREM OnlyWholeArtifacts ==
  ASSUME FileConstants PROVE FilesSpec => [](VisibleMeansCommitted /\ FilesTypeOK)
<1>1. FilesInv => VisibleMeansCommitted /\ FilesTypeOK
  BY Zenon DEF FilesInv, FilesType, FileInv, VisibleMeansCommitted
<1> QED
  BY <1>1, FilesInvariance, PTL

\* persist_noclobber and persist_unique: for any captures and any other programs
\* writing in the directory, only a capture with Replace takes the place of a file.
THEOREM NothingReplaced ==
  ASSUME FileConstants PROVE FilesSpec => [][ClobbersNothing]_fileVars
<1>1. ASSUME FilesInv, [FilesNext]_fileVars PROVE [ClobbersNothing]_fileVars
  <2> SUFFICES ASSUME FilesNext, NEW a \in Artifacts, NEW name \in CandidateNames,
                      destinations[name] # a, destinations'[name] = a, conflict[a] # "Replace"
               PROVE  destinations[name] = "none"
    BY <1>1, Zenon DEF ClobbersNothing
  <2>1. destinations \in [CandidateNames -> {"none", "file", "link"} \cup Artifacts]
    BY <1>1, Zenon DEF FilesInv, FilesType, FilesTypeOK
  <2>2. ASSUME NEW m \in CandidateNames, ForeignFile(m) PROVE FALSE
    BY <2>1, <2>2, SMTT(60) DEF ForeignFile, FileConstants
  <2>3. PICK b \in Artifacts : FileStep(b)
    BY <2>2, Zenon DEF FilesNext, FileStep
  <2>4. \/ Publishes(b, 0) /\ (destinations[0] = "none" \/ conflict[b] = "Replace")
        \/ Publishes(b, suffix[b]) /\ destinations[suffix[b]] = "none"
    BY <2>3, Zenon DEF FileStep, CreateWriter, WriteEncoded, FinishWriter, Readback, VerifyReadback, SeeCancelled,
         ClaimCommit, CommitMemory, validate_staging_path_identity, validate_staged_contents,
         persist_noclobber, persist_replace, persist_unique, sync_parent_directory, DamageStaging, ProcessEnds,
         Refuse, Proceed
  <2>5. 0 \in CandidateNames /\ suffix[b] \in CandidateNames
    <3>1. 0 \in CandidateNames
      BY DEF FileConstants, CandidateNames
    <3> QED
      BY <1>1, <3>1, Zenon DEF FilesInv, FilesType, FilesTypeOK
  <2> QED
    BY <2>1, <2>4, <2>5, ZenonT(60) DEF Publishes
<1> QED
  BY <1>1, FilesInvariance, PTL DEF FilesSpec
=============================================================================
