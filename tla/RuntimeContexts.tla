--------------------------- MODULE RuntimeContexts ---------------------------
(***************************************************************************)
(* Browser contexts of a runtime that owns its browser: the semaphore of   *)
(* context slots, the gate around operations on the backend, the recycling *)
(* of the browser after a number of jobs, and the shutdown, which closes   *)
(* the backend without the gate.                                           *)
(*                                                                         *)
(* A capture has two threads: "page" opens, uses and cleans up a page (an  *)
(* aborted acquisition is cleaned up by a spawned task), "job" unregisters *)
(* the job and runs the recycling that spawns. Other callers ensure or     *)
(* close an idle browser.                                                  *)
(***************************************************************************)
EXTENDS Naturals, FiniteSets

CONSTANTS
    Captures,       \* concurrent capture jobs
    Callers,        \* callers of BrowserService::ensure and close_idle
    MaxContexts,    \* maximum_contexts
    RecycleAfter,   \* browser_recycle_after_jobs
    MaxCrashes,     \* bound: browsers found unhealthy
    Timers          \* whether the ten-second wait for contexts may expire

PageThreads == Captures \X {"page"}
JobThreads == Captures \X {"job"}
Threads == PageThreads \cup JobThreads \cup (Callers \X {"caller"})
Nobody == <<>>
Closer == <<"close">>

VARIABLES
    stage,       \* where each thread is
    purpose,     \* what a thread wants from the backend
    permits,     \* the captures that hold a context slot
    gate,        \* who holds owned_backend_gate
    owner,       \* who holds the backend's owner lock
    browser,     \* the backend's browser
    lease,       \* each thread's lease of it
    crashes,     \* browsers found unhealthy so far
    completed,   \* completed_jobs, as far as RecycleAfter tells values apart
    cancelled,   \* the captures whose token is cancelled
    closing,     \* where the shutdown is
    timedOut     \* the wait for the contexts expired

vars == <<stage, purpose, permits, gate, owner, browser, lease, crashes, completed,
          cancelled, closing, timedOut>>

Init ==
    /\ stage = [t \in Threads |-> "idle"]
    /\ purpose = [t \in Threads |-> "recycle"]
    /\ permits = {} /\ gate = Nobody /\ owner = Nobody
    /\ browser = "none" /\ lease = [t \in Threads |-> "none"]
    /\ crashes = 0 /\ completed = 0 /\ cancelled = {}
    /\ closing = "open" /\ timedOut = FALSE

Page(c) == <<c, "page">>
Job(c) == <<c, "job">>
Go(t, where) == stage' = [stage EXCEPT ![t] = where]

\* phase = OPEN
Open == closing = "open"

\* The runtime's token is cancelled.
Shutdown == closing \notin {"open", "closing"}

\* A thread's cancellation token: the job's, or one of the runtime's.
Cancelled(t) == Shutdown \/ (t \in PageThreads /\ t[1] \in cancelled)

\* available_permits() = maximum_contexts - used
Available(used) == Cardinality(permits) = used

\* The browser of the owner goes: the leases that used it are dead.
CloseBrowser ==
    /\ browser' = "none"
    /\ lease' = [t \in Threads |-> IF lease[t] = "live" THEN "dead" ELSE lease[t]]
-----------------------------------------------------------------------------
(* Capture jobs. *)

StartJob(c) ==
    /\ stage[Job(c)] = "idle" /\ stage[Page(c)] = "idle" /\ Open
    /\ Go(Job(c), "running")
    /\ cancelled' = cancelled \ {c}
    /\ UNCHANGED <<purpose, permits, gate, owner, browser, lease, crashes, completed, closing,
                   timedOut>>

CancelJob(c) ==
    /\ stage[Job(c)] = "running" /\ c \notin cancelled
    /\ cancelled' = cancelled \cup {c}
    /\ UNCHANGED <<stage, purpose, permits, gate, owner, browser, lease, crashes, completed,
                   closing, timedOut>>

\* open_page: a capture opens a page, and another one to verify offline.
OpenPage(c) ==
    /\ stage[Job(c)] = "running" /\ stage[Page(c)] = "idle"
    /\ Open /\ ~Cancelled(Page(c))
    /\ Go(Page(c), "slot")
    /\ purpose' = [purpose EXCEPT ![Page(c)] = "page"]
    /\ UNCHANGED <<permits, gate, owner, browser, lease, crashes, completed, cancelled, closing,
                   timedOut>>

\* acquire_owned on the semaphore; the shutdown closes the semaphore at its end.
TakeSlot(c) ==
    /\ stage[Page(c)] = "slot"
    /\ Cardinality(permits) < MaxContexts /\ closing \notin {"backend", "locked", "done"}
    /\ permits' = permits \cup {c}
    /\ Go(Page(c), "permitted")
    /\ UNCHANGED <<purpose, gate, owner, browser, lease, crashes, completed, cancelled, closing,
                   timedOut>>

LeaveSlot(c) ==
    /\ stage[Page(c)] = "slot"
    /\ Cancelled(Page(c)) \/ closing \in {"backend", "locked", "done"}
    /\ Go(Page(c), "idle")
    /\ purpose' = [purpose EXCEPT ![Page(c)] = "recycle"]
    /\ UNCHANGED <<permits, gate, owner, browser, lease, crashes, completed, cancelled, closing,
                   timedOut>>

\* The second ensure_open, then the acquisition task.
Permitted(c) ==
    /\ stage[Page(c)] = "permitted"
    /\ IF Open
       THEN Go(Page(c), "gate") /\ UNCHANGED <<permits, purpose>>
       ELSE /\ Go(Page(c), "idle")
            /\ permits' = permits \ {c}
            /\ purpose' = [purpose EXCEPT ![Page(c)] = "recycle"]
    /\ UNCHANGED <<gate, owner, browser, lease, crashes, completed, cancelled, closing, timedOut>>

-----------------------------------------------------------------------------
(* Operations under the gate. *)

TakeGate(t) ==
    /\ stage[t] = "gate" /\ gate = Nobody
    /\ gate' = t
    /\ Go(t, "decide")
    /\ UNCHANGED <<purpose, permits, owner, browser, lease, crashes, completed, cancelled, closing,
                   timedOut>>

\* The number of slots the operation itself accounts for.
OwnSlots(t) == IF purpose[t] = "page" THEN 1 ELSE 0

\* A recycling that forgets the contexts of others.
DueWhateverIsActive(t) ==
    \/ purpose[t] = "idle"
    \/ completed >= RecycleAfter

\* recycle_backend_if_due_locked, and close_idle_browser's second look.
Due(t) ==
    /\ Available(OwnSlots(t))
    /\ purpose[t] = "idle" \/ completed >= RecycleAfter

\* An acquisition that fails without a lease and forgets its slot.
FailLosingSlot(t) ==
    /\ gate' = IF gate = t THEN Nobody ELSE gate
    /\ owner' = IF owner = t THEN Nobody ELSE owner
    /\ Go(t, "idle")
    /\ purpose' = [purpose EXCEPT ![t] = "recycle"]

\* The operation ends without a lease: the gate is released; a page's slot goes
\* through the cleanup of PendingRuntimePage.
Fail(t) ==
    /\ gate' = IF gate = t THEN Nobody ELSE gate
    /\ owner' = IF owner = t THEN Nobody ELSE owner
    /\ Go(t, IF purpose[t] = "page" THEN "cleanup" ELSE "idle")
    /\ purpose' = [purpose EXCEPT ![t] = "recycle"]

Decide(t) ==
    /\ stage[t] = "decide"
    /\ \/ Due(t) /\ Go(t, "closing") /\ UNCHANGED <<gate, owner, purpose>>
       \/ ~Due(t) /\ purpose[t] \in {"page", "ensure"}
          /\ Go(t, "acquire") /\ UNCHANGED <<gate, owner, purpose>>
       \/ ~Due(t) /\ purpose[t] \in {"recycle", "idle"} /\ Fail(t)
    /\ UNCHANGED <<permits, browser, lease, crashes, completed, cancelled, closing, timedOut>>

\* backend.close: take the owner, then close it, or fail doing so.
CloseBackend(t) ==
    /\ stage[t] = "closing" /\ owner = Nobody
    /\ CloseBrowser
    /\ \/ purpose[t] # "idle" /\ Go(t, "reset") /\ UNCHANGED <<gate, owner, purpose>>
       \/ (purpose[t] = "idle" \/ browser = "running") /\ Fail(t)
    /\ UNCHANGED <<permits, crashes, completed, cancelled, closing, timedOut>>

\* completed_jobs.store(0): a job that completed since is forgotten.
Reset(t) ==
    /\ stage[t] = "reset"
    /\ completed' = 0
    /\ \/ purpose[t] = "recycle" /\ Fail(t)
       \/ purpose[t] # "recycle" /\ Go(t, "acquire") /\ UNCHANGED <<gate, owner, purpose>>
    /\ UNCHANGED <<permits, browser, lease, crashes, cancelled, closing, timedOut>>

\* acquire_lease: the owner lock.
LockOwner(t) ==
    /\ stage[t] = "acquire" /\ owner = Nobody
    /\ owner' = t
    /\ Go(t, "locked")
    /\ UNCHANGED <<purpose, permits, gate, browser, lease, crashes, completed, cancelled, closing,
                   timedOut>>

\* A start that does not look at the token again.
StartBrowserUnchecked(t) ==
    /\ stage[t] = "locked"
    /\ browser' = "running"
    /\ Go(t, "started")
    /\ UNCHANGED <<purpose, gate, owner, permits, lease, crashes, completed, cancelled, closing,
                   timedOut>>

\* The leases on a browser that fails its health check are lost with it.
Crash ==
    /\ browser = "running" /\ crashes < MaxCrashes
    /\ crashes' = crashes + 1
    /\ lease' = [u \in Threads |-> IF lease[u] = "live" THEN "lost" ELSE lease[u]]

\* The browser is kept, replaced or started; starting it may fail, and so may
\* the acquisition when the running browser is not the one requested.
StartBrowser(t) ==
    /\ stage[t] = "locked"
    /\ \/ /\ ~Cancelled(t)
          /\ browser' = "running" /\ Go(t, "started")
          /\ Crash \/ UNCHANGED <<lease, crashes>>
          /\ UNCHANGED <<gate, owner, purpose>>
       \/ ~Cancelled(t) /\ Crash /\ browser' = "none" /\ Fail(t)
       \/ Fail(t) /\ UNCHANGED <<browser, lease, crashes>>
    /\ UNCHANGED <<permits, completed, cancelled, closing, timedOut>>

\* The lease, unless the token was cancelled meanwhile. A page lets the gate go
\* here, ensure_browser keeps it until its lease is closed.
Lease(t) ==
    /\ stage[t] = "started"
    /\ \/ /\ ~Cancelled(t)
          /\ owner' = Nobody
          /\ gate' = IF purpose[t] = "page" THEN Nobody ELSE gate
          /\ lease' = [lease EXCEPT ![t] = "live"]
          /\ Go(t, "leased")
          /\ UNCHANGED purpose
       \/ /\ Cancelled(t)
          /\ Fail(t)
          /\ UNCHANGED lease
    /\ UNCHANGED <<permits, browser, crashes, completed, cancelled, closing, timedOut>>

\* The cancellation branch of open_page or acquire_and_release: the future that
\* runs the acquisition is dropped, wherever it waits.
Abort(t) ==
    /\ Cancelled(t)
    /\ \/ /\ purpose[t] = "page"
          /\ stage[t] \in {"gate", "decide", "closing", "reset", "acquire", "locked", "started"}
       \/ purpose[t] = "ensure" /\ stage[t] \in {"acquire", "locked", "started"}
    /\ Fail(t)
    /\ UNCHANGED <<permits, browser, lease, crashes, completed, cancelled, closing, timedOut>>
-----------------------------------------------------------------------------
(* Leaving. *)

\* The context and the page are made and used until the capture is done with
\* them, fails or is cancelled.
LeavePage(c) ==
    /\ stage[Page(c)] = "leased"
    /\ Go(Page(c), "cleanup")
    /\ purpose' = [purpose EXCEPT ![Page(c)] = "recycle"]
    /\ UNCHANGED <<permits, gate, owner, browser, lease, crashes, completed, cancelled, closing,
                   timedOut>>

\* close_runtime_page_parts: page, context and lease, each within its deadline.
CloseParts(c) ==
    /\ stage[Page(c)] = "cleanup" /\ lease[Page(c)] # "none"
    /\ lease' = [lease EXCEPT ![Page(c)] = "none"]
    /\ UNCHANGED <<stage, purpose, permits, gate, owner, browser, crashes, completed, cancelled,
                   closing, timedOut>>

\* The slot given back while the parts are still being closed.
DropPermitEarly(c) ==
    /\ stage[Page(c)] = "cleanup" /\ c \in permits
    /\ permits' = permits \ {c}
    /\ IF lease[Page(c)] = "none" THEN Go(Page(c), "check") ELSE UNCHANGED stage
    /\ UNCHANGED <<purpose, gate, owner, browser, lease, crashes, completed, cancelled, closing,
                   timedOut>>

\* drop(permit), then the recycling.
DropPermit(c) ==
    /\ stage[Page(c)] = "cleanup" /\ lease[Page(c)] = "none"
    /\ permits' = permits \ {c}
    /\ Go(Page(c), "check")
    /\ UNCHANGED <<purpose, gate, owner, browser, lease, crashes, completed, cancelled, closing,
                   timedOut>>

\* unregister_job: the job lets go of its page and counts, and spawns a
\* recycling.
Unregister(c) ==
    /\ stage[Job(c)] = "running" /\ purpose[Page(c)] = "recycle"
    /\ completed' = IF completed < RecycleAfter THEN completed + 1 ELSE completed
    /\ Go(Job(c), "check")
    /\ UNCHANGED <<purpose, permits, gate, owner, browser, lease, crashes, cancelled, closing,
                   timedOut>>

\* recycle_idle_browser_if_due: the look before the gate.
Check(t) ==
    /\ stage[t] = "check"
    /\ Go(t, IF Available(0) /\ completed >= RecycleAfter THEN "gate" ELSE "idle")
    /\ UNCHANGED <<purpose, permits, gate, owner, browser, lease, crashes, completed, cancelled,
                   closing, timedOut>>

\* ensure_browser, and close_idle_browser past its first look.
Call(t, what) ==
    /\ stage[t] = "idle" /\ Open
    /\ what = "idle" => Available(0)
    /\ Go(t, "gate")
    /\ purpose' = [purpose EXCEPT ![t] = what]
    /\ UNCHANGED <<permits, gate, owner, browser, lease, crashes, completed, cancelled, closing,
                   timedOut>>

\* acquire_and_release: closing the lease cannot be cancelled.
ReleaseLease(t) ==
    /\ stage[t] = "leased" /\ purpose[t] = "ensure"
    /\ lease' = [lease EXCEPT ![t] = "none"]
    /\ Fail(t)
    /\ UNCHANGED <<permits, browser, crashes, completed, cancelled, closing, timedOut>>
-----------------------------------------------------------------------------
(* Shutdown. *)

CloseStep(from, to) ==
    /\ closing = from /\ closing' = to
    /\ UNCHANGED <<stage, purpose, permits, gate, crashes, completed, cancelled>>

\* begin_close, then the runtime's token.
BeginClose == CloseStep("open", "closing") /\ UNCHANGED <<owner, browser, lease, timedOut>>
CancelAll == CloseStep("closing", "contexts") /\ UNCHANGED <<owner, browser, lease, timedOut>>

\* finish_close: every slot is back, or the timer expired; the semaphore closes.
ContextsBack ==
    /\ \/ Available(0) /\ UNCHANGED timedOut
       \/ Timers /\ ~Available(0) /\ timedOut' = TRUE
    /\ CloseStep("contexts", "backend")
    /\ UNCHANGED <<owner, browser, lease>>

\* finish_close: the backend is closed, without the gate.
LockBackend ==
    /\ owner = Nobody /\ owner' = Closer
    /\ CloseStep("backend", "locked")
    /\ UNCHANGED <<browser, lease, timedOut>>
FinishClose ==
    /\ CloseBrowser /\ owner' = Nobody
    /\ CloseStep("locked", "done")
    /\ UNCHANGED timedOut

ShutdownStep == CancelAll \/ ContextsBack \/ LockBackend \/ FinishClose

Backend(t) ==
    \/ Decide(t) \/ CloseBackend(t) \/ Reset(t) \/ LockOwner(t) \/ StartBrowser(t) \/ Lease(t)
    \/ Abort(t) \/ Check(t) \/ ReleaseLease(t)

Leaving(c) == LeaveSlot(c) \/ Permitted(c) \/ CloseParts(c) \/ DropPermit(c)

Next ==
    \/ \E c \in Captures : \/ StartJob(c) \/ CancelJob(c) \/ OpenPage(c) \/ TakeSlot(c)
                           \/ Leaving(c) \/ LeavePage(c) \/ Unregister(c)
    \/ \E t \in Threads : TakeGate(t) \/ Backend(t)
    \/ \E t \in Callers \X {"caller"}, what \in {"ensure", "idle"} : Call(t, what)
    \/ BeginClose \/ ShutdownStep

\* Tasks are polled; a cancelled capture leaves its page and its job ends; the
\* shutdown task runs.
Fairness ==
    /\ \A t \in Threads : WF_vars(TakeGate(t) \/ Backend(t))
    /\ \A c \in Captures : /\ WF_vars(Leaving(c))
                           /\ WF_vars(Cancelled(Page(c)) /\ LeavePage(c))
    /\ WF_vars(ShutdownStep)

Spec == Init /\ [][Next]_vars /\ Fairness
-----------------------------------------------------------------------------
(* Properties. *)

\* Recycling, closing an idle browser and closing the runtime never take the
\* browser away from a page that uses it. The exceptions are a browser that
\* failed its health check and a close that gave up waiting for the contexts,
\* or that met ensure_browser releasing the lease it holds without a slot.
LeasesSurvive ==
    \A t \in Threads : lease[t] = "dead" =>
        closing = "done" /\ (timedOut \/ t \notin PageThreads)

\* Once close has shut the backend down no browser runs and none is started
\* again, whatever was inside an acquisition at that time.
NoBrowserAfterClose == closing = "done" => browser = "none"

\* A page in use has its slot: what the semaphore counts is what the browser
\* carries (ContextPermit moves with the page).
SlotsCoverLeases ==
    \A c \in Captures : lease[Page(c)] # "none" => c \in permits

\* The three together: pages keep their browser.
PagesKeepBrowser == LeasesSurvive /\ NoBrowserAfterClose /\ SlotsCoverLeases

\* A browser that is due and idle is closed: no thread is the last one out
\* without looking (unless a page opens or the runtime closes first).
Overdue == completed >= RecycleAfter /\ permits = {} /\ browser = "running" /\ Open
\* A cancelled capture gets out of open_page and gives its slot back.
Lingers(c) == c \in cancelled /\ c \in permits
\* The shutdown ends without its timers.
ShuttingDown == closing = "closing"
=============================================================================
