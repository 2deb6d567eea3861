--------------------------- MODULE PageLifecycle ----------------------------
(***************************************************************************)
(* The life of one page: how it is created, guarded, read from and closed  *)
(* (chromium/src/page/lifecycle.rs, page.rs, page/resource.rs).            *)
(*                                                                         *)
(* Every command may fail, and the caller may be cancelled at every await. *)
(* The creation runs in a task of its own, which finishes without the      *)
(* caller; a page that is dropped hands its context to a cleanup task.     *)
(***************************************************************************)
EXTENDS Integers, FiniteSets, Sequences

CONSTANT MaxLoads        \* bound: resource bodies read from the page

VARIABLES owned,         \* whether the browser process is Offprint's own
          making,        \* create_owned: the step it is at
          caller,        \* waits for the page, holds it, or is gone
          context,       \* the browser context: none, open, disposed
          disposals,     \* disposal attempts made
          cleanups,      \* cleanup tasks spawned by Drop and not yet run
          pageProxy,     \* the validating proxy: none, pending, guarded, stopped
          pageTasks,     \* the page's own tasks that run
          fetchOn,       \* whether Fetch is enabled on the main session
          guarding,      \* enable_network_guard: its step
          closing,       \* close: its step
          closedFlag,
          bodies         \* each body stream: open, ended, or not opened

lifecycleVars == <<owned, making, caller, context, disposals, cleanups, pageProxy, pageTasks,
                   fetchOn, guarding, closing, closedFlag, bodies>>

OwnTasks == {"targets", "activity", "resources"}
Loads == 1..MaxLoads

LifecycleInit ==
    /\ owned \in BOOLEAN /\ making = "proxy" /\ caller = "waits"
    /\ context = "none" /\ disposals = 0 /\ cleanups = 0 /\ pageProxy = "none"
    /\ pageTasks = {} /\ fetchOn = FALSE /\ guarding = "idle" /\ closing = "no"
    /\ closedFlag = FALSE /\ bodies = [l \in Loads |-> "none"]

EndBodies == bodies' = [l \in Loads |-> IF bodies[l] = "open" THEN "ended" ELSE bodies[l]]
StopProxy == pageProxy' = IF pageProxy = "none" THEN "none" ELSE "stopped"

\* Target.disposeBrowserContext, which may fail.
dispose_context == disposals' = disposals + 1 /\ context' \in {context, "disposed"}

-----------------------------------------------------------------------------
(* create_owned and configure. *)

createRest == <<owned, caller, cleanups, fetchOn, guarding, closing, closedFlag, bodies>>
Makes(from, to) == making = from /\ making' = to

\* ValidatingProxy::start, for an owned browser only.
StartProxy ==
    /\ \/ Makes("proxy", "context") /\ pageProxy' = IF owned THEN "pending" ELSE "none"
       \/ owned /\ Makes("proxy", "failed") /\ UNCHANGED pageProxy
    /\ UNCHANGED <<createRest, context, disposals, pageTasks>>

\* Target.createBrowserContext; a failure drops the proxy.
CreateContext ==
    /\ \/ Makes("context", "download") /\ context' = "open" /\ UNCHANGED pageProxy
       \/ Makes("context", "failed") /\ StopProxy /\ UNCHANGED context
    /\ UNCHANGED <<createRest, disposals, pageTasks>>

\* setDownloadBehavior, createTarget, attachToTarget.
SetUpTarget ==
    /\ \E s \in {<<"download", "target">>, <<"target", "attach">>, <<"attach", "start">>} :
           Makes(s[1], s[2]) \/ Makes(s[1], "dispose")
    /\ UNCHANGED <<createRest, context, disposals, pageTasks, pageProxy>>

DisposeUnfinished ==
    /\ Makes("dispose", "failed")
    /\ dispose_context /\ StopProxy
    /\ UNCHANGED <<createRest, pageTasks>>

StartTasks ==
    /\ Makes("start", "configure")
    /\ pageTasks' = OwnTasks
    /\ UNCHANGED <<createRest, context, disposals, pageProxy>>

\* The commands of configure, and install_document_start_script.
configure ==
    /\ Makes("configure", "made") \/ Makes("configure", "undo")
    /\ UNCHANGED <<createRest, context, disposals, pageTasks, pageProxy>>

\* The tasks are closed in this order, each awaited; then the context goes.
NextTask == CASE "targets" \in pageTasks -> "targets"
              [] "activity" \in pageTasks -> "activity"
              [] OTHER -> "resources"

UndoConfigure ==
    /\ making = "undo"
    /\ IF pageTasks # {}
       THEN pageTasks' = pageTasks \ {NextTask} /\ UNCHANGED <<making, context, disposals, pageProxy, cleanups>>
       ELSE /\ dispose_context /\ StopProxy
            /\ making' = "failed"
            /\ cleanups' = cleanups + 1   \* the page is dropped unclosed
            /\ UNCHANGED pageTasks
    /\ UNCHANGED <<owned, caller, fetchOn, guarding, closing, closedFlag, bodies>>

\* The join handle answers the caller, unless the caller was cancelled.
ReceivePage ==
    /\ caller = "waits" /\ making \in {"made", "failed"}
    /\ caller' = IF making = "made" THEN "holds" ELSE "gone"
    /\ UNCHANGED <<owned, making, context, disposals, cleanups, pageProxy, pageTasks, fetchOn,
                   guarding, closing, closedFlag, bodies>>

-----------------------------------------------------------------------------
(* Drop: of the page and of everything it owns. *)

DroppedOpen ==
    /\ pageTasks' = {} /\ StopProxy /\ UNCHANGED bodies
    /\ caller' = "gone"
    /\ cleanups' = IF closedFlag THEN cleanups ELSE cleanups + 1
    /\ closedFlag' = TRUE

Dropped ==
    /\ pageTasks' = {} /\ StopProxy /\ EndBodies
    /\ caller' = "gone"
    /\ cleanups' = IF closedFlag THEN cleanups ELSE cleanups + 1
    /\ closedFlag' = TRUE

CancelWhileCreating ==
    /\ caller = "waits"
    /\ caller' = "gone"
    /\ UNCHANGED <<owned, making, context, disposals, cleanups, pageProxy, pageTasks, fetchOn,
                   guarding, closing, closedFlag, bodies>>

\* A finished page nobody waits for, or one whose holder is cancelled.
DropPage ==
    /\ making = "made" /\ closing # "returned"
    /\ caller = "gone" \/ caller = "holds"
    /\ Dropped
    /\ making' = "dropped"
    /\ UNCHANGED <<owned, context, disposals, fetchOn, guarding, closing>>

RunCleanup ==
    /\ cleanups > 0
    /\ cleanups' = cleanups - 1
    /\ dispose_context
    /\ UNCHANGED <<owned, making, caller, pageProxy, pageTasks, fetchOn, guarding, closing,
                   closedFlag, bodies>>

-----------------------------------------------------------------------------
(* enable_network_guard. *)

Holds == making = "made" /\ caller = "holds" /\ closing = "no"
guardRest == <<owned, making, caller, context, disposals, cleanups, closing, closedFlag, bodies>>

\* A remote browser takes no restricted policy; the proxy takes the guard first.
StartGuard ==
    /\ Holds /\ guarding = "idle"
    /\ \/ /\ guarding' = "enable"
          /\ pageProxy' = IF pageProxy = "pending" THEN "guarded" ELSE pageProxy
          /\ pageTasks' = pageTasks \cup {"interception"}
       \/ ~owned /\ guarding' = "refused" /\ UNCHANGED <<pageProxy, pageTasks>>
    /\ UNCHANGED <<guardRest, fetchOn>>

EnableFetch ==
    /\ Holds /\ guarding = "enable"
    /\ \/ fetchOn' = TRUE /\ guarding' = "targets" /\ UNCHANGED pageTasks
       \/ UNCHANGED fetchOn /\ guarding' = "refused" /\ pageTasks' = pageTasks \ {"interception"}
    /\ UNCHANGED <<guardRest, pageProxy>>

\* targets.enable_fetch; a failure disables Fetch again, as well as it can.
EnableFetchOnTargets ==
    /\ Holds /\ guarding = "targets"
    /\ \/ guarding' = "ready" /\ UNCHANGED <<fetchOn, pageTasks>>
       \/ /\ guarding' = "refused" /\ fetchOn' \in {FALSE, fetchOn}
          /\ pageTasks' = pageTasks \ {"interception"}
    /\ UNCHANGED <<guardRest, pageProxy>>

-----------------------------------------------------------------------------
(* load_resource_in_session: the body stream holds a child token. *)

OpenBody(l) ==
    /\ Holds /\ bodies[l] = "none"
    /\ bodies' = [bodies EXCEPT ![l] = "open"]
    /\ UNCHANGED <<owned, making, caller, context, disposals, cleanups, pageProxy, pageTasks,
                   fetchOn, guarding, closing, closedFlag>>

\* Read to its end, or over the limit, or failing.
EndBody(l) ==
    /\ bodies[l] = "open"
    /\ bodies' = [bodies EXCEPT ![l] = "ended"]
    /\ UNCHANGED <<owned, making, caller, context, disposals, cleanups, pageProxy, pageTasks,
                   fetchOn, guarding, closing, closedFlag>>

-----------------------------------------------------------------------------
(* close. *)

closeRest == <<owned, making, caller, guarding>>
Closes(from, to) == making = "made" /\ closing = from /\ closing' = to

BeginClose ==
    /\ Holds /\ guarding \in {"idle", "ready", "refused"}
    /\ Closes("no", IF guarding = "ready" THEN "fetch" ELSE "tasks")
    /\ EndBodies
    /\ UNCHANGED <<closeRest, context, disposals, cleanups, pageProxy, pageTasks, fetchOn, closedFlag>>

\* Fetch.disable releases what is paused; its failure is ignored.
CloseInterception ==
    /\ Closes("fetch", "tasks")
    /\ fetchOn' \in {FALSE, fetchOn}
    /\ pageTasks' = pageTasks \ {"interception"}
    /\ UNCHANGED <<closeRest, context, disposals, cleanups, pageProxy, closedFlag, bodies>>

CloseTasks ==
    /\ making = "made" /\ closing = "tasks"
    /\ IF pageTasks # {} THEN pageTasks' = pageTasks \ {NextTask} /\ UNCHANGED closing
                         ELSE closing' = "dispose" /\ UNCHANGED pageTasks
    /\ UNCHANGED <<closeRest, context, disposals, cleanups, pageProxy, fetchOn, closedFlag, bodies>>

CloseForgetting ==
    /\ Closes("dispose", "returned")
    /\ disposals' = disposals + 1
    /\ context' \in {context, "disposed"}
    /\ StopProxy /\ closedFlag' = TRUE
    /\ UNCHANGED <<closeRest, pageTasks, fetchOn, bodies, cleanups>>

\* The context, then the proxy; a failed disposal is retried by Drop.
CloseContext ==
    /\ Closes("dispose", "returned")
    /\ disposals' = disposals + 1
    /\ \/ context' = "disposed" /\ UNCHANGED cleanups
       \/ UNCHANGED context /\ cleanups' = cleanups + 1
    /\ StopProxy /\ closedFlag' = TRUE
    /\ UNCHANGED <<closeRest, pageTasks, fetchOn, bodies>>

LifecycleNext ==
    \/ StartProxy \/ CreateContext \/ SetUpTarget \/ DisposeUnfinished \/ StartTasks
    \/ configure \/ UndoConfigure \/ ReceivePage \/ CancelWhileCreating \/ DropPage \/ RunCleanup
    \/ StartGuard \/ EnableFetch \/ EnableFetchOnTargets
    \/ \E l \in Loads : OpenBody(l) \/ EndBody(l)
    \/ BeginClose \/ CloseInterception \/ CloseTasks \/ CloseContext

Creation == \/ StartProxy \/ CreateContext \/ SetUpTarget \/ DisposeUnfinished \/ StartTasks
            \/ configure \/ UndoConfigure
Closing == CloseInterception \/ CloseTasks \/ CloseContext

\* Commands are answered or time out, and the runtime runs every spawned task;
\* a page nobody holds is dropped, and a holder closes or drops its page.
LifecycleFairness ==
    /\ WF_lifecycleVars(Creation) /\ WF_lifecycleVars(ReceivePage)
    /\ WF_lifecycleVars(BeginClose \/ DropPage) /\ WF_lifecycleVars(RunCleanup)
    /\ WF_lifecycleVars(Closing)
LifecycleSpec == LifecycleInit /\ [][LifecycleNext]_lifecycleVars /\ LifecycleFairness

-----------------------------------------------------------------------------
Over == making \in {"failed", "dropped"} \/ closing = "returned"

\* Types; a context is disposed of at most once per owner.
LifecycleTypeOK ==
    /\ pageTasks \subseteq OwnTasks \cup {"interception"}
    /\ disposals \in 0..3 /\ cleanups \in 0..1
    /\ context \in {"none", "open", "disposed"}

\* A page that was closed, dropped or never finished leaves nothing running: no
\* task, no proxy and no body stream, whichever command failed and wherever the
\* caller was cancelled.
NothingOutlives ==
    Over => pageTasks = {} /\ pageProxy \in {"none", "stopped"} /\ \A l \in Loads : bodies[l] # "open"

\* A context the browser created is disposed of, and an attempt that failed on
\* close is made once more by the cleanup task of Drop.
ContextOpen == context = "open"
DisposalTried ==
    /\ disposals > 0
    /\ closing = "returned" => context = "disposed" \/ disposals > 1

=============================================================================
