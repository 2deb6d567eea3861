----------------------------- MODULE MCBrowser -----------------------------
(***************************************************************************)
(* The components between the runtime and the browser process, each on a   *)
(* small instance of its own: the CDP client, the page and what it owns,   *)
(* the proxy, the managed installation and the browser service.            *)
(*                                                                         *)
(* A behaviour is one of its component `part`. The components share        *)
(* no state, so they take turns in the variables x1, ..., x13; the         *)
(* INSTANCE of a component says which variable is which.                   *)
(***************************************************************************)
EXTENDS Integers

CONSTANT Parts   \* the components a run looks at

VARIABLES part, x1, x2, x3, x4, x5, x6, x7, x8, x9, x10, x11, x12, x13

\* The address classes and the rules of ValidatingProxy.
ClassOf == [a \in {"public", "loopback"} |-> IF a = "public" THEN "Public" ELSE "Loopback"]
NoLiterals == [h \in {"localhost", "other"} |-> {}]
LocalNetwork == [allowed_hosts |-> {}, networks |-> {"loopback"}, allowed_classes |-> {}]

Commands == INSTANCE CdpCommands WITH
    caller <- x1, answer <- x2, outbound <- x3, cancellations <- x4,
    pending <- x5, browser <- x6, wire <- x7, joinable <- x8,
    Commands <- {"c"}, NoWaits <- {"n"}, Closers <- {"k1", "k2"},
    COMMAND_CAPACITY <- 1

Events == INSTANCE CdpEvents WITH
    sessions <- x1, pages <- x2, routes_closed <- x3, scope <- x4,
    all_closed <- x5, inbox <- x6, closing <- x7, published <- x8,
    Pages <- {"p"}, Sessions <- {"s1", "s2"}, Subscribers <- {"r"},
    EventSizes <- {1, 2, 4}, maximum_events <- 2, maximum_bytes <- 3,
    MaxPublished <- 3

Resources == INSTANCE ObservedResources WITH
    requests <- x1, records <- x2, bodyBytes <- x3, sequence <- x4,
    requestOrder <- x5, order <- x6, observer <- x7, measured <- x8,
    bodyTasks <- x9, interceptor <- x10, wireEvents <- x11, remote <- x12,
    loaded <- x13, Keys <- {"k1", "k2"}, Matching <- {"k1"},
    Workers <- {"k1"}, Variants <- {"get"}, BodySizes <- {2},
    maximum_resource_bytes <- 2, maximum_total_resource_bytes <- 3,
    MAXIMUM_OBSERVED_RESPONSES <- 2, MAXIMUM_RESOURCE_BODY_TASKS <- 1,
    MaxRedirects <- 0

Redirected == INSTANCE ObservedResources WITH
    requests <- x1, records <- x2, bodyBytes <- x3, sequence <- x4,
    requestOrder <- x5, order <- x6, observer <- x7, measured <- x8,
    bodyTasks <- x9, interceptor <- x10, wireEvents <- x11, remote <- x12,
    loaded <- x13, Keys <- {"k1"}, Matching <- {"k1"},
    Workers <- {}, Variants <- {"get"}, BodySizes <- {2},
    maximum_resource_bytes <- 2, maximum_total_resource_bytes <- 3,
    MAXIMUM_OBSERVED_RESPONSES <- 2, MAXIMUM_RESOURCE_BODY_TASKS <- 1,
    MaxRedirects <- 1

Targets == INSTANCE PageTargets WITH
    targetEvents <- x1, managed <- x2, frames <- x3, targetError <- x4,
    routed <- x5, policy <- x6, readers <- x7, manager <- x8, applier <- x9,
    live <- x10, applied <- x11, Documents <- {"d"}, ServiceWorkers <- {},
    DedicatedWorkers <- {"w"}, Popups <- {}, maximum_frames <- 1,
    maximum_targets <- 1

PopupTargets == INSTANCE PageTargets WITH
    targetEvents <- x1, managed <- x2, frames <- x3, targetError <- x4,
    routed <- x5, policy <- x6, readers <- x7, manager <- x8, applier <- x9,
    live <- x10, applied <- x11, Documents <- {"d"}, ServiceWorkers <- {},
    DedicatedWorkers <- {}, Popups <- {"p"}, maximum_frames <- 1,
    maximum_targets <- 1

Interception == INSTANCE PageInterception WITH
    pausedEvents <- x1, loop <- x2, cancelled <- x3, task <- x4,
    resolution <- x5, failures <- x6, interceptErrors <- x7, navEvents <- x8,
    navigation <- x9, hops <- x10, counted <- x11, fetchEnabled <- x12,
    Pauses <- {"m", "r"}, Responses <- {"r"}, Main <- "m",
    MAXIMUM_INTERCEPTION_TASKS <- 1, MAXIMUM_DNS_DECISIONS <- 1,
    MAXIMUM_RESPONSE_STREAMS <- 1, RedirectLimit <- 0, MaxHops <- 1

Activity == INSTANCE NetworkActivity WITH
    activityEvents <- x1, inFlight <- x2, sinceChange <- x3,
    activityError <- x4, activityTask <- x5, requestState <- x6,
    settling <- x7, Requests <- {"a"}, Untracked <- {"w"}, Quiet <- 1

Lifecycle == INSTANCE PageLifecycle WITH
    owned <- x1, making <- x2, caller <- x3, context <- x4, disposals <- x5,
    cleanups <- x6, pageProxy <- x7, pageTasks <- x8, fetchOn <- x9,
    guarding <- x10, closing <- x11, closedFlag <- x12, bodies <- x13,
    MaxLoads <- 1

Offline == INSTANCE OfflineVerification WITH
    clock <- x1, attachedFrames <- x2, mutations <- x3, busy <- x4,
    lastMutation <- x5, outbox <- x6, offlineQueue <- x7, collecting <- x8,
    verifying <- x9, reported <- x10, OtherFrames <- {"f"}, Urls <- {"u"},
    STABILITY_QUIET <- 1, Deadline <- 2, MAXIMUM_ATTEMPTED_URLS <- 1,
    MaxMutations <- 0

Stability == INSTANCE OfflineVerification WITH
    clock <- x1, attachedFrames <- x2, mutations <- x3, busy <- x4,
    lastMutation <- x5, outbox <- x6, offlineQueue <- x7, collecting <- x8,
    verifying <- x9, reported <- x10, OtherFrames <- {}, Urls <- {},
    STABILITY_QUIET <- 2, Deadline <- 4, MAXIMUM_ATTEMPTED_URLS <- 1,
    MaxMutations <- 2

Geometry == INSTANCE FrameGeometry WITH
    rect <- x1, visible <- x2, session <- x3, geometryStep <- x4,
    scrolled <- x5, attached <- x6, placement <- x7, layout <- x8,
    ownerPath <- x9, Depth <- 2, Positions <- {0, 3}, Widths <- {2},
    Lefts <- {1, 4}, Borders <- {1}, Scales <- {1, 2}, Viewports <- {4, 6},
    DocumentWidth <- 6, VIEWPORT_EPSILON <- 1,
    MAXIMUM_SCREENSHOT_PIXELS <- 16, TreeFrames <- {1, 2, 3}

Proxy == INSTANCE ValidatingProxy WITH
    policyNow <- x1, trafficDenied <- x2, proxyCancelled <- x3,
    acceptor <- x4, connection <- x5, judged <- x6, pinned <- x7,
    upstream <- x8, late <- x9, everDenied <- x10, budgetUsed <- x11,
    Connections <- {"c1", "c2"},
    Addresses <- {"public", "loopback"},
    Hosts <- {"localhost", "other"}, InitialHost <- "localhost",
    class <- ClassOf, literal <- NoLiterals, CustomRules <- LocalNetwork,
    GuardPolicies <- {"Standard"}, MAXIMUM_CONNECTION_TASKS <- 1,
    ConnectionBudget <- 1

Managed == INSTANCE ManagedBrowser WITH
    lock <- x1, installed <- x2, staging <- x3, marker <- x4, running <- x5,
    call <- x6, step <- x7, acquiring <- x8, listed <- x9, active <- x10,
    crashes <- x11, Processes <- {"p", "q"}, MaxCrashes <- 1

Service == INSTANCE BrowserService WITH
    setup <- x1, machine <- x2, managed <- x3, running <- x4, leases <- x5,
    gate <- x6, capture <- x7, removal <- x8, doctor <- x9, Captures <- {"c"},
    maximum_contexts <- 2
-----------------------------------------------------------------------------
vars == <<part, x1, x2, x3, x4, x5, x6, x7, x8, x9, x10, x11, x12, x13>>

\* The variables a component leaves alone, from the n-th on.
Unused13 == x13 = 0
Unused12 == x12 = 0 /\ Unused13
Unused11 == x11 = 0 /\ Unused12
Unused10 == x10 = 0 /\ Unused11
Unused9 == x9 = 0 /\ Unused10
Unused8 == x8 = 0 /\ Unused9

Init ==
    /\ part \in Parts
    /\ \/ part = "commands" /\ Commands!CommandsInit /\ Unused9
       \/ part = "events" /\ Events!EventsInit /\ Unused9
       \/ part = "resources" /\ Resources!ObservedInit
       \/ part = "redirected" /\ Redirected!ObservedInit
       \/ part = "targets" /\ Targets!TargetsInit /\ Unused12
       \/ part = "popups" /\ PopupTargets!TargetsInit /\ Unused12
       \/ part = "interception" /\ Interception!InterceptInit /\ Unused13
       \/ part = "activity" /\ Activity!ActivityInit /\ Unused8
       \/ part = "lifecycle" /\ Lifecycle!LifecycleInit
       \/ part = "offline" /\ Offline!OfflineInit /\ Unused11
       \/ part = "stability" /\ Stability!OfflineInit /\ Unused11
       \/ part = "geometry" /\ Geometry!GeometryInit /\ Unused10
       \/ part = "proxy" /\ Proxy!ProxyInit /\ Unused12
       \/ part = "managed" /\ Managed!ManagedInit /\ Unused12
       \/ /\ part = "service" /\ Service!ServiceInit /\ Unused10
          /\ x1.install /\ x2.endpoints \subseteq {"webSocket"}

from13 == <<part, x13>>
from12 == <<from13, x12>>
from11 == <<from12, x11>>
from10 == <<from11, x10>>
from9 == <<from10, x9>>
from8 == <<from9, x8>>

CommandsStep == part = "commands" /\ Commands!CommandsNext /\ UNCHANGED from9
EventsStep == part = "events" /\ Events!EventsNext /\ UNCHANGED from9
ResourcesStep == part = "resources" /\ Resources!ObservedNext /\ UNCHANGED part
RedirectedStep == part = "redirected" /\ Redirected!ObservedNext /\ UNCHANGED part
TargetsStep == part = "targets" /\ Targets!TargetsNext /\ UNCHANGED from12
PopupTargetsStep == part = "popups" /\ PopupTargets!TargetsNext /\ UNCHANGED from12
InterceptionStep == part = "interception" /\ Interception!InterceptNext /\ UNCHANGED from13
ActivityStep == part = "activity" /\ Activity!ActivityNext /\ UNCHANGED from8
LifecycleStep == part = "lifecycle" /\ Lifecycle!LifecycleNext /\ UNCHANGED part
OfflineStep == part = "offline" /\ Offline!OfflineNext /\ UNCHANGED from11
StabilityStep == part = "stability" /\ Stability!OfflineNext /\ UNCHANGED from11
GeometryStep == part = "geometry" /\ Geometry!GeometryNext /\ UNCHANGED from10
ProxyStep == part = "proxy" /\ Proxy!ProxyNext /\ UNCHANGED from12
ManagedStep == part = "managed" /\ Managed!ManagedNext /\ UNCHANGED from12
ServiceStep == part = "service" /\ Service!ServiceNext /\ UNCHANGED from10

Next ==
    \/ CommandsStep \/ EventsStep \/ ResourcesStep \/ RedirectedStep
    \/ TargetsStep \/ PopupTargetsStep \/ InterceptionStep \/ ActivityStep
    \/ LifecycleStep \/ OfflineStep \/ StabilityStep \/ GeometryStep
    \/ ProxyStep \/ ManagedStep \/ ServiceStep

\* The fairness of each component, which only a step of that component owes.
commandVars == Commands!commandVars
CommandsFairness ==
    /\ WF_commandVars(part = "commands" /\ Commands!WireStep)
    /\ \A c \in {"c", "n"} : WF_commandVars(part = "commands" /\ Commands!CallerStep(c))
    /\ \A c \in {"k1", "k2"} : WF_commandVars(part = "commands" /\ Commands!CloserStep(c))

targetVars == Targets!targetVars
TargetsFairness ==
    /\ WF_targetVars(part = "targets" /\ Targets!ManagerStep)
    /\ WF_targetVars(part = "targets" /\ Targets!ApplierStep)

interceptVars == Interception!interceptVars
InterceptionFairness ==
    /\ WF_interceptVars(part = "interception" /\ Interception!LoopStep)
    /\ \A p \in {"m", "r"} :
          WF_interceptVars(part = "interception" /\ Interception!TaskStep(p))

activityVars == Activity!activityVars
ActivityFairness ==
    /\ WF_activityVars(part = "activity" /\ Activity!ReadActivity)
    /\ WF_activityVars(part = "activity" /\ Activity!Elapse)
    /\ WF_activityVars(part = "activity" /\ Activity!SettleStep)
    /\ WF_activityVars(part = "activity" /\ Activity!LoadingEnds("a"))

lifecycleVars == Lifecycle!lifecycleVars
LifecycleFairness ==
    /\ WF_lifecycleVars(part = "lifecycle" /\ Lifecycle!Creation)
    /\ WF_lifecycleVars(part = "lifecycle" /\ Lifecycle!ReceivePage)
    /\ WF_lifecycleVars(part = "lifecycle" /\ (Lifecycle!BeginClose \/ Lifecycle!DropPage))
    /\ WF_lifecycleVars(part = "lifecycle" /\ Lifecycle!RunCleanup)
    /\ WF_lifecycleVars(part = "lifecycle" /\ Lifecycle!Closing)

proxyVars == Proxy!proxyVars
ProxyFairness ==
    /\ WF_proxyVars(part = "proxy" /\ Proxy!Accepting)
    /\ WF_proxyVars(part = "proxy" /\ Proxy!DenyTraffic)
    /\ \A c \in {"c1", "c2"} :
          /\ SF_proxyVars(part = "proxy" /\ Proxy!AcceptConnection(c))
          /\ WF_proxyVars(part = "proxy" /\ Proxy!Serve(c))

Spec ==
    /\ Init /\ [][Next]_vars
    /\ CommandsFairness /\ TargetsFairness /\ InterceptionFairness
    /\ ActivityFairness /\ LifecycleFairness /\ ProxyFairness
-----------------------------------------------------------------------------
(* Safety, one property for each component or pair of components.          *)

\* The CDP client accounts for everything: a command whose caller left is
\* cancelled or about to be and none waits for an answer that cannot come
\* (CdpCommands), and a subscription reports every event it missed and ends
\* with its publisher (CdpEvents).
ClientKeepsAccount ==
    /\ part = "commands" => Commands!NoAbandonedCommand /\ Commands!NobodyStranded
    /\ part = "events" => Events!LossesReported /\ Events!SubscriptionsEnd

\* The bodies a page retains stay within the total limit although the room is
\* measured before the bytes are appended, and an interceptor that comes late
\* does not reopen a response that was recorded (ObservedResources).
RetentionHolds ==
    /\ part = "resources" => Resources!RetainedWithinBudget /\ Resources!LateFetchHarmless
    /\ part = "redirected" => Redirected!RetainedWithinBudget /\ Redirected!LateFetchHarmless

\* No target of a page runs without the policies its kind takes, and frames()
\* lists every document target that runs while no error is recorded
\* (PageTargets).
TargetsUnderPolicy ==
    /\ part = "targets" => Targets!TargetsUnderPolicy
    /\ part = "popups" => PopupTargets!TargetsUnderPolicy

\* navigate reports no document as loaded that interception refused or that
\* more redirects than allowed led to (PageInterception).
LoadedWithinPolicy == part = "interception" => Interception!LoadedWithinPolicy

\* A page that was closed, dropped or not finished leaves no task, proxy or
\* body stream behind (PageLifecycle).
NothingOutlives == part = "lifecycle" => Lifecycle!NothingOutlives

\* The offline check names every URL the probed frames attempted, and calls a
\* page stable only after a whole quiet period (OfflineVerification).
OfflineEvidenceHolds ==
    /\ part = "offline" => Offline!AttemptsObserved
    /\ part = "stability" => Stability!StableMeansQuiet

\* The clip of a fallback screenshot shows the element that was asked for, and
\* the path to a frame's owner leads to it (FrameGeometry).
ClipIsOnScreen == part = "geometry" => Geometry!ClipIsOnScreen /\ Geometry!PathLeadsToOwner

\* The proxy connects only to addresses the policy it read allows, and what
\* was denied stays denied (ValidatingProxy).
ProxyObeysPolicy == part = "proxy" => Proxy!ProxyObeysPolicy

\* A browser that runs keeps its installation: no process of those sharing the
\* cache removes or replaces it (ManagedBrowser), and neither does the service
\* while a capture holds a page (BrowserService).
BrowserKeepsInstallation ==
    /\ part = "managed" => Managed!RunningFromWholeInstallation
    /\ part = "service" => Service!HeldBrowserStays

\* Every variable keeps its type, and every queue, pool, table and counter of
\* the client, the page and the proxy its limit.
StaysInBounds ==
    /\ part = "commands" => Commands!CommandsTypeOK
    /\ part = "events" => Events!EventsTypeOK
    /\ part = "resources" => Resources!ObservedTypeOK
    /\ part = "redirected" => Redirected!ObservedTypeOK
    /\ part = "targets" => Targets!TargetsTypeOK
    /\ part = "popups" => PopupTargets!TargetsTypeOK
    /\ part = "interception" => Interception!InterceptTypeOK
    /\ part = "activity" => Activity!ActivityTypeOK
    /\ part = "lifecycle" => Lifecycle!LifecycleTypeOK
    /\ part = "offline" => Offline!OfflineTypeOK
    /\ part = "stability" => Stability!OfflineTypeOK
    /\ part = "proxy" => Proxy!ProxyTypeOK
    /\ part = "managed" => Managed!ManagedTypeOK

(* Liveness.                                                               *)

\* Every wait between the runtime and the browser ends: callers of a wire task
\* that is gone return (CdpCommands), apply_policy returns (PageTargets), a
\* paused request is resolved (PageInterception), settle returns
\* (NetworkActivity), a context is disposed of (PageLifecycle) and a denied
\* connection is answered (ValidatingProxy).
WaitsEnd ==
    (\/ part = "commands" /\ Commands!WireEnded
     \/ part = "targets" /\ Targets!PolicyAsked
     \/ part = "interception" /\ Interception!SomeQueued
     \/ part = "activity"
     \/ part = "lifecycle" /\ Lifecycle!ContextOpen
     \/ part = "proxy" /\ Proxy!SomeDenied)
    ~>
    (\/ part = "commands" /\ Commands!CallersReturned
     \/ part = "targets" /\ Targets!PolicyDecided
     \/ part = "interception" /\ Interception!AllResolved
     \/ part = "activity" /\ Activity!Returned
     \/ part = "lifecycle" /\ Lifecycle!DisposalTried
     \/ part = "proxy" /\ Proxy!AllGone)
=============================================================================
