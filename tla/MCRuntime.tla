----------------------------- MODULE MCRuntime -----------------------------
(***************************************************************************)
(* The runtime and what it gives its clients, each component on a small    *)
(* instance of its own: the capture jobs, the events they emit, and the    *)
(* browser contexts they share.                                            *)
(*                                                                         *)
(* A behaviour is one of its component `part`. CaptureJobs keeps its own   *)
(* variables; the other components share no state, so they take turns in   *)
(* the variables x1, ..., x13.                                             *)
(***************************************************************************)
EXTENDS CaptureJobs, Sequences

CONSTANT Parts   \* the components a run looks at

VARIABLES part, x1, x2, x3, x4, x5, x6, x7, x8, x9, x10, x11, x12, x13

\* One stream: streams share nothing but the journal, which none changes.
Journal == INSTANCE EventJournal WITH
    log <- x1, guaranteed <- x2, details <- x3, latest_progress <- x4,
    recorded <- x5, dropped_events <- x6, stage <- x7, position <- x8,
    held <- x9, pending <- x10, last_sequence <- x11, terminal_seen <- x12,
    delivered <- x13, Streams <- {"s"}, EVENT_CAPACITY <- 2,
    DIAGNOSTIC_EVENT_CAPACITY <- 3, MaxEvents <- 5

\* Two pages at a time in one browser, with the shutdown's timer.
Pages == INSTANCE RuntimeContexts WITH
    stage <- x1, purpose <- x2, permits <- x3, gate <- x4, owner <- x5,
    browser <- x6, lease <- x7, crashes <- x8, completed <- x9,
    cancelled <- x10, closing <- x11, timedOut <- x12,
    Captures <- {"c1", "c2"}, Callers <- {}, MaxContexts <- 2,
    RecycleAfter <- 1, MaxCrashes <- 0, Timers <- TRUE

\* A capture beside a caller of ensure and close_idle, and a browser that fails.
Service == INSTANCE RuntimeContexts WITH
    stage <- x1, purpose <- x2, permits <- x3, gate <- x4, owner <- x5,
    browser <- x6, lease <- x7, crashes <- x8, completed <- x9,
    cancelled <- x10, closing <- x11, timedOut <- x12, Captures <- {"c"},
    Callers <- {"b"}, MaxContexts <- 1, RecycleAfter <- 1, MaxCrashes <- 1,
    Timers <- TRUE

\* Two captures that wait for one slot; without the timer, which would end
\* every wait.
Slots == INSTANCE RuntimeContexts WITH
    stage <- x1, purpose <- x2, permits <- x3, gate <- x4, owner <- x5,
    browser <- x6, lease <- x7, crashes <- x8, completed <- x9,
    cancelled <- x10, closing <- x11, timedOut <- x12,
    Captures <- {"c1", "c2"}, Callers <- {}, MaxContexts <- 1,
    RecycleAfter <- 2, MaxCrashes <- 0, Timers <- FALSE
-----------------------------------------------------------------------------
others == <<x1, x2, x3, x4, x5, x6, x7, x8, x9, x10, x11, x12, x13>>
runtimeVars == <<vars, part, others>>

NoOthers ==
    /\ x1 = 0 /\ x2 = 0 /\ x3 = 0 /\ x4 = 0 /\ x5 = 0 /\ x6 = 0 /\ x7 = 0 /\ x8 = 0
    /\ x9 = 0 /\ x10 = 0 /\ x11 = 0 /\ x12 = 0 /\ x13 = 0

RuntimeInit ==
    /\ part \in Parts /\ Init
    /\ \/ part = "jobs" /\ NoOthers
       \/ part = "events" /\ Journal!Init
       \/ part = "pages" /\ Pages!Init /\ x13 = 0
       \/ part = "service" /\ Service!Init /\ x13 = 0
       \/ part = "slots" /\ Slots!Init /\ x13 = 0

Elsewhere(p) == part = p /\ UNCHANGED <<part, vars>>

JobsStep == part = "jobs" /\ Next /\ UNCHANGED <<part, others>>
JournalStep == Elsewhere("events") /\ Journal!Next
PagesStep == Elsewhere("pages") /\ Pages!Next /\ UNCHANGED x13
ServiceStep == Elsewhere("service") /\ Service!Next /\ UNCHANGED x13
SlotsStep == Elsewhere("slots") /\ Slots!Next /\ UNCHANGED x13

RuntimeNext == JobsStep \/ JournalStep \/ PagesStep \/ ServiceStep \/ SlotsStep

\* The fairness of each component, which only a step of that component owes.
JobsFairness ==
    /\ \A j \in Jobs :
        /\ WF_vars(part = "jobs" /\ TaskStep(j)) /\ WF_vars(part = "jobs" /\ Deadline(j))
        /\ \A who \in {"caller", "close"} : WF_vars(part = "jobs" /\ Signal(j, who))
    /\ WF_vars(part = "jobs" /\ Shutdown)
    /\ \A c \in Closers : WF_vars(part = "jobs" /\ CloseReturns(c))

eventVars == Journal!vars
JournalFairness == WF_eventVars(part = "events" /\ Journal!Poll("s"))

slotVars == Slots!vars
SlotsFairness ==
    /\ \A t \in Slots!Threads :
          WF_slotVars(part = "slots" /\ (Slots!TakeGate(t) \/ Slots!Backend(t)))
    /\ \A c \in {"c1", "c2"} :
        /\ WF_slotVars(part = "slots" /\ Slots!Leaving(c))
        /\ WF_slotVars(part = "slots" /\ Slots!Cancelled(Slots!Page(c)) /\ Slots!LeavePage(c))
    /\ WF_slotVars(part = "slots" /\ Slots!ShutdownStep)

RuntimeSpec ==
    /\ RuntimeInit /\ [][RuntimeNext]_runtimeVars
    /\ JobsFairness /\ JournalFairness /\ SlotsFairness
-----------------------------------------------------------------------------
(* The properties of the jobs are those of CaptureJobs.                    *)

\* A stream yields the events in order, passes over none but by design, and
\* ends with the terminal one (EventJournal).
EventsFaithful ==
    part = "events" => Journal!InOrder /\ Journal!SkipsByDesign /\ Journal!EndsComplete

\* Recycling, idle closing and shutdown take no browser away from a page that
\* uses it, no browser runs after close, and a page in use has its slot
\* (RuntimeContexts).
PagesKeepBrowser ==
    /\ part = "pages" => Pages!PagesKeepBrowser
    /\ part = "service" => Service!PagesKeepBrowser

\* Every job that was registered has its result and has left the registry, and
\* no caller of close waits.
JobsAnswered ==
    /\ registry = {}
    /\ \A j \in Jobs : pc[j] \in {"new", "admitted", "refused"} \/ result[j] # "none"
    /\ \A c \in Closers : closer[c] # "waiting"

\* Every wait for the runtime ends: a registered job finishes and every caller
\* of close is answered (JobsFinish and CloseAnswers of CaptureJobs), a stream
\* ends once its job did (EventJournal), a browser that is due and idle is
\* recycled, a cancelled capture gives its slot back and the shutdown ends
\* (RuntimeContexts; the captures are interchangeable, so one stands for all).
RuntimeAnswers ==
    (\/ part = "jobs" /\ (registry # {} \/ \E c \in Closers : closer[c] = "waiting")
     \/ part = "events" /\ Journal!Ending
     \/ part = "slots" /\ (Slots!Overdue \/ Slots!Lingers("c1") \/ Slots!ShuttingDown))
    ~>
    (\/ part = "jobs" /\ JobsAnswered
     \/ part = "events" /\ Journal!Ended
     \/ part = "slots" /\ ~Slots!Overdue /\ ~Slots!Lingers("c1") /\ ~Slots!ShuttingDown)
=============================================================================
