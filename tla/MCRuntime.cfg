\* A capture that may hang, fail or panic in any stage, and two callers of close;
\* the other instances are in the module.
SPECIFICATION RuntimeSpec
CONSTANTS
    Parts = {"jobs", "events", "pages", "service", "slots"}
    Jobs = {j1}
    Closers = {c1, c2}
    MaxPanics = 1
    ShutdownTimers = TRUE
INVARIANTS
    CancellationLeavesDestination
    TerminalAgreement
    CancellationNeverFails
    ClosedMeansSettled
    EventsFaithful
    PagesKeepBrowser
PROPERTIES
    NoLateChange
    RuntimeAnswers
CHECK_DEADLOCK FALSE
