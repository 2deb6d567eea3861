SPECIFICATION Spec
CONSTANTS
    N = 2
    Payloads = {p1}
    Foreign = Foreign
    Edited = Edited
    Absent = Absent
    Missing = Missing
    EntryKind <- MCEntryKind
    MaxSuffix = 1
    InitialOutputs <- MCOutputs
    Policies = {"Fail", "Replace", "Uniquify"}
    MaxExports = 3
    MaxCrashes = 2
    MaxFaults = 1
    MaxEdits = 1
    MaxMishaps = 2
    EditPoints <- MCEditPoints
    TornWrites = TRUE
INVARIANT BlockedOnlyByAmbiguity
PROPERTY CommitsAtomically
PROPERTY WriteAhead
PROPERTY NothingLost
CHECK_DEADLOCK FALSE
PROPERTY ExportReturns
