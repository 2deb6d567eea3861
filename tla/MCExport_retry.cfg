SPECIFICATION Spec
CONSTANTS
    N = 2
    Payloads = {p1}
    Foreign = Foreign
    Edited = Edited
    Absent = Absent
    Missing = Missing
    EntryKind <- MCEntryKind
    MaxSuffix = 1
    InitialOutputs <- MCTaken
    Policies = {"Replace"}
    MaxExports = 3
    MaxCrashes = 1
    MaxFaults = 0
    MaxEdits = 0
    MaxMishaps = 2
    EditPoints <- NoPoints
    TornWrites = FALSE
INVARIANT RetryResolves
CHECK_DEADLOCK FALSE
