SPECIFICATION Spec
CONSTANTS
    N = 2
    Payloads = {p1}
    Foreign = Foreign
    Edited = Edited
    Absent = Absent
    Missing = Missing
    EntryKind <- MCEntryKind
    MaxSuffix = 1
    InitialOutputs <- MCTaken
    Policies = {"Replace"}
    MaxExports = 1
    MaxCrashes = 0
    MaxFaults = 1
    MaxEdits = 1
    MaxMishaps = 2
    EditPoints <- RestoreWindow
    TornWrites = FALSE
PROPERTY NothingLost
CHECK_DEADLOCK FALSE
