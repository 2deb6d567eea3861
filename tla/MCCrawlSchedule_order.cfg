\* The order of the result when a failed page is tried again.
SPECIFICATION Spec
CONSTANTS
    Pages <- MCPages
    Root <- MCRoot
    Requests <- MCRetries
    Concurrency = 2
    MaxCrashes = 0
    MaxFailures = 1
    MaxEdits = 0
INVARIANTS ResultBreadthFirst
CHECK_DEADLOCK FALSE
