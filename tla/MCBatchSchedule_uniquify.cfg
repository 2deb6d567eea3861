\* Outputs that take another name when theirs is taken.
SPECIFICATION Spec
CONSTANTS
    NumJobs = 2
    Concurrency = 2
    Requests <- MCUniquify
    MaxCrashes = 1
    MaxFailures = 0
    MaxEdits = 0
INVARIANTS ResumeAccepted
CHECK_DEADLOCK FALSE
