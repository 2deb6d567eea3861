\* Any configuration of the service on any machine.
SPECIFICATION ServiceSpec
CONSTANTS
    Captures = {c1}
    maximum_contexts = 2
INVARIANT ReadyMeansStartable
CHECK_DEADLOCK FALSE
