\* A service worker's response and another one, retained in two chunks.
SPECIFICATION ObservedSpec
CONSTANTS
    Keys = {"k1", "k2"}
    Matching = {"k1"}
    Workers = {"k1"}
    Variants = {"get"}
    BodySizes = {2}
    maximum_resource_bytes = 2
    maximum_total_resource_bytes = 3
    MAXIMUM_OBSERVED_RESPONSES = 2
    MAXIMUM_RESOURCE_BODY_TASKS = 1
    MaxRedirects = 0
INVARIANT ObservedBytesPreserved
CHECK_DEADLOCK FALSE
