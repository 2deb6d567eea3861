\* Three owners of two destinations; the other instances are in the module.
SPECIFICATION CapturesSpec
CONSTANTS
    Parts = {"checkpoints", "batch", "crawl", "frames", "snapshot", "transfer", "resolution", "encoding", "rewriting", "files", "formats", "reads"}
    d1 = d1
    d2 = d2
    direct = direct
    alias = alias
    other = other
    Owners = {o1, o2, o3}
    Paths = {direct, alias, other}
    Destinations = {d1, d2}
    Resolved <- TwoSpellings
    Gates = {g1, g2, g3}
    NoGate = NoGate
INVARIANTS
    OneWriter
    WaitIsFinal
    StaysInBounds
    ManifestsHold
    FramesVerify
    ObservationArrives
    ReferencesResolved
    
    RewriteRoundTrips
    VisibleMeansCommitted
    ExportsFromVerified
PROPERTIES
    SealedRegistry
    SchedulesKeepProgress
    SchedulesFinish
    
    NothingClobbered
CHECK_DEADLOCK FALSE
