\* Bodies of two elements: in the flow, formatted, or where HTML cannot put them.
SPECIFICATION EncodingSpec
CONSTANTS
    HeadKinds = {"plain"}
    BodyKinds = {"flow", "formatted", "misnested"}
    FrameBodies <- MCFrameBodies
    Resources <- MCResources
    MaxHead = 1
    MaxBody = 2
    MAXIMUM_INLINE_FRAME_DEPTH = 1
INVARIANT EncodedVerifies
CHECK_DEADLOCK FALSE
