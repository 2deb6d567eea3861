\* A page with two frames, any of which a narrowed capture prunes.
SPECIFICATION AssemblySpec
CONSTANTS
    Frames = {1, 2, 3}
    frame_limit = 3
    depth_limit = 2
INVARIANT NarrowedPageVerifies
CHECK_DEADLOCK FALSE
