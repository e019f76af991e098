SPECIFICATION TextureSpec
CHECK_DEADLOCK FALSE
CONSTANTS
    Frames = {f1, f2, f3}
    Readers = {x1}
    Surfaces = {back, front}
    FirstSurface = back
    PoolSizes = {0, 1}
    FirstPoolSize = 2
    MaxSizes = {1}
    FirstMaxSize = 3
    MaxTimestamp = 1
    MaxFrames = 3
    MaxCalls = 1
SYMMETRY Symmetric
INVARIANTS TexturesTyped FramesAccounted
PROPERTIES NeverOverwritten TimestampsIncrease
