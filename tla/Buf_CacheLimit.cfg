SPECIFICATION BufSpec
CONSTANTS
    Bufs = {b1, b2, b3, b4}
    Ctxs = {c1, c2}
    Descs = {i1, i2}
    Sizes = {1}
    MaxCached = 1
    MaxCacheSize = 3
    Faults = {}
    NULL = NULL
SYMMETRY BufSymmetry
INVARIANTS
    CacheLimit
CHECK_DEADLOCK FALSE
