SPECIFICATION BufSpec
CONSTANTS
    Bufs = {b1, b2, b3, b4}
    Ctxs = {c1, c2}
    Descs = {i1, i2}
    Sizes = {1, 2, 3}
    MaxCached = 1
    MaxCacheSize = 3
    Faults = {"mem", "msg", "be", "close"}
    NULL = NULL
SYMMETRY BufSymmetry
INVARIANTS
    BufAccounted
    CacheCounted
    BufFits
    DspMemoryKept
CHECK_DEADLOCK FALSE
