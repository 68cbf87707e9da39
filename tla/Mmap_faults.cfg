SPECIFICATION MmapSpec
CONSTANTS
    Maps = {i1, i2}
    Ctxs = {c1, c2}
    Fds = {d1}
    Keeps = {TRUE, FALSE}
    MaxArgs = 2
    MaxUses = 2
    MaxRefs = 3
    Faults = {"be", "dmabuf"}
    NULL = NULL
SYMMETRY MmapSymmetry
INVARIANTS
    MmapTypeOK
    CtxMapsLive
    UnmapExclusive
    RefsExact
    MapsReclaimed
CHECK_DEADLOCK FALSE
