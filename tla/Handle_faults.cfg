SPECIFICATION HandleSpec
CONSTANTS
    Ctxs = {c1, c2}
    Fds = {0, 1, 2}
    MaxHandles = 2
    MaxFdList = 2
    MaxRefs = 3
    Failing = {"dmabuf", "msg", "result", "close"}
SYMMETRY HandleSymmetry
INVARIANTS
    HandleTypeOK
    HandleKept
    HandlesExact
CHECK_DEADLOCK FALSE
