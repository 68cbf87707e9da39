SPECIFICATION InvokeFairSpec
CONSTANTS
    Msgs = {m1, m2}
    MsgMax = 1
    NumBufs = 1
    RxBufs = {r1, r2}
    Workers = {w1}
    Kinds = {"cmd", "invoke", "async", "munmap_fd"}
    Faults = {"marshal", "save"}
    NULL = NULL
    f1 = f1
    Threads = {t1, t2}
    Files = {f1}
    FileOf <- OneFile
    Args = {a1}
    MaxOpens = 1
    Commands = {"open", "map", "control"}
INVARIANTS
    RxConserved
PROPERTIES
    MsgSpec
    CallsReturn
    ReleaseEnds
    AsyncNoLostWakeup
CHECK_DEADLOCK FALSE
