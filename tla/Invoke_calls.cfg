SPECIFICATION InvokeSpec
CONSTANTS
    Msgs = {m1, m2, m3}
    MsgMax = 2
    NumBufs = 1
    RxBufs = {r1, r2}
    Workers = {w1}
    Kinds = {"cmd", "invoke", "async", "munmap_fd"}
    Faults = {"marshal", "save"}
    NULL = NULL
    f1 = f1
    Threads = {t1, t2}
    Files = {f1}
    FileOf <- OneFile
    Args = {a1}
    MaxOpens = 1
    Commands = {"open", "map", "control"}
SYMMETRY InvokeSymmetry
INVARIANTS
    InvokeTypeOK
    AsyncQueueSound
    OneOwner
    RestartResumes
    ReleaseReclaims
CHECK_DEADLOCK FALSE
