SPECIFICATION InvokeSpec
CONSTANTS
    Msgs = {m1, m2}
    MsgMax = 2
    NumBufs = 2
    RxBufs = {r1, r2}
    Workers = {w1}
    Kinds = {"cmd", "invoke"}
    Faults = {}
    NULL = NULL
    f1 = f1
    Threads = {t1, t2}
    Files = {f1}
    FileOf <- OneFile
    Args = {a1}
    MaxOpens = 2
    Commands = {"open"}
SYMMETRY InvokeSymmetry
INVARIANTS
    UniqueMsgid
CHECK_DEADLOCK FALSE
