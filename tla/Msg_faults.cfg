SPECIFICATION MsgSpec
CONSTANTS
    Msgs = {m1, m2}
    MsgMax = 2
    NumBufs = 1
    RxBufs = {r1}
    Workers = {w1}
    Kinds = {"cmd", "invoke", "munmap_fd"}
    Faults = {"marshal", "tx", "rx", "len"}
    NULL = NULL
SYMMETRY MsgSymmetry
INVARIANTS
    AnswerAddressed
    BuffersExclusive
    OwnAnswer
PROPERTIES
    CallSpec
CHECK_DEADLOCK FALSE
