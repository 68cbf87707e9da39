SPECIFICATION CapsSpec
CONSTANTS
    Threads = {t1, t2, t3}
    Domains = {d1, d2}
    Faults = {"be"}
    MaxAsks = 4
    NULL = NULL
SYMMETRY CapsSymmetry
INVARIANTS
    AnswerGood
    CacheSettles
CHECK_DEADLOCK FALSE
