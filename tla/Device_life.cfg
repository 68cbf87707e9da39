SPECIFICATION DeviceSpec
CONSTANTS
    NumBufs = 2
    Failing <- AllSteps
    Threads = {t1, t2, t3}
    Domains = {d1, d2}
    OtherDomains = {d3}
    Cids = {c1, c2, c3, c4}
    Faults = {"mem", "debugfs", "refuse", "msg"}
    MaxCalls = 4
    NULL = NULL
SYMMETRY DeviceSymmetry
INVARIANTS
    ProbeTypeOK
    ResourcesBalanced
    DeviceMemoryHeld
    DebugAccounted
    SessionsClosed
    SessionsOfDomain
CHECK_DEADLOCK FALSE
