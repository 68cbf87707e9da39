SPECIFICATION NotifFairSpec
CONSTANTS
    Virtual = {s1, s2}
    Native = {n1}
    States = {up, down}
    Faults = {"child", "irq", "remove"}
    MaxEvents = 4
    NULL = NULL
INVARIANTS
    LastStateTold
PROPERTIES
    StateDelivered
CHECK_DEADLOCK FALSE
