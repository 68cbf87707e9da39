SPECIFICATION SilentFairSpec
CONSTANTS
    Params = {"silent", "nonsilent", "forcedsilent", "forcednonsilent", "other"}
    UserVals = {0, 1, 2}
    Drivers = {d1, d2}
    Faults = {"probe"}
    MaxEdges = 3
    MaxSuspends = 2
    MaxWrites = 1
INVARIANTS
    UserControls
    ForcedHolds
    DriversTold
PROPERTIES
    GpioFollowed
CHECK_DEADLOCK FALSE
