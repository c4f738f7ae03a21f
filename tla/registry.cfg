CONSTANTS
    MaxRunners = 2
    RunnerUnit = 8
    PosUnit = 4
    FirstCapacity = 1
    NumTokens = 1
    MaxFibers = 2
    MaxSlots = 2
    MaxMade = 2
    MaxQueue = 2
    MaxFree = 2
    MaxRefs = 1
SPECIFICATION GSpec
CHECK_DEADLOCK FALSE
INVARIANT HandlesValid
INVARIANT Isolated
INVARIANT RefsLand
