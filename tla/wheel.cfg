CONSTANTS
    NumSlots = 2
    TickMs = 2
    InitialCapacity = 1
    MaxCapacity = 3
    Tasks = {1}
    Durations = {0, 3, 7}
    MaxMs = 8
SPECIFICATION WSpec
INVARIANT WTypeOK
INVARIANT ListsLinked
INVARIANT NextTimeoutBounds
PROPERTY TimerServiceSpec
