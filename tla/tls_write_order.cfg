CONSTANTS
    Small = 2
    TmpLen = 4
    MaxBufs = 2
    MaxLen = 3
    Window = 8
SPECIFICATION BSpec
INVARIANT SentInOrder
CHECK_DEADLOCK FALSE
