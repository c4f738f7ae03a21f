CONSTANTS
    Small = 2
    TmpLen = 4
    MaxBufs = 3
    MaxLen = 3
    Window = 8
SPECIFICATION BSpec
INVARIANT Counted
INVARIANT FailsUnmoved
INVARIANT LongInOrder
INVARIANT ReadKept
\* A call returns.
CHECK_DEADLOCK FALSE
