CONSTANTS
    NumServers = 3
    MaxTicks = 5
SPECIFICATION DSpec
INVARIANT AllAsked
INVARIANT FailsForCause
\* A lookup ends.
CHECK_DEADLOCK FALSE
