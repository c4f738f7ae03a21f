CONSTANTS
    NumSlots = 1
    NumTokens = 1
    MaxTicks = 2
    MaxResults = 0
    MaxRefs = 1
    MaxQueue = 1
    Usage = {"new_tcp", "new_udp", "new_listener", "new_resolve", "new_timer",
             "socket_timeout", "read", "write", "accept", "handshake", "hibernate", "time",
             "run_unprompted"}
SPECIFICATION FairSpec
INVARIANT NoLostWakeup
INVARIANT LookupCounts
INVARIANT LookupWaits
PROPERTY IoEnds
PROPERTY LookupEnds
\* The model stops at a panic.
CHECK_DEADLOCK FALSE
