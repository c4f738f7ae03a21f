CONSTANTS
    NumSlots = 2
    NumTokens = 2
    MaxTicks = 1
    MaxResults = 1
    MaxRefs = 1
    MaxQueue = 2
    Usage = {"new_tcp", "read", "handshake", "time", "run_unprompted"}
SPECIFICATION Spec
INVARIANT NoPanic
INVARIANT SlotsAccounted
