CONSTANTS
    NumSlots = 1
    NumTokens = 1
    MaxTicks = 1
    MaxResults = 1
    MaxRefs = 1
    MaxQueue = 2
    Usage = {"new_tcp", "read", "time", "resp_chunk", "run_unprompted"}
SPECIFICATION Spec
INVARIANT NoPanic
