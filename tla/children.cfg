CONSTANTS
    NumSlots = 3
    NumTokens = 1
    MaxTicks = 1
    MaxResults = 1
    MaxRefs = 1
    MaxQueue = 2
    Usage = {"new_processor", "join_tcp", "get_child", "read", "resp_chunk",
             "return_some", "run_unprompted"}
SPECIFICATION Spec
INVARIANT ChunkReceived
INVARIANT FamilyTree
INVARIANT SlotsAccounted
INVARIANT NoneForgotten
