CONSTANTS
    NumSlots = 2
    NumTokens = 1
    MaxTicks = 1
    MaxResults = 1
    MaxRefs = 1
    MaxQueue = 2
    Usage = {"new_processor", "new_fiber_timer", "return_some", "resp_chunk",
             "join_main", "drop_timer", "time", "run_unprompted"}
SPECIFICATION FairSpec
INVARIANT TimeoutArmed
INVARIANT JoinBlocks
INVARIANT NoEcho
PROPERTY Runs
PROPERTY Resumes
