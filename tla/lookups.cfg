CONSTANTS
    NumSlots = 2
    NumTokens = 1
    MaxTicks = 2
    MaxResults = 0
    MaxRefs = 0
    MaxQueue = 1
    Usage = {"new_resolve", "join_resolve", "resolve_error", "malformed_dns",
             "new_listener", "register_error", "new_processor", "join_udp", "get_child", "read", "return_early",
             "time", "run_unprompted"}
SPECIFICATION Spec
INVARIANT TypeOK
INVARIANT StacksDistinct
\* The model stops at a panic.
CHECK_DEADLOCK FALSE
