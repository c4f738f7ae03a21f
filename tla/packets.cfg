CONSTANTS
    NameBytes = {0, 1, 2, 12, 14, 65, 192}
    NameLength = 5
    Inputs <- MCInputs
    Hosts <- MCHosts
SPECIFICATION PSpec
INVARIANT PTypeOK
INVARIANT InBounds
INVARIANT Resolvable
INVARIANT Understood
INVARIANT AsksForHost
INVARIANT PanicsIfInvalid
PROPERTY ScanAdvances
PROPERTY Terminates
\* A packet is parsed once.
CHECK_DEADLOCK FALSE
