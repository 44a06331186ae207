SPECIFICATION Spec
CONSTANTS
    Requests = {r1, r2}
    Processes = {p1, p2}
    Keys = {k1, k2}
    None = none
    MaxCalls = 4
    MaxFaults = 1
INVARIANTS
    OneAtATime
    AtMostOnce
    ReplaysLast
PROPERTIES
    KeysReleased
CHECK_DEADLOCK FALSE
