SPECIFICATION Spec
CONSTANTS
    Requests = {r1}
    PoolSize = 1
    Faults = {}
    MaxFaults = 0
CHECK_DEADLOCK FALSE
INVARIANT RepliedIsListed
