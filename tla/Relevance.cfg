SPECIFICATION Spec
CONSTANTS
    Words = {link, loss, outage}
    MaxEvents = 2
CHECK_DEADLOCK FALSE
INVARIANT EveryListRanked
