SPECIFICATION Spec
CONSTANTS
    t1 = t1
    t2 = t2
    acme = acme
    globex = globex
    Tasks = {t1, t2}
    Tenants = {acme, globex}
    Owner <- MCOwner
    Workers = {w1, w2}
    NoMessage = NoMessage
    Faults = {"child"}
    MaxFaults = 1
CHECK_DEADLOCK FALSE
INVARIANT CrashRedelivers
