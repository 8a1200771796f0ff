SPECIFICATION FairSpec
CONSTANTS
    t1 = t1
    t2 = t2
    acme = acme
    globex = globex
    Tasks = {t1, t2}
    Tenants = {acme, globex}
    Owner <- MCOwner
    Workers = {w1, w2}
    NoMessage = NoMessage
    Faults = {"publish", "misroute", "redeliver"}
    MaxFaults = 2
CHECK_DEADLOCK FALSE
PROPERTY AcceptedFinishes
