SPECIFICATION Spec
CONSTANTS
    t1 = t1
    t2 = t2
    acme = acme
    globex = globex
    Tasks = {t1, t2}
    Tenants = {acme, globex}
    Owner <- MCOwner
    Workers = {w1, w2}
    NoMessage = NoMessage
    Faults = {"request", "publish", "misroute", "redeliver", "database", "child", "worker"}
    MaxFaults = 3
SYMMETRY WorkerSymmetry
CHECK_DEADLOCK FALSE
INVARIANTS
    TypeOK
    AtMostOneModelCall
    RecordsMatchRow
    SkipIsJustified
    StrandedByLossOnly
PROPERTIES
    NoAutomaticRetry
    ImplementsAgentTaskSpec
