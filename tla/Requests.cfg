SPECIFICATION FairSpec
CONSTANTS
    Requests = {r1, r2, r3}
    PoolSize = 2
    Faults = {"database", "timeout", "process"}
    MaxFaults = 1
CHECK_DEADLOCK FALSE
INVARIANTS
    TypeOK
    OutcomesOnRecord
    ConnectionsReturned
PROPERTIES
    ImplementsRequestSpec
    ServedWhileModelsHang
