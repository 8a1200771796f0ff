SPECIFICATION Spec
CONSTANTS
    Tenants = {acme, globex}
    Sessions = {s1, s2, s3}
    Connections = {c1, c2}
    Nobody = Nobody
    NoConnection = NoConnection
    Unset = Unset
    Empty = Empty
SYMMETRY Symmetry
INVARIANTS
    TypeOK
    ScopeFollowsSession
    IdleConnectionsUnscoped
    OwnRowsOnly
PROPERTY ImplementsTenantStore
