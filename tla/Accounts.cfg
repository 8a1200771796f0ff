SPECIFICATION Spec
CONSTANTS
    Requests = {p1, p2}
    Tenants = {acme, globex}
    Slugs = {s1, s2}
    Users = {u1, u2, u3}
    Emails = {e1, e2}
    None = None
    MaxTokens = 2
    MaxChanges = 1
SYMMETRY Symmetry
INVARIANTS
    TypeOK
    LoginIsUnambiguous
    NoStalePrivilege
    LoginsOnRecord
PROPERTY ImplementsDirectorySpec
