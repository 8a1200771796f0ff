SPECIFICATION FairSpec
CONSTANTS
    a = a
    b = b
    c = c
    Towers = {a, b, c}
    Threads = {th1, th2}
    NoGraph = NoGraph
    Store = Store
    Backends = {"memory", "neo4j"}
    Nodes <- MCNodes
    Links <- MCLinks
    Queries <- MCQueries
    MaxFailures = 1
INVARIANTS
    TypeOK
    NeverInvents
    ExactWhenWhole
    LeftIncompleteByFailureOnly
PROPERTY SettlesComplete
