SPECIFICATION Spec
CONSTANTS
    a = a
    b = b
    c = c
    Towers = {a, b, c}
    Threads = {th1, th2}
    NoGraph = NoGraph
    Store = Store
    Backends = {"memory"}
    Nodes <- MCNodes
    Links <- MCLinks
    Queries <- MCQueries
    MaxFailures = 0
CHECK_DEADLOCK FALSE
INVARIANT EveryTower
