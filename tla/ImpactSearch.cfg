SPECIFICATION Spec
CONSTANTS
    Towers = {a, b, c, d}
    Topologies <- MCTopologies
    HopLimits = {0, 1, 2, 3}
SYMMETRY Symmetry
CHECK_DEADLOCK FALSE
INVARIANTS
    TypeOK
    ExactImpact
    NearestFirst
    AgreesWithNeo4j
