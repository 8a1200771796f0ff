SPECIFICATION FairSpec
CONSTANTS
    Jobs = {job}
    Operators = {operator}
    BackoffLimit = 2
    MaxFaults = 2
CHECK_DEADLOCK FALSE
INVARIANTS
    TypeOK
    TablesComeProtected
    VersionMatchesTables
    NeverOpenByAccident
    EveryModeServes
    RefusedOnlyWhenOvertaken
PROPERTIES
    MigrationsGetDone
    NoFalseAllClear
