SPECIFICATION Spec
CONSTANTS
    MaxServers = 2
INVARIANTS
    TypeOK
    NothingLeft
    OpenWhileNeeded
    ReportIsHonest
PROPERTIES
    EveryRunEnds
CHECK_DEADLOCK FALSE
