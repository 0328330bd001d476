SPECIFICATION FairSpec
CONSTANTS
    c1 = c1
    c2 = c2
    Pullers = {c1}
    Resolvers = {c2}
    Movers = {c2}
    MaxEvents = 2
    MaxAttempts = 2
    MaxSparse = 1
    BatchLimit = 2
    InFlightLimit = 2
    Modes = {"exact", "protected"}
    Movable = {"exact"}
    MaxUpsets = 1
INVARIANTS
    TypeOK
    SettledExactly
    LeasesRespected
PROPERTIES
    CatchesUp
CHECK_DEADLOCK FALSE
