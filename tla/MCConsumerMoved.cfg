SPECIFICATION Spec
CONSTANTS
    c1 = c1
    c2 = c2
    Pullers = {c1}
    Resolvers = {c2}
    Movers = {c2}
    MaxEvents = 2
    MaxAttempts = 2
    MaxSparse = 1
    BatchLimit = 2
    InFlightLimit = 2
    Modes = {"protected"}
    Movable = {"protected"}
    MaxUpsets = 2
INVARIANTS
    SettledExactly
CHECK_DEADLOCK FALSE
