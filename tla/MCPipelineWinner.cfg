CONSTANTS
    c1 = c1
    c2 = c2
    c3 = c3
    d1 = d1
    d2 = d2
    Commands = {c1, c2, d1}
    KeyOf <- MCKeyOf
    InputOf <- MCInputOf
    Audited = {c1, c2, d1}
    Proven = {c1, c2, d1}
    WorkloadCapacity = 3
    MaxGroup = 3
    MaxCrashes = 0
    MaxFaults = 0
    AllowShutdown = FALSE
SPECIFICATION Spec
CHECK_DEADLOCK FALSE
INVARIANTS
    ExactlyOneWinner
