CONSTANTS
    c1 = c1
    c2 = c2
    c3 = c3
    d1 = d1
    d2 = d2
    Commands = {c1, c2}
    KeyOf <- MCKeyOf
    InputOf <- MCInputOf
    Audited = {c1, c2}
    Proven = {c1, c2}
    WorkloadCapacity = 2
    MaxGroup = 2
    MaxCrashes = 0
    MaxFaults = 1
    AllowShutdown = FALSE
SPECIFICATION Spec
CHECK_DEADLOCK FALSE
INVARIANTS
    ReplaysArePublished
