CONSTANTS
    c1 = c1
    c2 = c2
    c3 = c3
    d1 = d1
    d2 = d2
    Commands = {c1, c3}
    KeyOf <- MCKeyOf
    InputOf <- MCInputOf
    Audited = {c1, c3}
    Proven = {c1, c3}
    WorkloadCapacity = 2
    MaxGroup = 2
    MaxCrashes = 0
    MaxFaults = 0
    AllowShutdown = FALSE
SPECIFICATION Spec
CHECK_DEADLOCK FALSE
INVARIANTS
    KeyReuseIsReported
