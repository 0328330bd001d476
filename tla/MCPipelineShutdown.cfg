CONSTANTS
    c1 = c1
    c2 = c2
    c3 = c3
    d1 = d1
    d2 = d2
    Commands = {c1, c2, d1}
    KeyOf <- MCKeyOf
    InputOf <- MCInputOf
    Audited = {c1, c2, d1}
    Proven = {c1, d1}
    WorkloadCapacity = 1
    MaxGroup = 2
    MaxCrashes = 0
    MaxFaults = 1
    AllowShutdown = TRUE
SPECIFICATION FairSpec
CHECK_DEADLOCK FALSE
INVARIANTS
    BacklogBounded
    ReturnLeavesNothing
PROPERTIES
    LifecycleDescends
    AcceptedIsAnswered
    ShutdownEnds
