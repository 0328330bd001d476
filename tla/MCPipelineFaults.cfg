CONSTANTS
    c1 = c1
    c2 = c2
    c3 = c3
    d1 = d1
    d2 = d2
    Commands = {c1, c2, d1, d2}
    KeyOf <- MCKeyOf
    InputOf <- MCInputOf
    Audited = {c1, c2, d1, d2}
    Proven = {c1, c2, d1, d2}
    WorkloadCapacity = 2
    MaxGroup = 2
    MaxCrashes = 1
    MaxFaults = 1
    AllowShutdown = FALSE
SPECIFICATION Spec
SYMMETRY Interchangeable
CHECK_DEADLOCK FALSE
INVARIANTS
    TypeOK
    OneRecordPerKey
    FirstCommitsSurvive
    PublishedIsDurable
    FrontierIsFaithful
    NotifiedInOrder
    UnpublishedBounded
    LaneAccounted
    FenceIsFinal
