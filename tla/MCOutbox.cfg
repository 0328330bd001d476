SPECIFICATION FairSpec
CONSTANTS
    MaxEvents = 4
    MaxAttempts = 2
    ClaimGroup = 2
    SuccessGroup = 2
    Quota = 2
    Configurations <- MCConfigurations
    MaxFaults = 2
INVARIANTS
    TypeOK
    ViewExact
    NoneStranded
    CallsAreCounted
    RunsFit
PROPERTIES
    ImplementsDelivery
    EventsSettle
    CaughtUpIsReady
CHECK_DEADLOCK FALSE
