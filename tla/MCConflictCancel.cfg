SPECIFICATION Spec
CONSTANTS
    k1 = k1
    k2 = k2
    k3 = k3
    Keys <- MCKeys
    Shards <- MCShards
    ShardOf <- SplitShards
    MaxWaiterId = 3
    MaxKeysPerAcquisition = 2
    MaxKeysPerShard = 2
    MaxWaiters = 3
    MaxWaitersPerKey = 3
    Cancellable = {2}
    Expirable = {}
    Droppable = {2}
    Spurious = {2}
    Crowded = {2}
INVARIANTS
    TypeOK
    MutualExclusion
    HoldersAreOwners
    QueueIntegrity
    ConsistentOrder
    NoStrandedWaiter
    NothingLeftBehind
PROPERTIES
    ImplementsLeaseService
CHECK_DEADLOCK FALSE
