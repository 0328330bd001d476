SPECIFICATION Spec
CONSTANTS
    k1 = k1
    k2 = k2
    k3 = k3
    Keys <- ThreeKeys
    Shards <- MCShards
    ShardOf <- PairedShards
    MaxWaiterId = 3
    MaxKeysPerAcquisition = 2
    MaxKeysPerShard = 1
    MaxWaiters = 2
    MaxWaitersPerKey = 1
    Cancellable = {}
    Expirable = {2}
    Droppable = {}
    Spurious = {}
    Crowded = {}
INVARIANTS
    Accounting
    NoLostWakeup
    DeadlinesDoNotLeak
CHECK_DEADLOCK FALSE
