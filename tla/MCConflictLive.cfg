SPECIFICATION LiveSpec
CONSTANTS
    k1 = k1
    k2 = k2
    k3 = k3
    Keys <- MCKeys
    Shards <- MCShards
    ShardOf <- SplitShards
    MaxWaiterId = 2
    MaxKeysPerAcquisition = 2
    MaxKeysPerShard = 2
    MaxWaiters = 3
    MaxWaitersPerKey = 3
    Cancellable = {2}
    Expirable = {1,2}
    Droppable = {}
    Spurious = {}
    Crowded = {}
PROPERTIES
    AcquisitionsComplete
    DeadlinesFire
CHECK_DEADLOCK FALSE
