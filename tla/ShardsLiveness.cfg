SPECIFICATION FairSpec
CONSTANTS
    Blocks = {0, 1, 2}
    ShardNames = {1, 2, 3}
    MaxShards = 3
    Absent = Absent
    Kinds = {"compact", "store"}
    Shardings <- StableShardings
    ShardCounts = {1, 2}
    Pauses = {FALSE, TRUE}
    CacheLags = TRUE
    MaxFaults = 1
INVARIANT RestsOnlyWhenSettled
PROPERTY Converges
