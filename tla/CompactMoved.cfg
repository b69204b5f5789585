SPECIFICATION Spec
CONSTANTS
    Blocks = {0, 1, 2}
    ShardNames = {1, 2}
    MaxShards = 1
    Absent = Absent
    Kinds = {"compact"}
    Shardings <- MovingShardings
    ShardCounts = {1}
    Pauses = {FALSE}
    CacheLags = FALSE
    MaxFaults = 0
INVARIANT OneStatefulSetPerBlock
