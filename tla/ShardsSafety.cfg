SPECIFICATION Spec
CONSTANTS
    Blocks = {0, 1, 2}
    ShardNames = {1, 2, 3}
    MaxShards = 3
    Absent = Absent
    Kinds = {"compact", "store"}
    Shardings <- StableShardings
    ShardCounts = {1, 2, 3}
    Pauses = {FALSE}
    CacheLags = FALSE
    MaxFaults = 2
INVARIANTS TypeOK FitsOneLayout OneStatefulSetPerBlock
PROPERTIES OldStaysUntilNew ReadyIsEarned
