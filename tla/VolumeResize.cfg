SPECIFICATION FairSpec
CONSTANTS
    Pods = {0, 1}
    MaxSize = 2
    Pauses = {FALSE}
    MaxFaults = 1
INVARIANTS TypeOK RestsOnlyWhenReturned
PROPERTIES RestsOnlyWhenExpanded StatefulSetReturns VolumesFollow
