SPECIFICATION FairSpec
CONSTANTS
    Pods = {0}
    MaxSize = 2
    Pauses = {FALSE}
    MaxFaults = 0
PROPERTY RemovedStops
