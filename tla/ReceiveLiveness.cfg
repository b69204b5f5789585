SPECIFICATION FairSpec
CONSTANTS
    a = a
    b = b
    Rings <- OneRing
    MaxReplicas = 2
    Factors = {1}
    Policies = {"dynamic"}
    Pauses = {FALSE, TRUE}
    Conditions = FALSE
    Lagging = {"StatefulSet", "ConfigMap"}
    MaxFaults = 1
INVARIANT RestsOnlyWhenSettled
PROPERTIES RingConverges RemovedRingGoes
