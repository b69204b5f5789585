SPECIFICATION Spec
CONSTANTS
    a = a
    b = b
    Rings <- OneRing
    MaxReplicas = 3
    Factors = {1, 3}
    Policies = {"dynamic"}
    Pauses = {FALSE}
    Conditions = FALSE
    Lagging = {}
    MaxFaults = 0
INVARIANT ReplicationFactorMet
