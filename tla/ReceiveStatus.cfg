SPECIFICATION Spec
CONSTANTS
    a = a
    b = b
    Rings <- OneRing
    MaxReplicas = 4
    Factors = {3}
    Policies = {"static", "dynamic"}
    Pauses = {FALSE}
    Conditions = TRUE
    Lagging = {}
    MaxFaults = 1
INVARIANT ReplicationFactorMet
PROPERTIES StaticRingFixedSize ReadyIsEarned
