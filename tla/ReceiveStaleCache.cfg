SPECIFICATION Spec
CONSTANTS
    a = a
    b = b
    Rings <- OneRing
    MaxReplicas = 2
    Factors = {1}
    Policies = {"dynamic"}
    Pauses = {FALSE}
    Conditions = FALSE
    Lagging = {"ConfigMap"}
    MaxFaults = 0
PROPERTY TroubledRingUntouched
