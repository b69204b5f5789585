SPECIFICATION Spec
CONSTANTS
    a = a
    b = b
    Rings <- TwoRings
    MaxReplicas = 2
    Factors = {1}
    Policies = {"dynamic"}
    Pauses = {FALSE}
    Conditions = FALSE
    Lagging = {}
    MaxFaults = 1
SYMMETRY Symmetry
INVARIANT TypeOK
PROPERTIES NeverRetireRouted TroubledRingUntouched DroppedOnlyWhenRemoved KeepsPromise
