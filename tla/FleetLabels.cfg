SPECIFICATION StatusSpec
CONSTANTS
    NameLimit = 40
    Scenarios <- LabelledNamespaces
    Gone = Gone
    Idle = Idle
INVARIANTS StatusTypeOK RestsOnlyWhenBuilt PodsCanStart SelectsOnlyItsOwn WellWired
PROPERTY FleetConverges
CHECK_DEADLOCK FALSE
