SPECIFICATION StatusSpec
CONSTANTS
    NameLimit = 40
    Scenarios <- Namespaces
    Gone = Gone
    Idle = Idle
INVARIANTS StatusTypeOK RestsOnlyWhenBuilt AsksEveryStore PodsCanStart SelectsOnlyItsOwn WellWired
PROPERTIES NeverDeletesNeighbours NeverPrunesWhatIsUsed FleetConverges StatusConverges
CHECK_DEADLOCK FALSE
