SPECIFICATION Spec
CONSTANTS
    NameLimit = 40
    Sources <- RuleSourceForms
    Rulers <- TwoRulers
    RuleGates = {TRUE}
    maxConfigMapDataSize = 2
    Happening <- EditsOnly
    MaxDisturbances = 0
    Garbage = "garbage"
    Clashing = "clashing"
PROPERTIES PrunesOnlyOrphans
CHECK_DEADLOCK FALSE
