SPECIFICATION Spec
CONSTANTS
    NameLimit = 40
    Sources <- RuleSourceForms
    Rulers <- OtherValue
    RuleGates = {TRUE, FALSE}
    maxConfigMapDataSize = 2
    Happening <- EditsOnly
    MaxDisturbances = 1
    Garbage = "garbage"
    Clashing = "clashing"
INVARIANTS RestsOnlyWhenLoaded
CHECK_DEADLOCK FALSE
