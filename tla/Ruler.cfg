SPECIFICATION Spec
CONSTANTS
    NameLimit = 40
    Sources <- RuleSourceForms
    Rulers <- OneRuler
    RuleGates = {TRUE, FALSE}
    maxConfigMapDataSize = 2
    Happening <- Everything
    MaxDisturbances = 2
    Garbage = "garbage"
    Clashing = "clashing"
INVARIANTS RulesTypeOK RestsOnlyWhenLoaded LoadsOnce
PROPERTIES RulesConverge
CHECK_DEADLOCK FALSE
