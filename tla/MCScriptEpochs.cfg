SPECIFICATION EpochSpec
CONSTANTS
    Tables = {"t", "u"}
    Declared = {"k", "a"}
    Extra = {"b"}
    Alterable = {"a"}
    MaxScript = 6
INVARIANT OrderlyScriptIsReproduced
CHECK_DEADLOCK FALSE
