SPECIFICATION SyncSpec
CONSTANTS
    Keys = {1, 2}
    Tokens = {x, y}
    Vectors = {v, w}
    Overlapping = TRUE
INVARIANT FullTextIndexIsExact
CHECK_DEADLOCK FALSE
