SPECIFICATION SyncSpec
CONSTANTS
    Keys = {1, 2}
    Tokens = {x, y}
    Vectors = {v, w}
    Overlapping = FALSE
INVARIANTS FullTextIndexIsExact VectorIndexIsExact
CHECK_DEADLOCK FALSE
