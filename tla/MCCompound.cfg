SPECIFICATION CompoundSpec
CONSTANTS
    QueryTables <- None
    DistinctOns <- None
    Distincts <- None
    Groupings <- None
    Paginations <- None
    SqlitePages <- None
    Compounds <- MCNested
INVARIANT CompoundsAgree
CHECK_DEADLOCK FALSE
