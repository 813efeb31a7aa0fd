CONSTANTS
    Objects = {o1, o2}
    Length = 3
SPECIFICATION RetentionSpec
INVARIANTS RetentionIsClosed RetentionIsLeast
PROPERTY RetentionReturns
CHECK_DEADLOCK FALSE
