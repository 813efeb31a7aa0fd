CONSTANTS
    Alphabets <- Scripts
    Secured = {"s"}
    Backing <- BackingOf
    Words <- WordsOf
    Guard <- GuardOf
    MaxScript = 6
SPECIFICATION FreshSpec
INVARIANTS FreshFileIsRestored OtherFileIsLeftAlone
CHECK_DEADLOCK FALSE
