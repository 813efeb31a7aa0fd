CONSTANTS
    Alphabets <- Replayed
    StoredTables = {"f"}
    NoTx = NoTx
SPECIFICATION ReplaySpec
INVARIANTS CatalogAgrees ReplayRuns ReplayRestores ReplayLeavesFileAlone
CHECK_DEADLOCK FALSE
