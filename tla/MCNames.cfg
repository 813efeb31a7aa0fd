CONSTANTS
    Schemas = {"a", "b"}
    Texts = {"t", "T", "u", "v"}
    Lower <- MCLower
    NoOwner = NoOwner
    Columns <- MCTables
    Host = "h"
    Backing = "h_rls"
    Aliases = {"d"}
    References <- MCReferences
    WrittenCalls <- MCWritten
    SqliteNames <- MCSqliteNames
    NameOptions <- MCNameOptions
    Sessions <- MCSessions
    WithQueries <- MCWithQueries
    PinnedLists <- MCPinnedLists
    StoredNames <- MCStoredNames
    RebindHistories <- MCRebindHistories
    RebindStatements <- MCRebindStatements
    GuardSchemas <- MCGuardSchemas
    GuardQueries <- MCGuardQueries
    PlaceholderSeqs <- MCPlaceholderSeqs
    ConflictCells <- MCConflictCells
SPECIFICATION NamesSpec
INVARIANTS AcceptedScriptApplies RefusalIsNeeded ReplicaHoldsServer ReferencesKeepTheirRow NamesKeepTheirMeaning CteNamesAgree IdentitiesAreKept ReversedAlike
CHECK_DEADLOCK FALSE
