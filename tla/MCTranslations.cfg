SPECIFICATION TranslationSpec
CONSTANTS
    Bodies <- MCBodies
    Rows <- MCRows
    Declared <- MCDeclared
    Events <- MCEvents
    Base = 3
    Maintained = {"b", "c"}
    Triggers <- MCTriggers
    MaxTriggerDepth = 4
    DayTicks = 96
    SecondTicks = 2
    Temporals <- MCTemporals
    DateLiterals <- MCLiterals
    IntervalTexts <- MCTexts
    ServerCalls <- MCCalls
    SqliteCalls <- MCSqliteCalls
    RowsOf <- MCRowsOf
    NumberCells = {"n", "m"}
    Aggregates <- MCAggregates
    SqliteAggregates <- MCSqliteAggregates
    Groups <- MCGroups
    ArrayInputs <- MCArrayInputs
    Documents <- MCDocuments
    QueryTables <- MCQueryTables
    DistinctOns <- MCDistinctOns
    Distincts <- MCDistincts
    Groupings <- MCGroupings
    Paginations <- MCPaginations
    SqlitePages <- MCSqlitePages
    Compounds <- MCCompounds
INVARIANTS BodyRunsAsWritten MaintainedAlike TemporalsAgree TemporalReversalAgrees CallsAgree ReversedCallsAgree ArraysAgree QueriesAgree
CHECK_DEADLOCK FALSE
