SPECIFICATION RowSpec
CONSTANTS
    Capacity = 2
    Configs <- AllTables
INVARIANTS RowSecurityAgrees AuditIsExact
CHECK_DEADLOCK FALSE
