CONSTANTS
    Values = {"a", "A", "b"}
    Lower <- MCLower
    Sources <- OneCase
    NoName = NoName
    NoTx = NoTx
    Misnamed = FALSE
    MaxLen = 7
SPECIFICATION ReplicaSpec
INVARIANTS RunsToTheEnd ReplicaAgrees SurvivorsSawSurvivors OutlineInv
PROPERTIES ImplementsServer StatementByStatement
CHECK_DEADLOCK FALSE
