------------------------ MODULE MCReplicaTransactions ------------------------
(* TLC instance of ReplicaTransactions.                                      *)
EXTENDS ReplicaTransactions

MCLower == [v \in Values |-> IF v = "A" THEN "a" ELSE v]

\* No two identifiers the server tells apart by case alone.
OneCase == Idents \ {[value |-> "A", quoted |-> TRUE]}

\* The hypotheses of the theorems about these runs.
ASSUME SourcesAssumption == OneSpelling /\ ~Misnamed
=============================================================================
