------------------------- MODULE ReplicaTransactions -------------------------
(***************************************************************************)
(* The translated batch running on SQLite, next to the outline that        *)
(* history/ reads from the same source statements.                         *)
(*                                                                         *)
(* impls/translator_impls/statement.rs decides which SQLite statements one *)
(* source statement becomes: none for a no-op, two for AND CHAIN, itself   *)
(* for the savepoint statements.  The engine that executes them is         *)
(* external; it is modelled from what the module documentation of          *)
(* impls/transaction_blocks.rs says of it.  SQLite compares savepoint      *)
(* names without regard to case, quoted or not.                            *)
(***************************************************************************)
EXTENDS TransactionOutline

VARIABLES
    sqlite,     \* the engine: see EngineInit
    saw         \* saw[i]: the statements whose effects statement i ran on

replicaVars == <<outlineVars, sqlite, saw>>

-----------------------------------------------------------------------------
(* The engine.  rows are the effects its connection sees, file the ones    *)
(* that are durable, commits the sets of effects that became durable in    *)
(* one COMMIT, saves the savepoints, innermost last.                       *)

EngineInit ==
    [failed |-> FALSE, open |-> FALSE, rows |-> {}, file |-> {},
     commits |-> {}, saves |-> <<>>]

Fail(e) == [e EXCEPT !.failed = TRUE]

\* "cannot start a transaction within a transaction"
EngineBegin(e) ==
    IF e.open THEN Fail(e) ELSE [e EXCEPT !.open = TRUE]

\* "cannot commit - no transaction is active"
EngineCommit(e) ==
    IF ~e.open THEN Fail(e)
    ELSE [e EXCEPT !.open = FALSE, !.file = e.rows, !.saves = <<>>,
                   !.commits = @ \cup {e.rows \ e.file}]

EngineRollback(e) ==
    IF ~e.open THEN Fail(e)
    ELSE [e EXCEPT !.open = FALSE, !.rows = e.file, !.saves = <<>>]

EngineSavepoint(e, id) ==
    [e EXCEPT !.saves = Append(@, [name |-> Lower[id.value], rows |-> e.rows])]

Saved(e, id) == {k \in DOMAIN e.saves : e.saves[k].name = Lower[id.value]}

LastSaved(e, id) == CHOOSE k \in Saved(e, id) : \A q \in Saved(e, id) : q <= k

\* "no such savepoint"
EngineRelease(e, id) ==
    IF Saved(e, id) = {} THEN Fail(e)
    ELSE [e EXCEPT !.saves = SubSeq(@, 1, LastSaved(e, id) - 1)]

EngineRollbackTo(e, id) ==
    IF Saved(e, id) = {} THEN Fail(e)
    ELSE [e EXCEPT !.rows = e.saves[LastSaved(e, id)].rows,
                   !.saves = SubSeq(@, 1, LastSaved(e, id))]

\* A statement outside a transaction commits by itself.
EngineRun(e, i) ==
    IF e.open THEN [e EXCEPT !.rows = @ \cup {i}]
    ELSE [e EXCEPT !.rows = @ \cup {i}, !.file = @ \cup {i},
                   !.commits = @ \cup {{i}}]

-----------------------------------------------------------------------------
(* The emitted statements of one source statement.                         *)

EmitBegin(e) == IF blockOpen THEN e ELSE EngineBegin(e)

\* Fault: AND CHAIN is dropped from the COMMIT.
EmitCommitUnchained(e, chain) == IF ~blockOpen THEN e ELSE EngineCommit(e)

\* COMMIT, and for AND CHAIN the BEGIN it means.
EmitCommit(e, chain) ==
    IF ~blockOpen THEN e
    ELSE IF chain THEN EngineBegin(EngineCommit(e)) ELSE EngineCommit(e)

EmitRollback(e, chain) ==
    IF ~blockOpen THEN e
    ELSE IF chain THEN EngineBegin(EngineRollback(e)) ELSE EngineRollback(e)

\* The statement of the source and what it became, in one step.  A refused
\* batch is never translated, and a script stops at its first failure.
Translated(e) == sqlite' = IF refused' THEN sqlite ELSE e

ReplicaInit == OutlineInit /\ sqlite = EngineInit /\ saw = <<>>

ReplicaBegin ==
    Begin /\ Translated(EmitBegin(sqlite)) /\ saw' = Append(saw, {})

ReplicaCommit(chain) ==
    /\ Commit(chain)
    /\ Translated(EmitCommit(sqlite, chain))
    /\ saw' = Append(saw, {})

ReplicaRollback(chain) ==
    /\ Rollback(chain)
    /\ Translated(EmitRollback(sqlite, chain))
    /\ saw' = Append(saw, {})

ReplicaSavepoint(id) ==
    /\ Savepoint(id)
    /\ Translated(EngineSavepoint(sqlite, id))
    /\ saw' = Append(saw, {})

ReplicaRelease(id) ==
    /\ ReleaseSavepoint(id)
    /\ Translated(EngineRelease(sqlite, id))
    /\ saw' = Append(saw, {})

ReplicaRollbackTo(id) ==
    /\ RollbackTo(id)
    /\ Translated(EngineRollbackTo(sqlite, id))
    /\ saw' = Append(saw, {})

ReplicaRun ==
    /\ Run \/ CreateIndexConcurrently
    /\ Translated(EngineRun(sqlite, Len(outcomes) + 1))
    /\ saw' = Append(saw, sqlite.rows)

ReplicaNext ==
    /\ ~sqlite.failed
    /\ \/ ReplicaBegin
       \/ ReplicaRun
       \/ \E chain \in BOOLEAN : ReplicaCommit(chain) \/ ReplicaRollback(chain)
       \/ \E id \in Sources :
             ReplicaSavepoint(id) \/ ReplicaRelease(id) \/ ReplicaRollbackTo(id)

ReplicaSpec == ReplicaInit /\ [][ReplicaNext]_replicaVars

\* SQLite folds the case of a quoted savepoint name, the server does not.
\* Batches with two names that only the server tells apart are left out.
OneSpelling == \A a, b \in Sources : Lower[a.value] = Lower[b.value] => ServerFold[a] = ServerFold[b]

-----------------------------------------------------------------------------
(* Properties.                                                             *)

\* No emitted transaction statement fails when the script runs: a nested
\* BEGIN, an unmatched COMMIT and the BEGIN after a chained COMMIT all meet
\* the transaction state the translator assumed (transaction_blocks.rs
\* analyse, statement.rs translate_commit and translate_rollback).
RunsToTheEnd == ~sqlite.failed

\* Two surviving statements carry the same TransactionId exactly when one
\* COMMIT made both durable; replay brackets its units by that number.
GroupsCommitTogether ==
    \A i, j \in CommittedSet :
        transactions[i] # NoTx =>
            ((transactions[i] = transactions[j])
                <=> \E c \in sqlite.commits : {i, j} \subseteq c)

\* What the outline calls committed is what the replica holds durably, commit
\* by commit, and what it has not undone yet is what the connection sees: "the
\* statements that survive are exactly the ones the batch commits"
\* (transactions.rs).
ReplicaAgrees ==
    /\ sqlite.file = CommittedSet
    /\ sqlite.rows = VisibleSet
    /\ sqlite.open <=> blockOpen
    /\ GroupsCommitTogether

\* A surviving statement ran on the effects of the surviving statements
\* before it and of no other, which is what lets connection_program apply
\* only the committed units to its catalog.
SurvivorsSawSurvivors ==
    \A i \in CommittedSet : saw[i] = {j \in CommittedSet : j < i}
=============================================================================
