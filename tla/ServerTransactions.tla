-------------------------- MODULE ServerTransactions --------------------------
(***************************************************************************)
(* What the PostgreSQL server does with the transaction control of a       *)
(* batch, stated as an abstract specification.                             *)
(*                                                                         *)
(* Every statement of the batch has a position.  A statement that is not   *)
(* transaction control stands for its effects, so a set of positions is a  *)
(* database state: the effects of exactly those statements.                *)
(*                                                                         *)
(* The server is not part of the repository.  It is modelled from how      *)
(* impls/transaction_blocks.rs and history/transactions.rs describe it.    *)
(* Statements the server answers with an error are disabled here: this is  *)
(* the behaviour of a batch the server runs to its end.                    *)
(***************************************************************************)
EXTENDS Naturals, Sequences

CONSTANTS
    Idents,     \* identifiers as the source text spells them
    Fold        \* Fold[id]: the name the server knows the identifier by

VARIABLES
    clock,      \* statements executed so far
    active,     \* whether a transaction block is open
    working,    \* the statements whose effects are visible now
    durable,    \* the statements whose effects survive a disconnect
    marks       \* savepoints, innermost last: [name, kept]

serverVars == <<clock, active, working, durable, marks>>

\* The savepoints that answer to id.
Marked(id) == {k \in DOMAIN marks : marks[k].name = Fold[id]}

\* The innermost of them.
InnermostMark(id) ==
    CHOOSE k \in Marked(id) : \A q \in Marked(id) : q <= k

ServerInit ==
    /\ clock = 0
    /\ active = FALSE
    /\ working = {}
    /\ durable = {}
    /\ marks = <<>>

ServerTick == clock' = clock + 1

\* BEGIN.  A second one is answered with a warning and does nothing.
ServerBegin ==
    /\ ServerTick
    /\ active' = TRUE
    /\ UNCHANGED <<working, durable, marks>>

\* COMMIT [AND CHAIN] of an open block.
ServerCommit(chain) ==
    /\ active
    /\ ServerTick
    /\ durable' = working
    /\ active' = chain
    /\ marks' = <<>>
    /\ UNCHANGED working

\* ROLLBACK [AND CHAIN] of an open block.
ServerRollback(chain) ==
    /\ active
    /\ ServerTick
    /\ working' = durable
    /\ active' = chain
    /\ marks' = <<>>
    /\ UNCHANGED durable

\* COMMIT or ROLLBACK with no block open: a warning, and nothing happens.
ServerIdleEnd ==
    /\ ~active
    /\ ServerTick
    /\ UNCHANGED <<active, working, durable, marks>>

ServerSavepoint(id) ==
    /\ active
    /\ ServerTick
    /\ marks' = Append(marks, [name |-> Fold[id], kept |-> working])
    /\ UNCHANGED <<active, working, durable>>

\* RELEASE forgets the named savepoint and every later one.
ServerRelease(id) ==
    /\ active
    /\ Marked(id) # {}
    /\ ServerTick
    /\ marks' = SubSeq(marks, 1, InnermostMark(id) - 1)
    /\ UNCHANGED <<active, working, durable>>

\* ROLLBACK TO restores what the savepoint saw and keeps the savepoint.
ServerRollbackTo(id) ==
    /\ active
    /\ Marked(id) # {}
    /\ ServerTick
    /\ working' = marks[InnermostMark(id)].kept
    /\ marks' = SubSeq(marks, 1, InnermostMark(id))
    /\ UNCHANGED <<active, durable>>

\* Any other statement.  Outside a block it commits by itself.
ServerRun ==
    /\ ServerTick
    /\ working' = working \cup {clock + 1}
    /\ durable' = IF active THEN durable ELSE durable \cup {clock + 1}
    /\ UNCHANGED <<active, marks>>

ServerNext ==
    \/ ServerBegin
    \/ ServerIdleEnd
    \/ ServerRun
    \/ \E chain \in BOOLEAN : ServerCommit(chain) \/ ServerRollback(chain)
    \/ \E id \in Idents :
          ServerSavepoint(id) \/ ServerRelease(id) \/ ServerRollbackTo(id)

ServerSpec == ServerInit /\ [][ServerNext]_serverVars
=============================================================================
