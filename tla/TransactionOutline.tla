-------------------------- MODULE TransactionOutline --------------------------
(***************************************************************************)
(* How the translator reads the transaction control of a source batch.     *)
(*                                                                         *)
(* Two independent passes read the same statements:                        *)
(*  - impls/transaction_blocks.rs `analyse' keeps one flag, whether a      *)
(*    block is open, and refuses a statement, drops it as a no-op, or      *)
(*    lets it through;                                                     *)
(*  - history/transactions.rs `Outline::new' keeps savepoint frames over a *)
(*    vector of pending statements, and decides which statements of the    *)
(*    batch survive it and which transaction each one ran in.              *)
(* Outline::new trusts the dispositions of the first pass.  The module     *)
(* runs both passes over the same statement in one step; its state after   *)
(* n statements is the state both loops have after n iterations.           *)
(*                                                                         *)
(* Positions count from 1 here and from 0 in the code.                     *)
(***************************************************************************)
EXTENDS Naturals, Sequences, Functions

CONSTANTS
    Values,     \* identifier texts
    Lower,      \* Lower[v]: the text v with its ASCII letters in lower case
    Sources,    \* the identifiers the batch names savepoints by
    NoName,     \* the name of the frame a transaction block itself opens
    NoTx,       \* the transaction of a statement outside every block
    Misnamed,   \* whether the source may name a savepoint that is not there
    MaxLen      \* bound: statements in the batch

\* An identifier is its text and whether the source quotes it.
Idents == [value : Values, quoted : BOOLEAN]

\* Lower-casing is idempotent, and the two sentinels are no name and no number.
ASSUME NamesAssumption ==
    /\ Lower \in [Values -> Values]
    /\ \A v \in Values : Lower[Lower[v]] = Lower[v]
    /\ Sources \subseteq Idents
    /\ NoName \notin Idents
    /\ NoTx \notin Nat
    /\ Misnamed \in BOOLEAN
    /\ MaxLen \in Nat

VARIABLES
    refused,        \* analyse returned an error: nothing is translated
    blockOpen,      \* analyse: `open'
    outcomes,       \* Outline: one outcome per statement read
    transactions,   \* Outline: the transaction each statement ran in
    frames,         \* Outline: savepoint frames, innermost last
    pending,        \* Outline: statements of the open block, oldest first
    openTx,         \* Outline: `open', the transaction being read
    nextTx          \* Outline: `next', the next transaction number

outlineVars ==
    <<refused, blockOpen, outcomes, transactions, frames, pending, openTx, nextTx>>

Outcomes == {"Committed", "Undone", "Control"}

-----------------------------------------------------------------------------
(* Names.                                                                  *)

\* Fault: an unquoted name is not folded.
SameNameAsWritten(left, right) == left.value = right.value

\* Identifier equality as history/transactions.rs spells it, by quoting.
SameName(left, right) ==
    CASE ~left.quoted /\ ~right.quoted -> Lower[left.value] = Lower[right.value]
      [] ~left.quoted /\  right.quoted -> Lower[left.value] = right.value
      []  left.quoted /\ ~right.quoted -> left.value = Lower[right.value]
      [] OTHER                         -> left.value = right.value

\* The frames that answer to id, and the innermost of them.
Matching(id) ==
    {k \in DOMAIN frames : frames[k].name # NoName /\ SameName(frames[k].name, id)}

\* Fault: the outermost frame of that name is taken.
Outermost(id) == CHOOSE k \in Matching(id) : \A q \in Matching(id) : k <= q

Innermost(id) == CHOOSE k \in Matching(id) : \A q \in Matching(id) : q <= k

-----------------------------------------------------------------------------
(* Reading one statement.                                                  *)

OutlineInit ==
    /\ refused = FALSE
    /\ blockOpen = FALSE
    /\ outcomes = <<>>
    /\ transactions = <<>>
    /\ frames = <<>>
    /\ pending = <<>>
    /\ openTx = NoTx
    /\ nextTx = 0

Reading == ~refused /\ Len(outcomes) < MaxLen

\* The frame a transaction block opens.
BlockFrame == [name |-> NoName, start |-> 0]

\* A control statement is read: the statements in `settled' get `outcome'.
Settle(settled, outcome) ==
    /\ outcomes' = [i \in 1 .. Len(outcomes) + 1 |->
                      IF i = Len(outcomes) + 1 THEN "Control"
                      ELSE IF i \in settled THEN outcome ELSE outcomes[i]]
    /\ transactions' = Append(transactions, NoTx)

\* Fault: the end of a block leaves its transaction open.
LeaveBlockOpen == UNCHANGED <<openTx, nextTx>>

\* The outline enters a transaction block numbered nextTx, or is in none.
EnterBlock ==
    /\ openTx' = nextTx
    /\ nextTx' = nextTx + 1

LeaveBlock ==
    /\ openTx' = NoTx
    /\ UNCHANGED nextTx

\* A statement the first pass drops: a no-op the server warns about.
DropNoOp ==
    /\ Settle({}, "Control")
    /\ UNCHANGED <<refused, blockOpen, frames, pending, openTx, nextTx>>

\* The first pass refuses the batch.
Refuse ==
    /\ refused' = TRUE
    /\ UNCHANGED <<blockOpen, outcomes, transactions, frames, pending, openTx, nextTx>>

Begin ==
    /\ Reading
    /\ \/ blockOpen /\ DropNoOp
       \/ /\ ~blockOpen
          /\ blockOpen' = TRUE
          /\ Settle({}, "Control")
          /\ EnterBlock
          /\ frames' = Append(frames, BlockFrame)
          /\ UNCHANGED <<refused, pending>>

\* COMMIT or ROLLBACK of the block: `outcome' is what its statements get.
EndBlock(outcome, chain) ==
    /\ Reading
    /\ \/ ~blockOpen /\ chain /\ Refuse
       \/ ~blockOpen /\ ~chain /\ DropNoOp
       \/ /\ blockOpen
          /\ blockOpen' = chain
          /\ Settle(Range(pending), outcome)
          /\ pending' = <<>>
          /\ IF chain THEN EnterBlock ELSE LeaveBlock
          /\ frames' = IF chain THEN <<BlockFrame>> ELSE <<>>
          /\ UNCHANGED refused

Commit(chain) == EndBlock("Committed", chain)

\* Fault: a rolled back block keeps its statements.
RollbackKeeps(chain) == EndBlock("Committed", chain)

Rollback(chain) == EndBlock("Undone", chain)

Savepoint(id) ==
    /\ Reading
    /\ \/ ~blockOpen /\ Refuse
       \/ /\ blockOpen
          /\ Settle({}, "Control")
          /\ frames' = Append(frames, [name |-> id, start |-> Len(pending)])
          /\ UNCHANGED <<refused, blockOpen, pending, openTx, nextTx>>

\* A name no frame answers to changes nothing.
ReleaseSavepoint(id) ==
    /\ Reading
    /\ \/ ~blockOpen /\ Refuse
       \/ /\ blockOpen
          /\ Misnamed \/ Matching(id) # {}
          /\ Settle({}, "Control")
          /\ frames' = IF Matching(id) = {} THEN frames
                       ELSE SubSeq(frames, 1, Innermost(id) - 1)
          /\ UNCHANGED <<refused, blockOpen, pending, openTx, nextTx>>

\* The statements after the savepoint's start leave `pending' as undone.
RollbackTo(id) ==
    /\ Reading
    /\ \/ ~blockOpen /\ Refuse
       \/ /\ blockOpen
          /\ Misnamed \/ Matching(id) # {}
          /\ IF Matching(id) = {}
             THEN Settle({}, "Control") /\ UNCHANGED <<frames, pending>>
             ELSE LET start == frames[Innermost(id)].start
                  IN  /\ Settle({pending[j] : j \in start + 1 .. Len(pending)}, "Undone")
                      /\ pending' = SubSeq(pending, 1, start)
                      /\ frames' = SubSeq(frames, 1, Innermost(id))
          /\ UNCHANGED <<refused, blockOpen, openTx, nextTx>>

\* Any other statement.  Outside a block it is committed as it stands.
Run ==
    /\ Reading
    /\ outcomes' = Append(outcomes, "Committed")
    /\ transactions' = Append(transactions, openTx)
    /\ pending' = IF openTx # NoTx THEN Append(pending, Len(outcomes) + 1) ELSE pending
    /\ UNCHANGED <<refused, blockOpen, frames, openTx, nextTx>>

\* CREATE INDEX CONCURRENTLY: an ordinary statement outside a block only.
CreateIndexConcurrently ==
    \/ ~blockOpen /\ Run
    \/ Reading /\ blockOpen /\ Refuse

OutlineNext ==
    \/ Begin
    \/ Run
    \/ CreateIndexConcurrently
    \/ \E chain \in BOOLEAN : Commit(chain) \/ Rollback(chain)
    \/ \E id \in Sources : Savepoint(id) \/ ReleaseSavepoint(id) \/ RollbackTo(id)

OutlineSpec == OutlineInit /\ [][OutlineNext]_outlineVars

-----------------------------------------------------------------------------
(* What the finished outline answers if the batch ends here.               *)

\* Statements still pending when the batch ends are undone.
Outcome(i) == IF i \in Range(pending) THEN "Undone" ELSE outcomes[i]

CommittedSet == {i \in DOMAIN outcomes : Outcome(i) = "Committed"}

\* Statements whose effects the connection sees now.
VisibleSet == {i \in DOMAIN outcomes : outcomes[i] = "Committed"}

-----------------------------------------------------------------------------
(* The outline implements the server.                                      *)

\* The server folds an unquoted identifier and takes a quoted one as it is.
ServerFold == [id \in Idents |-> IF id.quoted THEN id.value ELSE Lower[id.value]]

\* The savepoints the frames stand for: every frame but the block's own.
FrameMarks ==
    [k \in 1 .. (IF frames = <<>> THEN 0 ELSE Len(frames) - 1) |->
        [name |-> ServerFold[frames[k + 1].name],
         kept |-> CommittedSet \cup {pending[j] : j \in 1 .. frames[k + 1].start}]]

Server == INSTANCE ServerTransactions
    WITH Fold    <- ServerFold,
         clock   <- Len(outcomes),
         active  <- blockOpen,
         working <- VisibleSet,
         durable <- CommittedSet,
         marks   <- FrameMarks

-----------------------------------------------------------------------------
(* Properties.                                                             *)

OutlineTypeOK ==
    /\ refused \in BOOLEAN
    /\ blockOpen \in BOOLEAN
    /\ outcomes \in Seq(Outcomes)
    /\ transactions \in Seq(Nat \cup {NoTx})
    /\ Len(transactions) = Len(outcomes)
    /\ frames \in Seq([name : Idents \cup {NoName}, start : Nat])
    /\ pending \in Seq(Nat \ {0})
    /\ openTx \in Nat \cup {NoTx}
    /\ nextTx \in Nat

\* The two passes agree on whether a block is open, and the frame stack is
\* empty exactly outside a block (transaction_blocks.rs analyse against
\* transactions.rs Outline::new, which never checks `open' itself).
PassesAgree ==
    /\ blockOpen <=> openTx # NoTx
    /\ blockOpen <=> frames # <<>>
    /\ ~blockOpen => pending = <<>>

\* Every savepoint frame points into `pending': draining from its start
\* (Outline::new, ROLLBACK TO) can never run past the end, and an inner
\* frame never starts before an outer one.
FramesNest ==
    /\ \A k \in DOMAIN frames : frames[k].start <= Len(pending)
    /\ \A k, q \in DOMAIN frames : k <= q => frames[k].start <= frames[q].start

\* The open block's statements are statements already read, oldest first, all
\* still visible, and only the block's own frame has no name (what the indices
\* in `pending' and the frame stack of Outline::new stand for).
PendingIsTheBlock ==
    /\ \A j \in DOMAIN pending :
          /\ pending[j] \in DOMAIN outcomes
          /\ outcomes[pending[j]] = "Committed"
    /\ \A j, k \in DOMAIN pending : j < k => pending[j] < pending[k]
    /\ \A k \in DOMAIN frames : frames[k].name = NoName <=> k = 1

\* What an iteration of both loops preserves.
OutlineInv == OutlineTypeOK /\ PassesAgree /\ FramesNest /\ PendingIsTheBlock

\* The statements read outside a rollback are exactly the ones the server
\* keeps: the outline implements the server's transaction semantics, so that
\* "the statements that survive are exactly the ones the batch commits".
ImplementsServer == Server!ServerSpec

\* Each statement the passes let through does to the outline what that very
\* statement, with its own name and its own AND CHAIN, does to the server.
\* The refinement alone would let a ROLLBACK TO of one savepoint pass for a
\* ROLLBACK TO of another (transactions.rs innermost and same_name).
SameStatement ==
    ~refused' =>
        /\ Begin => Server!ServerBegin
        /\ Run => Server!ServerRun
        /\ \A chain \in BOOLEAN :
              /\ Commit(chain) =>
                    IF blockOpen THEN Server!ServerCommit(chain) ELSE Server!ServerIdleEnd
              /\ Rollback(chain) =>
                    IF blockOpen THEN Server!ServerRollback(chain) ELSE Server!ServerIdleEnd
        /\ \A id \in Sources :
              /\ Savepoint(id) => Server!ServerSavepoint(id)
              /\ ReleaseSavepoint(id) => Server!ServerRelease(id)
              /\ RollbackTo(id) => Server!ServerRollbackTo(id)

StatementByStatement == [][SameStatement]_outlineVars
=============================================================================
