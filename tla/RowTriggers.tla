---------------------------- MODULE RowTriggers ----------------------------
(***************************************************************************)
(* A trigger of the source as triggers of SQLite.                          *)
(*                                                                         *)
(* A BEFORE row trigger of PostgreSQL may assign to NEW; SQLite has no     *)
(* such thing.  CreateTrigger::translate tells these maintenance triggers  *)
(* apart, composes their assignments into one UPDATE of the stored row,    *)
(* moves them AFTER the write, splits the INSERT event from the rest and   *)
(* guards the UPDATE half against firing on its own write.  The module     *)
(* applies one INSERT or UPDATE of one row on both sides.                  *)
(*                                                                         *)
(* A maintained value is a constant or a column plus a constant, modulo    *)
(* Base.  The trigger's own WHEN is absent, compares a column of NEW with  *)
(* a constant, or a column of OLD with NEW.  The connection has            *)
(* recursive_triggers on or off.  The table has no other trigger.          *)
(***************************************************************************)
EXTENDS Naturals, Sequences, SequencesExt, TLC

CONSTANTS
    Base,         \* values are 0 .. Base - 1
    Maintained,   \* the columns a trigger may assign to
    MaxTriggerDepth, \* triggers nested this deep fail the statement
    Triggers      \* triggers to translate

ASSUME BaseAssumption == Base \in Nat \ {0} /\ MaxTriggerDepth \in Nat

VARIABLE firing   \* a trigger and the write it sees

Values == 0..(Base - 1)
RowColumns == {"key", "a"} \cup Maintained
TableRows == {row \in [RowColumns -> Values] : row["key"] < 2}   \* two keys

\* An assignment reads one column of NEW, or none, and adds a constant.
Expr(reads, plus) == [reads |-> reads, plus |-> plus]
Eval(e, row) == ((IF e.reads = "none" THEN 0 ELSE row[e.reads]) + e.plus) % Base

NoWhen == [kind |-> "always"]
WhenHolds(when, old, new) ==
    CASE when.kind = "new is" -> new[when.column] = when.value
      [] when.kind = "changed" -> old[when.column] # new[when.column]
      [] OTHER -> TRUE

NoFiring == [trigger |-> [events |-> {}, period |-> "none", rows |-> "none", transition |-> FALSE, when |-> NoWhen, chain |-> <<>>],
             old |-> [c \in RowColumns |-> 0], new |-> [c \in RowColumns |-> 0], event |-> "none", recursive |-> FALSE]

----------------------------------------------------------------------------
(* The server: assignments one after the other on NEW, before the write    *)
(* (external)                                                              *)

ChainApplied(chain, row) == FoldLeft(LAMBDA r, a : [r EXCEPT ![a.column] = Eval(a.expr, r)], row, chain)
ServerRow(trigger, old, new) == IF WhenHolds(trigger.when, old, new) THEN ChainApplied(trigger.chain, new) ELSE new

----------------------------------------------------------------------------
(* The translation                                                         *)

\* The refusals that come first: TRUNCATE, everything that is not FOR EACH
\* ROW, and a transition table.
RefusedTrigger(trigger) == "TRUNCATE" \in trigger.events \/ trigger.rows # "row" \/ trigger.transition

\* compose_assignment_refs: a column assigned earlier stands for the value of
\* its last assignment.
ComposeAssignmentRefs(e, assigned) ==
    LET earlier == {i \in DOMAIN assigned : assigned[i].column = e.reads}
    IN  IF earlier = {} THEN e
        ELSE LET value == assigned[CHOOSE i \in earlier : \A j \in earlier : j <= i].expr
             IN  Expr(value.reads, (value.plus + e.plus) % Base)

\* maintenance_chain: the assignments in order, each composed with those before.
MaintenanceChain(trigger) ==
    FoldLeft(LAMBDA assigned, a :
                Append(assigned, [a EXCEPT !.expr = ComposeAssignmentRefs(@, assigned)]),
             <<>>, trigger.chain)

\* generate_maintenance_trigger_body: one UPDATE of the row with this rowid;
\* of two assignments to one column SQLite takes the last.
MaintenanceUpdate(trigger, new, stored) ==
    FoldLeft(LAMBDA row, a : [row EXCEPT ![a.column] = Eval(a.expr, new)],
             stored, MaintenanceChain(trigger))

\* Fault: nothing keeps the trigger from firing on its own write.
NoRecursionGuard(trigger, old, new) == TRUE

\* build_maintenance_recursion_when_clause: some maintained column is not what
\* the chain makes of OLD.
RecursionGuard(trigger, old, new) ==
    \E i \in DOMAIN trigger.chain :
        LET a == MaintenanceChain(trigger)[i] IN new[a.column] # Eval(a.expr, old)

\* The period: BEFORE becomes AFTER for INSERT, where there is no row yet, and
\* for UPDATE, whose write would come last.
Period(trigger) ==
    IF trigger.events \cap {"INSERT", "UPDATE"} # {} /\ trigger.period = "before"
    THEN "after" ELSE trigger.period

\* split_before_insert_maintenance_trigger: the INSERT event apart from the
\* others, which are emitted first.
Split(trigger) ==
    IF trigger.period = "before" /\ "INSERT" \in trigger.events /\ trigger.events # {"INSERT"}
    THEN <<[trigger EXCEPT !.events = @ \ {"INSERT"}], [trigger EXCEPT !.events = {"INSERT"}]>>
    ELSE <<trigger>>

\* CreateTrigger::translate: what each half is emitted as.  The row is found
\* by NEW.rowid when the half has the INSERT event and by OLD.rowid else.  The
\* guard is joined to the trigger's own WHEN (merge_conditions).
Emit(half) ==
    [period |-> Period(half), events |-> half.events, chain |-> half.chain, when |-> half.when,
     finds |-> IF "INSERT" \in half.events THEN "new" ELSE "old",
     guarded |-> "UPDATE" \in half.events]

Emitted(trigger) == [i \in DOMAIN Split(trigger) |-> Emit(Split(trigger)[i])]

----------------------------------------------------------------------------
(* SQLite fires the emitted triggers (external)                            *)

FiresOn(t, event, old, new) ==
    event \in t.events /\ WhenHolds(t.when, old, new) /\ (t.guarded => RecursionGuard(t, old, new))

StatementFails == [failed |-> TRUE]

\* The row after the AFTER triggers of a write, and those of their writes.
\* With recursive_triggers off a trigger does not fire while it is active; the
\* other half does.  The UPDATE finds the row unless the key moved away from
\* it.  A BEFORE trigger would find no row (INSERT), or one about to be
\* overwritten.
RECURSIVE AfterWrite(_, _, _, _, _, _)
AfterWrite(triggers, recursive, event, old, new, active) ==
    LET due == {i \in DOMAIN triggers :
                    /\ triggers[i].period = "after"
                    /\ recursive \/ i \notin Range(active)
                    /\ FiresOn(triggers[i], event, old, new)}
    IN  IF due = {} THEN new
        ELSE LET i == CHOOSE i \in due : TRUE
                 t == triggers[i]
                 found == t.finds = "new" \/ old["key"] = new["key"]
             IN  CASE Len(active) = MaxTriggerDepth -> StatementFails
                   [] ~ found -> new
                   [] OTHER -> AfterWrite(triggers, recursive, "UPDATE", new, MaintenanceUpdate(t, new, new), Append(active, i))

ReplicaRow(f) == AfterWrite(Emitted(f.trigger), f.recursive, f.event, f.old, f.new, <<>>)

----------------------------------------------------------------------------
FiringInit == firing = NoFiring

WriteRow ==
    \E t \in Triggers, event \in {"INSERT", "UPDATE"}, old, new \in TableRows, recursive \in BOOLEAN :
        /\ ~ RefusedTrigger(t)
        /\ event \in t.events
        /\ IF event = "INSERT" THEN old = NoFiring.old ELSE old["key"] = 0
        /\ firing' = [trigger |-> t, old |-> old, new |-> new, event |-> event, recursive |-> recursive]

\* The row written already has the values the chain makes of the old row,
\* which the guard takes for the trigger's own write.
LooksMaintained(f) ==
    /\ f.event = "UPDATE"
    /\ \A i \in DOMAIN f.trigger.chain :
          LET c == f.trigger.chain[i].column IN f.new[c] = ChainApplied(SubSeq(f.trigger.chain, 1, i), f.old)[c]

\* The guard compares with every assignment, so a column assigned twice always
\* differs from one of the two: the UPDATE half fires on any write of either
\* half, and without end on its own.
AssignsOnce(f) ==
    \A i, j \in DOMAIN f.trigger.chain :
        f.trigger.chain[i].column = f.trigger.chain[j].column => i = j
FiresUnguarded(f) ==
    ~ AssignsOnce(f) /\ "UPDATE" \in f.trigger.events /\ (f.recursive \/ f.event = "INSERT")

\* An UPDATE of the key: the emitted UPDATE looks for the old one.
MovesKey(f) == f.event = "UPDATE" /\ f.old["key"] # f.new["key"]

\* With recursive triggers on or off, a row has the maintained values the
\* server gives it after any INSERT, and after any UPDATE that keeps the key;
\* no trigger maintains its own write. An UPDATE that moves the key, or that
\* happens to write what the chain makes of the old row, is stored as written.
\* Excluded is a trigger of UPDATE that assigns a column twice.
MaintainedAlike ==
    firing # NoFiring /\ ~ FiresUnguarded(firing)
    => ReplicaRow(firing) = IF LooksMaintained(firing) \/ MovesKey(firing) THEN firing.new
                            ELSE ServerRow(firing.trigger, firing.old, firing.new)
=============================================================================
