---------------------------- MODULE TriggerBody ----------------------------
(***************************************************************************)
(* The body of a PL/pgSQL trigger function as straight-line SQLite.        *)
(*                                                                         *)
(* A SQLite trigger body has no variables, no IF and no RETURN.  The       *)
(* translator keeps an assignment as the text of its expression and pastes *)
(* it where the variable is read; an IF becomes one guard per statement of *)
(* its branches, evaluated where that statement stands; what a branch      *)
(* assigned is bound to a CASE after the IF; RETURN NULL becomes           *)
(* RAISE(IGNORE).  The module runs both programs on one row and compares   *)
(* what they write.                                                        *)
(*                                                                         *)
(* Values are numbers, with Null apart.  A write logs its kind and value.  *)
(* Subqueries in assignments (SELECT INTO), UUID sharing between INSERTs   *)
(* and WITH inside the body are left out.                                  *)
(***************************************************************************)
EXTENDS Naturals, Sequences, SequencesExt, TLC

CONSTANTS
    Bodies,       \* statement sequences to translate
    Rows,         \* values of NEW.x
    Declared,     \* the variables of the DECLARE section, each with its default
    Events        \* the events of the trigger, a set of names

VARIABLE body     \* the body being translated

Null == 99        \* SQL NULL
NoBody == <<[do |-> "idle"]>>

\* Expressions: a constant, NEW.x, a variable, and CASE as the translator
\* writes it.  Conditions: an equality, and whether the log holds a row.
Const(c) == [op |-> "const", value |-> c]
Column == [op |-> "column"]
Var(v) == [op |-> "var", name |-> v]
Case(c, t, e) == [op |-> "case", cond |-> c, then |-> t, else |-> e]
Is(e, c) == [op |-> "is", arg |-> e, value |-> c]
Seen == [op |-> "seen"]
TgOp(event) == [op |-> "tg_op", event |-> event]

Assign(v, e) == [do |-> "set", var |-> v, expr |-> e]
Insert(e) == [do |-> "insert", expr |-> e]
Update(e) == [do |-> "update", expr |-> e]
ReturnNew == [do |-> "return"]
ReturnNull == [do |-> "veto"]
\* branches: <<condition, statements>> pairs; an ELSE has the condition Else.
If(branches) == [do |-> "if", branches |-> branches]
Else == [op |-> "else"]

----------------------------------------------------------------------------
(* Three-valued conditions and CASE, the same on both engines (external)   *)

RECURSIVE Value(_, _, _), Truth(_, _, _, _)
\* vars holds what a variable reads, at run time on the server; the emitted
\* expressions have none left.
Value(e, x, vars) ==
    CASE e.op = "const" -> e.value
      [] e.op = "column" -> x
      [] e.op = "var" -> vars[e.name]
      [] e.op = "case" -> IF Truth(e.cond, x, vars, <<>>) = 1
                          THEN Value(e.then, x, vars) ELSE Value(e.else, x, vars)

Truth(c, x, vars, log) ==
    CASE c.op = "is" -> LET v == Value(c.arg, x, vars)
                        IN  IF v = Null THEN Null ELSE IF v = c.value THEN 1 ELSE 0
      [] c.op = "seen" -> IF log = <<>> THEN 0 ELSE 1
      [] c.op = "tg_op" -> IF c.event \in Events THEN 1 ELSE 0
      [] c.op = "else" -> 1

----------------------------------------------------------------------------
(* The server runs the body (external)                                     *)

RECURSIVE Run(_, _, _)
RunOne(s, st, x) ==
    CASE st.done -> st
      [] s.do = "set" -> [st EXCEPT !.vars[s.var] = Value(s.expr, x, st.vars)]
      [] s.do \in {"insert", "update"} ->
             [st EXCEPT !.log = Append(@, <<s.do, Value(s.expr, x, st.vars)>>)]
      [] s.do = "return" -> [st EXCEPT !.done = TRUE]
      [] s.do = "veto" -> [st EXCEPT !.done = TRUE, !.vetoed = TRUE]
      [] s.do = "if" ->
             LET taken == {i \in DOMAIN s.branches :
                             Truth(s.branches[i][1], x, st.vars, st.log) = 1}
             IN  IF taken = {} THEN st
                 ELSE Run(s.branches[CHOOSE i \in taken : \A j \in taken : i <= j][2], st, x)
Run(stmts, st, x) ==
    FoldLeft(LAMBDA acc, s : RunOne(s, acc, x), st, stmts)

ServerOutcome(stmts, x) ==
    LET end == Run(stmts, [vars |-> Declared, log |-> <<>>, done |-> FALSE, vetoed |-> FALSE], x)
    IN  [log |-> end.log, vetoed |-> end.vetoed, failed |-> FALSE]

----------------------------------------------------------------------------
(* Pasting bindings                                                        *)

RECURSIVE Reads(_)
\* references_variable: the variables an expression or a condition names.
Reads(e) ==
    CASE e.op = "var" -> {e.name}
      [] e.op = "is" -> Reads(e.arg)
      [] e.op = "case" -> Reads(e.cond) \cup Reads(e.then) \cup Reads(e.else)
      [] OTHER -> {}

RECURSIVE SubstituteVariables(_, _)
\* VariableSubstituter: post-order, so a replacement is not walked again.
SubstituteVariables(e, scope) ==
    CASE e.op = "var" -> IF e.name \in DOMAIN scope THEN scope[e.name] ELSE e
      [] e.op = "is" -> [e EXCEPT !.arg = SubstituteVariables(@, scope)]
      [] e.op = "case" -> Case(SubstituteVariables(e.cond, scope),
                               SubstituteVariables(e.then, scope),
                               SubstituteVariables(e.else, scope))
      [] OTHER -> e

RECURSIVE OrderBindings(_, _)
\* order_bindings_by_dependency: repeatedly the first binding that names no
\* other pending one; when there is none the rest follow as they are.
OrderBindings(bindings, pending) ==
    LET ready == {n \in pending : Reads(bindings[n]) \cap (pending \ {n}) = {}}
    IN  IF pending = {} THEN <<>>
        ELSE IF ready = {} THEN SetToSeq(pending)
        ELSE LET n == CHOOSE n \in ready : TRUE
             IN  <<n>> \o OrderBindings(bindings, pending \ {n})

\* bound_values: every binding with the ones before it pasted in.
BoundValues(bindings) ==
    FoldLeft(LAMBDA scope, n : (n :> SubstituteVariables(bindings[n], scope)) @@ scope,
             <<>>, OrderBindings(bindings, DOMAIN bindings))

\* null_unbound_declarations: what is declared and bound nowhere reads NULL.
NullUnbound(e, bindings) ==
    SubstituteVariables(e, [v \in DOMAIN Declared \ DOMAIN bindings |-> Const(Null)])

\* fold_trigger_specials: TG_OP is a constant for a trigger of one event.
FoldsTrigger(c) == c.op # "tg_op" \/ \A e \in Events, f \in Events : e = f

----------------------------------------------------------------------------
(* The translation: a context goes through the body.  bindings: what is    *)
(* assigned on this path; guard: the conditions around it, each with the   *)
(* truth it must have; out: emitted statements; refused: an error.         *)

\* inject_condition_into_statement: an UPDATE carries the guard as it stands.
EmitUpdate(ctx, e) ==
    [kind |-> "update", guard |-> ctx.guard,
     value |-> SubstituteVariables(e, BoundValues(ctx.bindings))]

\* translate_insert_statement: with nothing bound and no guard the statement
\* goes out as it is; else the guard is in the SELECT and is pasted into too.
EmitInsert(ctx, e) ==
    LET Paste(p) == NullUnbound(SubstituteVariables(p, BoundValues(ctx.bindings)), ctx.bindings)
        plain == ctx.bindings = <<>> /\ ctx.guard = <<>>
    IN  [kind |-> "insert",
         guard |-> [i \in DOMAIN ctx.guard |-> <<Paste(ctx.guard[i][1]), ctx.guard[i][2]>>],
         value |-> IF plain THEN e ELSE Paste(e)]

\* translate_plpgsql_condition: bindings pasted where the IF stands.
TranslateCondition(c, ctx) == SubstituteVariables(c, BoundValues(ctx.bindings))

\* Fault: an ELSIF or ELSE is not guarded by the conditions before it.
BranchGuardAlone(before, c) == IF c.op = "else" THEN <<>> ELSE <<<<c, TRUE>>>>

\* NOT (c1) AND NOT (c2) AND (c), without the last for ELSE.
BranchGuard(before, c) ==
    [i \in DOMAIN before |-> <<before[i], FALSE>>]
        \o IF c.op = "else" THEN <<>> ELSE <<<<c, TRUE>>>>

\* bind_branch_assignments: a CASE over the branches that assign the name,
\* on the source's own conditions; ELSE replaces the enclosing value.
BranchBinding(name, outer, branches, made) ==
    LET arms == {i \in DOMAIN branches : name \in DOMAIN made[i] /\ branches[i][1].op # "else"}
        last == {i \in DOMAIN branches : name \in DOMAIN made[i] /\ branches[i][1].op = "else"}
        otherwise == IF last # {} THEN made[CHOOSE i \in last : TRUE][name]
                     ELSE IF name \in DOMAIN outer THEN outer[name] ELSE Const(Null)
    IN  FoldRight(LAMBDA i, rest : Case(branches[i][1], made[i][name], rest),
                  SetToSortSeq(arms, <), otherwise)

\* CASE with no WHEN does not parse when it is read.
EmptyCase(name, branches, made) ==
    ~ \E i \in DOMAIN branches : name \in DOMAIN made[i] /\ branches[i][1].op # "else"

RECURSIVE Translate(_, _)

\* A branch: its guard on the stack, the enclosing assignments restored.
TranslateBranch(ctx, outer, guard, stmts) ==
    Translate([ctx EXCEPT !.guard = guard, !.bindings = outer], stmts)

\* translate_if_statement
TranslateIf(ctx, branches) ==
    LET outer == ctx.bindings
        conds == [i \in DOMAIN branches |-> TranslateCondition(branches[i][1], ctx)]
        through == FoldLeft(
            LAMBDA acc, i :
                LET end == TranslateBranch(acc.ctx, outer,
                                ctx.guard \o BranchGuard(SubSeq(conds, 1, i - 1), conds[i]),
                                branches[i][2])
                IN  [ctx |-> end,
                     made |-> Append(acc.made, [n \in {n \in DOMAIN end.bindings :
                                  n \notin DOMAIN outer \/ end.bindings[n] # outer[n]} |->
                                  end.bindings[n]])],
            [ctx |-> ctx, made |-> <<>>], [i \in DOMAIN branches |-> i])
        names == UNION {DOMAIN through.made[i] : i \in DOMAIN branches}
    IN  [through.ctx EXCEPT
            !.guard = ctx.guard,
            !.bindings = [n \in names |-> BranchBinding(n, outer, branches, through.made)] @@ outer,
            !.refused = @ \/ (\E n \in names : EmptyCase(n, branches, through.made))
                          \/ \E i \in DOMAIN branches : ~ FoldsTrigger(branches[i][1])]

\* translate_statement: one arm per kind.
TranslateStatement(ctx, s) ==
    CASE s.do = "set" -> [ctx EXCEPT !.bindings = (s.var :> s.expr) @@ @]
      [] s.do = "insert" -> [ctx EXCEPT !.out = Append(@, EmitInsert(ctx, s.expr))]
      [] s.do = "update" -> [ctx EXCEPT !.out = Append(@, EmitUpdate(ctx, s.expr))]
      [] s.do = "return" -> ctx
      [] s.do = "veto" -> [ctx EXCEPT !.out = Append(@, [kind |-> "raise", guard |-> ctx.guard,
                                                         value |-> Const(Null)])]
      [] s.do = "if" -> TranslateIf(ctx, s.branches)

Translate(ctx, stmts) == FoldLeft(TranslateStatement, ctx, stmts)

\* translate_with_context: seed_default_bindings, then the statements in order.
TranslateBody(stmts) ==
    LET defaults == {v \in DOMAIN Declared : Declared[v] # Null}
    IN  Translate([bindings |-> [v \in defaults |-> Const(Declared[v])], guard |-> <<>>,
                   out |-> <<>>, refused |-> FALSE], stmts)

----------------------------------------------------------------------------
(* SQLite runs the emitted body (external).  A name left over is a column  *)
(* of no table: preparing the trigger program fails.                       *)

Unresolved(t) == Reads(t.value) # {} \/ \E i \in DOMAIN t.guard : Reads(t.guard[i][1]) # {}

GuardHolds(guard, x, log) ==
    \A i \in DOMAIN guard : Truth(guard[i][1], x, <<>>, log) = IF guard[i][2] THEN 1 ELSE 0

ReplicaOutcome(out, x) ==
    LET Step(st, t) ==
            CASE st.vetoed \/ ~ GuardHolds(t.guard, x, st.log) -> st
              [] t.kind = "raise" -> [st EXCEPT !.vetoed = TRUE]
              [] OTHER -> [st EXCEPT !.log = Append(@, <<t.kind, Value(t.value, x, <<>>)>>)]
        none == [log |-> <<>>, vetoed |-> FALSE, failed |-> FALSE]
    IN  IF \E i \in DOMAIN out : Unresolved(out[i]) THEN [none EXCEPT !.failed = TRUE]
        ELSE FoldLeft(Step, none, out)

----------------------------------------------------------------------------
(* The bodies the translation is for                                       *)

RECURSIVE Flat(_)
\* The statements in text order, an IF standing before its branches.
Flat(stmts) ==
    FoldLeft(LAMBDA acc, s :
                acc \o <<s>> \o IF s.do # "if" THEN <<>>
                                ELSE FoldLeft(LAMBDA a, b : a \o Flat(b[2]), <<>>, s.branches),
             <<>>, stmts)

Ifs(stmts) == {s \in Range(Flat(stmts)) : s.do = "if"}
Assigned(stmts) == {s.var : s \in {s \in Range(Flat(stmts)) : s.do = "set"}}

\* Text is pasted late, so nothing an assignment or a condition reads may be
\* assigned there or further down.
NothingReadIsReassigned(stmts) ==
    LET flat == Flat(stmts)
    IN  \A i \in DOMAIN flat, j \in DOMAIN flat :
            /\ i <= j /\ flat[j].do = "set"
            => CASE flat[i].do = "set" -> flat[j].var \notin Reads(flat[i].expr)
                 [] flat[i].do = "if" -> \A b \in Range(flat[i].branches) : flat[j].var \notin Reads(b[1])
                 [] OTHER -> TRUE

\* An assigning branch of an IF has only assigning branches before it.
BranchesAssignAlike(stmts) ==
    \A s \in Ifs(stmts) : \A i \in DOMAIN s.branches :
        \A v \in Assigned(s.branches[i][2]) :
        /\ \A j \in 1..(i - 1) : v \in Assigned(s.branches[j][2])
        /\ i = 1 => s.branches[i][1].op # "else"

\* A branch that repeats the text of the enclosing assignment counts as one
\* that does not assign.
NothingIsAssignedTwice(stmts) ==
    \A s \in Ifs(stmts) : \A t \in Range(Flat(<<s>>)) : t.do = "set" =>
        /\ t.expr # Const(Declared[t.var])
        /\ t \notin Range(stmts)

\* Guards are evaluated again at every statement, so a condition on what the
\* body writes may guard one write and no assignment.
GuardsStayTrue(stmts) ==
    \A s \in Ifs(stmts) :
        (\E b \in Range(s.branches) : b[1].op = "seen") =>
            /\ Assigned(<<s>>) = {}
            /\ Len(SelectSeq(Flat(<<s>>), LAMBDA t : t.do # "if")) <= 1

\* NOT of an unknown condition is unknown: with several branches every
\* condition is known on the row.
ConditionsAreKnown(stmts, x) ==
    \A s \in Ifs(stmts) : Len(s.branches) > 1 =>
        \A b \in Range(s.branches) : b[1].op = "is" => x # Null /\ b[1].arg.op = "column"

\* RETURN NEW ends the body; variables have a value before they are read.
EndsAtReturn(stmts) ==
    \A i \in DOMAIN Flat(stmts) : Flat(stmts)[i].do = "return" => i = Len(Flat(stmts)) /\ stmts[Len(stmts)].do = "return"

Expressible(stmts, x) ==
    /\ NothingReadIsReassigned(stmts)
    /\ BranchesAssignAlike(stmts)
    /\ NothingIsAssignedTwice(stmts)
    /\ GuardsStayTrue(stmts)
    /\ ConditionsAreKnown(stmts, x)
    /\ EndsAtReturn(stmts)

BodyInit == body = NoBody
TranslateTrigger == \E b \in Bodies : body' = b

\* An accepted body writes on SQLite what it writes on the server, row for row
\* and in the same order, and cancels the same writes, for every body in which
\* pasted text and repeated guards cannot be told from variables and IF.
BodyRunsAsWritten ==
    body # NoBody =>
        LET t == TranslateBody(body)
        IN  t.refused \/ \A x \in Rows :
                Expressible(body, x) => ReplicaOutcome(t.out, x) = ServerOutcome(body, x)
=============================================================================
