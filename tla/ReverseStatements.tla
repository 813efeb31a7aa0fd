------------------------- MODULE ReverseStatements -------------------------
(***************************************************************************)
(* The outer pass of reverse translation, from a statement the replica     *)
(* runs to one the server can: the guard that refuses any reference to a   *)
(* row-security backing table, with the CTE names in scope taken into      *)
(* account, the qualification of bare columns in DO UPDATE, and the        *)
(* renumbering of bind placeholders.  A query is                           *)
(*   [with, recursive, refs, subs]: its CTEs in order, the relations its   *)
(* body names and the queries nested in it.                                *)
(***************************************************************************)
EXTENDS Naturals, Sequences, FiniteSets, FiniteSetsExt, SequencesExt

CONSTANTS GuardSchemas,   \* sets of tables [name, secured]
          GuardQueries,   \* queries put to the guard
          PlaceholderSeqs,  \* placeholders in source order: 0 is "?", n is "?n"
          ConflictCells   \* column references of a DO UPDATE

VARIABLE reversing

----------------------------------------------------------------------------
\* An identifier is a spelling, [stem, suffixes, caps], and whether it is
\* delimited; suffixes counts the row-security suffixes the name ends with.
SameName(a, b) == a.stem = b.stem /\ a.suffixes = b.suffixes
FoldIdent(i) == IF i.quoted THEN i.value ELSE [i.value EXCEPT !.caps = FALSE]
IdentifiersMatch(a, b) == FoldIdent(a) = FoldIdent(b)

Physical(t) == IF t.secured THEN [t.name EXCEPT !.suffixes = @ + 1] ELSE t.name
BackingNames(schema) == {Physical(t) : t \in {u \in schema : Physical(u) # u.name}}
DeclaredNames(schema) == {t.name : t \in schema}

NameRefused(schema, name) ==
    \/ \E b \in BackingNames(schema) : SameName(b, name)
    \/ name.suffixes > 0 /\ ~\E d \in DeclaredNames(schema) : SameName(d, name)

----------------------------------------------------------------------------
\* A scope is [aliases, visible]; scopes run from the outermost in.
\* CteBinding is "absent", "shadowed" or "sqlite_only".
CtesNamed(scopes, ref) ==
    {<<s, i>> \in (DOMAIN scopes) \X (1..3) :
        /\ i <= scopes[s].visible
        /\ SameName(scopes[s].aliases[i].value, ref.value)}
CteBinding(scopes, ref) ==
    LET found == CtesNamed(scopes, ref)
        depth == Max({p[1] : p \in found})
        first == Min({p[2] : p \in {q \in found : q[1] = depth}})
    IN IF found = {} THEN "absent"
       ELSE IF IdentifiersMatch(scopes[depth].aliases[first], ref) THEN "shadowed" ELSE "sqlite_only"

RelationRefusal(schema, scopes, ref) == CteBinding(scopes, ref) # "shadowed" /\ NameRefused(schema, ref.value)

\* Fault: the bodies of a WITH list see every name of the list.
BodyScopesWhole(q, scopes, i) ==
    Append(scopes, [aliases |-> [k \in DOMAIN q.with |-> q.with[k].alias], visible |-> Len(q.with)])

\* The body of a CTE sees the names before its own, and its own when the list
\* is recursive; the query's body and its other subqueries see the whole list.
BodyScopes(q, scopes, i) ==
    Append(scopes, [aliases |-> [k \in DOMAIN q.with |-> q.with[k].alias],
                    visible |-> i - 1 + (IF q.recursive THEN 1 ELSE 0)])
OwnScopes(q, scopes) ==
    Append(scopes, [aliases |-> [k \in DOMAIN q.with |-> q.with[k].alias], visible |-> Len(q.with)])

RECURSIVE WalkRefuses(_, _, _)
WalkRefuses(schema, q, scopes) ==
    \/ \E r \in q.refs : RelationRefusal(schema, OwnScopes(q, scopes), r)
    \/ \E i \in DOMAIN q.with : WalkRefuses(schema, q.with[i].body, BodyScopes(q, scopes, i))
    \/ \E s \in q.subs : WalkRefuses(schema, s, OwnScopes(q, scopes))

\* INSERT names its target outside any WITH; the other statements name every
\* relation inside the walk.
CheckStatement(schema, s) ==
    /\ \A t \in s.targets : ~NameRefused(schema, t.value)
    /\ ~WalkRefuses(schema, s.query, <<>>)

----------------------------------------------------------------------------
\* What the two databases read.  PostgreSQL folds a name that is not delimited,
\* shows a body the names before it, or the whole list when it is recursive.
\* SQLite compares without case and shows every body the whole list.
\* Readings are <<depth, position>> of a CTE, or <<>> for a table.
Innermost(found) ==
    IF found = {} THEN <<>>
    ELSE LET depth == Max({p[1] : p \in found})
         IN <<depth, Min({p[2] : p \in {q \in found : q[1] = depth}})>>
ServerBinds(scopes, ref) ==
    Innermost({p \in (DOMAIN scopes) \X (1..3) :
        p[2] <= scopes[p[1]].server /\ IdentifiersMatch(scopes[p[1]].aliases[p[2]], ref)})
SqliteBinds(scopes, ref) ==
    Innermost({p \in (DOMAIN scopes) \X (1..3) :
        p[2] <= Len(scopes[p[1]].aliases) /\ SameName(scopes[p[1]].aliases[p[2]].value, ref.value)})

\* Every reference of a query with what each database reads and whether it
\* stands before the name it reads in its own WITH list.
RECURSIVE Readings(_, _)
Readings(q, scopes) ==
    LET aliases == [k \in DOMAIN q.with |-> q.with[k].alias]
        at(n, textual) == Append(scopes, [aliases |-> aliases, server |-> n, textual |-> textual])
        all == at(Len(q.with), Len(q.with))
        ofRef(r) == LET sqlite == SqliteBinds(all, r)
                    IN [ref |-> r, server |-> ServerBinds(all, r), sqlite |-> sqlite,
                        forward |-> sqlite # <<>> /\ sqlite[2] > all[sqlite[1]].textual]
        body(i) == at(IF q.recursive THEN Len(q.with) ELSE i - 1, i - 1 + (IF q.recursive THEN 1 ELSE 0))
    IN {ofRef(r) : r \in q.refs}
         \cup UNION {Readings(q.with[i].body, body(i)) : i \in DOMAIN q.with}
         \cup UNION {Readings(s, all) : s \in q.subs}

ReadsBacking(schema, reading) ==
    /\ \E b \in BackingNames(schema) : SameName(b, reading.ref.value)
    /\ reading.server = <<>> \/ reading.sqlite = <<>>

----------------------------------------------------------------------------
\* Bind placeholders.  SQLite numbers a bare "?" one past the largest so far.
SqliteIndex(found, k) ==
    LET step[i \in 0..Len(found)] ==
          IF i = 0 THEN [max |-> 0, number |-> 0]
          ELSE LET n == IF found[i] = 0 THEN step[i - 1].max + 1 ELSE found[i]
               IN [max |-> Max({step[i - 1].max, n}), number |-> n]
    IN step[k].number

\* The walk meets occurrences [at, kind] in any order, one location twice when
\* a rewrite copied an operand; numbers are assigned per location in source
\* order.
AssignNumbers(occurrences) ==
    LET places == {occurrences[k].at : k \in DOMAIN occurrences}
        kind(p) == (CHOOSE k \in DOMAIN occurrences : occurrences[k].at = p)
        ordered == SetToSortSeq(places, <)
        step[i \in 0..Len(ordered)] ==
          IF i = 0 THEN [max |-> 0, numbers |-> <<>>]
          ELSE LET k == occurrences[kind(ordered[i])].kind
                   n == IF k = 0 THEN step[i - 1].max + 1 ELSE k
               IN [max |-> Max({step[i - 1].max, n}), numbers |-> Append(step[i - 1].numbers, n)]
    IN [k \in DOMAIN occurrences |->
          [mark |-> "$", number |-> step[Len(ordered)].numbers[CHOOSE i \in DOMAIN ordered : ordered[i] = occurrences[k].at]]]

\* The forward direction writes "$n" as "?n" and leaves every other form.
RewriteForSqlite(token) == IF token.mark = "$" THEN [token EXCEPT !.mark = "?"] ELSE token

\* What the translated tree holds: a permutation of the source with one
\* operand possibly copied.
Walks(found) ==
    LET places == {[at |-> k, kind |-> found[k]] : k \in DOMAIN found}
        orders == SetToSeqs(places)
    IN orders \cup {Append(w, p) : w \in orders, p \in places}

----------------------------------------------------------------------------
\* Columns of a DO UPDATE: [qualifier, nested, local, default], default telling
\* the spelling the keyword has, which as a column SQLite reads only delimited.
\* A bare name outside a subquery gains the target's name unless it has that
\* spelling; inside one it is left alone.
QualifyDoUpdate(c) ==
    IF c.qualifier = "none" /\ ~c.nested /\ ~c.default THEN [c EXCEPT !.qualifier = "target"] ELSE c

\* Bare, SQLite reads the subquery's own column if it has one, else the target
\* row; PostgreSQL finds a bare outer name in the target and in excluded.
SqliteReadsCell(c) ==
    IF c.qualifier # "none" THEN c.qualifier ELSE IF c.nested /\ c.local THEN "inner" ELSE "target"
ServerReadsCell(c) ==
    IF c.qualifier # "none" THEN c.qualifier ELSE IF c.nested /\ c.local THEN "inner" ELSE "ambiguous"

\* A name of the target row that reaches the server bare: a correlated one in a
\* subquery, or a column called default.
LeftBare(c) == c.qualifier = "none" /\ (IF c.nested THEN ~c.local ELSE c.default)

----------------------------------------------------------------------------
NoReversing == [kind |-> "none"]
ReversingInit == reversing = NoReversing

CheckForRls ==
    \E s \in GuardSchemas, q \in GuardQueries :
      \E targets \in {{}} \cup {{r} : r \in q.refs} :
        reversing' = [kind |-> "guard", schema |-> s, statement |-> [targets |-> targets, query |-> q]]

RewritePlaceholders ==
    \E found \in PlaceholderSeqs : \E walk \in Walks(found) :
        reversing' = [kind |-> "bind", found |-> found, walk |-> walk]

QualifyColumns ==
    \E c \in ConflictCells : reversing' = [kind |-> "column", cell |-> c]

ReverseStatement == CheckForRls \/ RewritePlaceholders \/ QualifyColumns

----------------------------------------------------------------------------
\* A statement the guard accepts names no backing table: wherever it uses such
\* a name, both databases read a CTE, however WITH lists nest, repeat a name or
\* spell it in another case.  A refused statement earned it: one of its
\* references has a guarded name that the two databases do not both read as the
\* same CTE, or that stands before the CTE in its own list.
GuardIsExact(schema, s) ==
    LET readings == Readings(s.query, <<>>)
    IN IF CheckStatement(schema, s)
       THEN /\ \A r \in readings : ~ReadsBacking(schema, r)
            /\ \A t \in s.targets, b \in BackingNames(schema) : ~SameName(b, t.value)
       ELSE \/ \E r \in readings :
                  NameRefused(schema, r.ref.value) /\ (r.forward \/ r.server # r.sqlite \/ r.server = <<>>)
            \/ \E t \in s.targets : NameRefused(schema, t.value)

\* Reverse translation keeps what a statement reaches: the guard is exact,
\* every occurrence of a placeholder in the translated tree carries the index
\* SQLite gave it in the source, so one bind vector drives both databases, and
\* a column of DO UPDATE is read from the row SQLite reads it from, except that
\* the server finds a name of the target row left bare ambiguous and refuses it.
ReversedAlike ==
    CASE reversing.kind = "guard" -> GuardIsExact(reversing.schema, reversing.statement)
      [] reversing.kind = "bind" ->
            LET numbers == AssignNumbers(reversing.walk)
            IN \A k \in DOMAIN numbers :
                  RewriteForSqlite(numbers[k])
                    = [mark |-> "?", number |-> SqliteIndex(reversing.found, reversing.walk[k].at)]
      [] reversing.kind = "column" ->
            ServerReadsCell(QualifyDoUpdate(reversing.cell))
              = IF LeftBare(reversing.cell) THEN "ambiguous" ELSE SqliteReadsCell(reversing.cell)
      [] OTHER -> TRUE
=============================================================================
