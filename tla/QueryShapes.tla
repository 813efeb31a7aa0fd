----------------------------- MODULE QueryShapes -----------------------------
(***************************************************************************)
(* Queries SQLite has no form of. DISTINCT ON becomes a ROW_NUMBER() filter *)
(* over a derived table and is recognised on the way back; ROLLUP, CUBE and *)
(* GROUPING SETS become a UNION ALL of plain groupings; FETCH and a bare    *)
(* OFFSET become LIMIT; the parentheses around the operands of a set        *)
(* operation go. A query runs on a table of the columns a and b, given as a *)
(* sequence of rows; ties in an ordering are broken by position on both     *)
(* sides.                                                                   *)
(***************************************************************************)
EXTENDS Integers, Sequences, SequencesExt, FiniteSets

CONSTANTS
    QueryTables,         \* sequences of rows [a, b]
    DistinctOns,    \* records [projection, on, order, limit, offset]
    Distincts,      \* records [projection, order] of a SELECT DISTINCT
    Groupings,      \* records [prefix, kind, elements, projection]
    Paginations,    \* records [inner, outer]: the clauses inside and outside the parentheses
    SqlitePages,    \* records [limit, offset]: clauses a client writes against the replica
    Compounds       \* trees of set operations

VARIABLE query

Void == -1          \* NULL; other values are numbers from 0
Given(option) == option # Void

----------------------------------------------------------------------------
(* Orderings: a term names its expression, its direction and where NULLs go *)

Item(expr, alias) == [expr |-> expr, alias |-> alias]
Term(expr, desc, nulls) == [expr |-> expr, desc |-> desc, nulls |-> nulls]

\* PostgreSQL puts NULLs last when ascending, SQLite first.
NullsFirst(t, server) == IF t.nulls # "default" THEN t.nulls = "first" ELSE (t.desc = server)

Precedes(t, x, y, server) ==
    CASE x = y -> FALSE
      [] x = Void -> NullsFirst(t, server)
      [] y = Void -> ~NullsFirst(t, server)
      [] OTHER -> IF t.desc THEN y < x ELSE x < y

\* Row i before row j: the first term that tells them apart, or the position.
RowBefore(rows, terms, i, j, server) ==
    LET tells == {k \in DOMAIN terms : rows[i][terms[k].expr] # rows[j][terms[k].expr]}
        k == CHOOSE k \in tells : \A l \in tells : k <= l
    IN IF tells = {} THEN i < j ELSE Precedes(terms[k], rows[i][terms[k].expr], rows[j][terms[k].expr], server)

Sorted(rows, terms, server) ==
    LET at == SortSeq([i \in DOMAIN rows |-> i], LAMBDA i, j : RowBefore(rows, terms, i, j, server))
    IN [n \in DOMAIN at |-> rows[at[n]]]

\* Fault: an absent NULLS clause stays absent.
TranslateOrderByExprAsWritten(t) == t

TranslateOrderByExpr(t) == [t EXCEPT !.nulls = IF @ = "default" THEN (IF t.desc THEN "first" ELSE "last") ELSE @]

Page(rows, limit, offset) ==
    LET from == IF Given(offset) THEN offset ELSE 0
        to == IF Given(limit) /\ from + limit < Len(rows) THEN from + limit ELSE Len(rows)
    IN SubSeq(rows, from + 1, to)

Projected(rows, projection) ==
    [i \in DOMAIN rows |-> [k \in DOMAIN projection |-> rows[i][projection[k].expr]]]

----------------------------------------------------------------------------
(* DISTINCT ON *)

Aliases(projection) == {projection[k].alias : k \in DOMAIN projection}

\* PostgreSQL reads a bare name in ORDER BY, and in DISTINCT ON, as an output
\* column first and as a column of the table second.
ServerResolves(name, projection) ==
    LET named == {k \in DOMAIN projection : projection[k].alias = name}
    IN IF named = {} THEN name ELSE projection[CHOOSE k \in named : TRUE].expr

ServerDistinctOn(q, table) ==
    LET on == [k \in DOMAIN q.on |-> ServerResolves(q.on[k], q.projection)]
        terms == [k \in DOMAIN q.order |-> [q.order[k] EXCEPT !.expr = ServerResolves(@, q.projection)]]
        rows == Sorted(table, terms, TRUE)
        same(i, j) == \A k \in DOMAIN on : rows[i][on[k]] = rows[j][on[k]]
        first == SelectSeq([i \in DOMAIN rows |-> i], LAMBDA i : \A j \in 1..(i - 1) : ~same(i, j))
    IN Page(Projected([n \in DOMAIN first |-> rows[first[n]]], q.projection), q.limit, q.offset)

NotTranslated == [refused |-> TRUE]

\* Unique output names, so that the derived table can be read by them.
IsRewriteable(projection) == Cardinality(Aliases(projection)) = Len(projection)

ResolveAlias(t, projection) == [t EXCEPT !.expr = ServerResolves(@, projection)]

\* The alias the outer query knows an ordering term by, else the term's own name.
AliasForExpr(name, projection) ==
    LET found == {k \in DOMAIN projection : projection[k].expr = name \/ projection[k].alias = name}
    IN IF found = {} THEN name ELSE projection[CHOOSE k \in found : \A l \in found : k <= l].alias

TranslateDistinctOn(q) ==
    LET order == [k \in DOMAIN q.order |-> TranslateOrderByExpr(q.order[k])]
        window == [k \in DOMAIN order |-> ResolveAlias(order[k], q.projection)]
        outer == SubSeq(order, 1, IF Len(order) < Len(q.on) THEN Len(order) ELSE Len(q.on))
    IN IF \/ ~IsRewriteable(q.projection)
          \/ order # <<>> /\ Len(order) < Len(q.on)
          \/ order # <<>> /\ \E k \in DOMAIN q.on : window[k].expr # q.on[k]
         THEN NotTranslated
       ELSE [projection |-> q.projection, partition |-> q.on, window |-> window, limit |-> q.limit, offset |-> q.offset,
             outer |-> [k \in DOMAIN outer |-> [outer[k] EXCEPT !.expr = AliasForExpr(@, q.projection)]]]

\* What SQLite answers to the window filter, and to a window filter as such.
RowNumberFilter(w, table, server) ==
    LET first == {i \in DOMAIN table : \A j \in DOMAIN table :
                    (j # i /\ \A k \in DOMAIN w.partition : table[j][w.partition[k]] = table[i][w.partition[k]])
                        => RowBefore(table, w.window, i, j, server)}
        kept == SelectSeq([i \in DOMAIN table |-> i], LAMBDA i : i \in first)
        rows == [n \in DOMAIN kept |->
                   [name \in Aliases(w.projection) |-> table[kept[n]][ServerResolves(name, w.projection)]]]
        terms == w.outer
        sorted == Sorted(rows, terms, server)
    IN Page([n \in DOMAIN sorted |-> [k \in DOMAIN w.projection |-> sorted[n][w.projection[k].alias]]], w.limit, w.offset)

\* The DISTINCT ON a window filter came from, when the outer ordering is the
\* window's up to the partition; any other filter is left as it stands.
RestoreDistinctOn(w) ==
    LET prefix == SubSeq(w.window, 1, IF Len(w.window) < Len(w.partition) THEN Len(w.window) ELSE Len(w.partition))
    IN IF \/ w.outer # prefix
          \/ w.window # <<>> /\ Len(w.window) < Len(w.partition)
          \/ w.window # <<>> /\ \E k \in DOMAIN w.partition : w.window[k].expr # w.partition[k]
         THEN NotTranslated
       ELSE [projection |-> w.projection, on |-> w.partition, order |-> w.window, limit |-> w.limit, offset |-> w.offset]

----------------------------------------------------------------------------
(* SELECT DISTINCT: only what the select list shows can order the result *)

Deduplicated(rows) ==
    LET first == SelectSeq([i \in DOMAIN rows |-> i], LAMBDA i : \A j \in 1..(i - 1) : rows[j] # rows[i])
    IN [n \in DOMAIN first |-> rows[first[n]]]

Shown(projection) == {projection[k].expr : k \in DOMAIN projection}

DistinctRows(q, table, server) ==
    Deduplicated(Projected(Sorted(table, [k \in DOMAIN q.order |-> ResolveAlias(q.order[k], q.projection)], server),
                           q.projection))

ServerDistinct(q, table) ==
    IF \E k \in DOMAIN q.order : ServerResolves(q.order[k].expr, q.projection) \notin Shown(q.projection)
      THEN NotTranslated
    ELSE DistinctRows(q, table, TRUE)

OrderByTermIsProjected(t, projection) == t.expr \in Shown(projection) \cup Aliases(projection)

TranslateDistinct(q) ==
    IF \E k \in DOMAIN q.order : ~OrderByTermIsProjected(q.order[k], q.projection) THEN NotTranslated
    ELSE [q EXCEPT !.order = [k \in DOMAIN @ |-> TranslateOrderByExpr(@[k])]]

----------------------------------------------------------------------------
(* ROLLUP, CUBE and GROUPING SETS *)

ServerSets(q) ==
    CASE q.kind = "sets" -> q.elements
      [] q.kind = "rollup" -> [k \in 1..(Len(q.elements) + 1) |-> FlattenSeq(SubSeq(q.elements, 1, k - 1))]
      [] q.kind = "cube" ->
           LET kept == SetToSeq(SUBSET DOMAIN q.elements)
           IN [n \in DOMAIN kept |-> FlattenSeq([k \in DOMAIN q.elements |-> IF k \in kept[n] THEN q.elements[k] ELSE <<>>])]

\* One row for each group; a grouping by nothing has one group, of all rows.
\* A column that is not grouped by is NULL, and "count" counts the group.
GroupRows(keys, projection, table) ==
    LET key(i) == [c \in Range(keys) |-> table[i][c]]
        groups == IF keys = <<>> THEN {<<>>} ELSE {key(i) : i \in DOMAIN table}
        count(g) == Cardinality({i \in DOMAIN table : keys = <<>> \/ key(i) = g})
        row(g) == [k \in DOMAIN projection |->
                     CASE projection[k] = "count" -> count(g)
                       [] projection[k] = "literal" -> 0
                       [] projection[k] \in Range(keys) -> g[projection[k]]
                       [] OTHER -> Void]
        order == SetToSeq(groups)
    IN [n \in DOMAIN order |-> row(order[n])]

ServerGroups(q, table) ==
    FlattenSeq([n \in DOMAIN ServerSets(q) |-> GroupRows(q.prefix \o ServerSets(q)[n], q.projection, table)])

ExpandRollup(elements) ==
    [k \in 1..(Len(elements) + 1) |-> FlattenSeq(SubSeq(elements, 1, Len(elements) - k + 1))]

ExpandCube(elements) ==
    LET masks == SetToSeq(SUBSET DOMAIN elements)
    IN [n \in DOMAIN masks |-> FlattenSeq([k \in DOMAIN elements |-> IF k \in masks[n] THEN elements[k] ELSE <<>>])]

\* A branch keeps the keys it groups by and writes NULL for the others.
RewriteProjection(projection, active, all) ==
    [k \in DOMAIN projection |->
        IF projection[k] \in all /\ projection[k] \notin active THEN "null" ELSE projection[k]]

\* SQLite: without a GROUP BY only an aggregate makes a select answer one row.
SqliteBranch(keys, projection, table) ==
    IF keys = <<>> /\ "count" \notin Range(projection)
      THEN [i \in DOMAIN table |-> [k \in DOMAIN projection |-> IF projection[k] = "literal" THEN 0 ELSE Void]]
    ELSE GroupRows(keys, projection, table)

TranslateGrouping(q) ==
    LET raw == CASE q.kind = "sets" -> q.elements
                 [] q.kind = "rollup" -> ExpandRollup(q.elements)
                 [] q.kind = "cube" -> ExpandCube(q.elements)
        full == [n \in DOMAIN raw |-> q.prefix \o raw[n]]
        all == UNION {Range(full[n]) : n \in DOMAIN full}
    IN IF \E k \in DOMAIN q.projection : q.projection[k] \notin all \cup {"count", "literal"} THEN <<>>
       ELSE [n \in DOMAIN full |->
               [keys |-> full[n], projection |-> RewriteProjection(q.projection, Range(full[n]), all)]]

UnionAll(branches, table) ==
    FlattenSeq([n \in DOMAIN branches |-> SqliteBranch(branches[n].keys, branches[n].projection, table)])

Counted(rows) == [r \in Range(rows) |-> Cardinality({i \in DOMAIN rows : rows[i] = r})]

----------------------------------------------------------------------------
(* LIMIT, OFFSET and FETCH, inside and outside the parentheses of a query.  *)
(* A clause is [limit, offset, fetch], fetch "none", "ties", "percent",     *)
(* "one" (no count) or "count", when limit holds the count.                 *)

Fetches(c) == c.fetch # "none"
Limits(c) == Fetches(c) \/ Given(c.limit)
OnlyOnce(inner, outer) == IF Given(inner) THEN inner ELSE outer

\* PostgreSQL attaches the outer clauses to the query inside, and takes each once.
ServerPage(q) ==
    LET c == IF Limits(q.inner) THEN q.inner ELSE q.outer
    IN IF (Limits(q.inner) /\ Limits(q.outer)) \/ (Given(q.inner.offset) /\ Given(q.outer.offset)) THEN NotTranslated
       ELSE [limit |-> IF c.fetch = "one" THEN 1 ELSE c.limit, offset |-> OnlyOnce(q.inner.offset, q.outer.offset)]

MergeLimits(inner, outer) ==
    IF (Limits(inner) /\ Limits(outer)) \/ (Given(inner.offset) /\ Given(outer.offset)) THEN NotTranslated
    ELSE [limit |-> OnlyOnce(inner.limit, outer.limit), offset |-> OnlyOnce(inner.offset, outer.offset),
          fetch |-> IF Fetches(inner) THEN inner.fetch ELSE outer.fetch]

\* SQLite's LIMIT, whose -2 here is the "no limit" a bare OFFSET needs.
Unlimited == -2
TranslateLimitAndFetch(c) ==
    IF c = NotTranslated \/ c.fetch \in {"ties", "percent"} THEN NotTranslated
    ELSE [limit |-> CASE c.fetch = "one" -> 1
                      [] ~Given(c.limit) /\ Given(c.offset) -> Unlimited
                      [] OTHER -> c.limit,
          offset |-> c.offset]

SqlitePage(rows, c) == Page(rows, IF c.limit < 0 THEN Void ELSE c.limit, c.offset)

\* A negative LIMIT means none to SQLite and is an error to PostgreSQL; the
\* comma form puts the offset first.
ReverseLimit(c) == [limit |-> IF c.limit < 0 THEN Void ELSE c.limit, offset |-> c.offset]

----------------------------------------------------------------------------
(* Set operations: a tree of leaves, operations and parenthesised queries   *)

Leaf(values) == [op |-> "select", rows |-> values]
SetOp(op, left, right) == [op |-> op, left |-> left, right |-> right]
Parens(body, limit) == [op |-> "query", body |-> body, limit |-> limit]

Operate(op, x, y) ==
    CASE op = "union all" -> x \o y
      [] op = "union" -> SetToSortSeq(Range(x) \cup Range(y), <)
      [] op = "intersect" -> SetToSortSeq(Range(x) \cap Range(y), <)
      [] op = "except" -> SetToSortSeq(Range(x) \ Range(y), <)

RECURSIVE ServerCompound(_)
ServerCompound(t) ==
    CASE t.op = "select" -> t.rows
      [] t.op = "query" -> Page(SortSeq(ServerCompound(t.body), <), t.limit, Void)
      [] OTHER -> Operate(t.op, ServerCompound(t.left), ServerCompound(t.right))

\* The emitted text: operands and operators in the order they are printed. A
\* parenthesised operand loses its parentheses, or becomes a derived table
\* when it has clauses of its own.
RECURSIVE Printed(_)
Printed(t) ==
    CASE t.op = "select" -> <<t>>
      [] t.op = "query" ->
            IF Given(t.limit) THEN <<[op |-> "derived", text |-> Printed(t.body), limit |-> t.limit]>>
            ELSE Printed(t.body)
      [] OTHER -> Append(Printed(t.left), [op |-> t.op]) \o Printed(t.right)

\* SQLite reads them from left to right, no operator before another.
RECURSIVE SqliteCompound(_)
SqliteCompound(text) ==
    LET value(p) == IF p.op = "select" THEN p.rows ELSE Page(SortSeq(SqliteCompound(p.text), <), p.limit, Void)
    IN IF Len(text) = 1 THEN value(text[1])
       ELSE Operate(text[Len(text) - 1].op, SqliteCompound(SubSeq(text, 1, Len(text) - 2)), value(text[Len(text)]))

----------------------------------------------------------------------------
NoQuery == [shape |-> "none"]
QueryInit == query = NoQuery

TranslateQuery ==
    \/ \E q \in DistinctOns, t \in QueryTables : query' = [shape |-> "distinct on", of |-> q, table |-> t]
    \/ \E q \in Distincts, t \in QueryTables : query' = [shape |-> "distinct", of |-> q, table |-> t]
    \/ \E q \in Groupings, t \in QueryTables : query' = [shape |-> "grouping", of |-> q, table |-> t]
    \/ \E q \in Paginations : query' = [shape |-> "page", of |-> q]
    \/ \E c \in SqlitePages : query' = [shape |-> "reversed page", of |-> c]
    \/ \E c \in Compounds : query' = [shape |-> "compound", of |-> c]

----------------------------------------------------------------------------
(* Properties *)

\* "A bare parenthesised branch loses nothing when the parentheses go"
\* (shared_helpers.rs, unparenthesize_compound_operand): a set operation
\* answers in SQLite what it answers on the server.
CompoundsAgree ==
    query.shape = "compound" => Counted(SqliteCompound(Printed(query.of))) = Counted(ServerCompound(query.of))

\* The rewritten query answers the rows the server answers to the query as
\* written, in its order where it has one: which row of each group DISTINCT
\* ON keeps, where NULLs sort, the grand total of an empty table, the page a
\* FETCH or a bare OFFSET cuts; and what is restored on the way back keeps the
\* same rows again.
QueriesAgree ==
    /\ query.shape = "distinct on" =>
        LET w == TranslateDistinctOn(query.of)
            back == RestoreDistinctOn(w)
            mine == RowNumberFilter(w, query.table, FALSE)
            equal(x, y) == IF query.of.order = <<>> THEN Counted(x) = Counted(y) ELSE x = y
        IN w # NotTranslated =>
             /\ equal(mine, ServerDistinctOn(query.of, query.table))
             /\ back # NotTranslated => equal(mine, ServerDistinctOn(back, query.table))
    /\ query.shape = "distinct" =>
        LET emitted == TranslateDistinct(query.of)
        IN emitted # NotTranslated => DistinctRows(emitted, query.table, FALSE) = ServerDistinct(query.of, query.table)
    /\ query.shape = "grouping" =>
        LET branches == TranslateGrouping(query.of)
        IN branches # <<>> =>
             Counted(UnionAll(branches, query.table)) = Counted(ServerGroups(query.of, query.table))
    /\ query.shape = "page" =>
        LET emitted == TranslateLimitAndFetch(MergeLimits(query.of.inner, query.of.outer))
            server == ServerPage(query.of)
            rows == <<1, 2, 3, 4>>
        IN emitted # NotTranslated =>
             server # NotTranslated /\ SqlitePage(rows, emitted) = Page(rows, server.limit, server.offset)
    /\ query.shape = "reversed page" =>
        LET back == ReverseLimit(query.of)
        IN SqlitePage(<<1, 2, 3>>, query.of) = Page(<<1, 2, 3>>, back.limit, back.offset)
    /\ CompoundsAgree
=============================================================================
