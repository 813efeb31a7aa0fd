----------------------------- MODULE ArrayCalls -----------------------------
(***************************************************************************)
(* PostgreSQL arrays, kept in the replica as JSON arrays. A call over       *)
(* arrays is replaced by queries over json_each, which has no rows for NULL *)
(* just as for an empty array, and by aggregates, which answer an empty     *)
(* group in a way of their own. Each emitted form is written here as what   *)
(* SQLite answers to it.                                                    *)
(***************************************************************************)
EXTENDS ScalarCalls

CONSTANTS
    ArrayInputs,    \* records [op, of, lit]: the call, its operands, whether they are written out
    Documents       \* records [f, keys, vals, alias, cols]: a set-returning function of a JSON document

VARIABLE arrayCall

List(s) == [list |-> s]
\* The comparison of two elements, NULL when one of them is.
Compared(op, x, y) ==
    IF x = Nil \/ y = Nil THEN Nil
    ELSE Bit(CASE op = "=" -> x = y [] op = "<>" -> x # y [] op = ">" -> x.int > y.int [] op = "<" -> x.int < y.int)
Present(s) == SelectSeq(s, LAMBDA v : v # Nil)
ConcatText(s, sep) ==
    FoldLeft(LAMBDA t, i : t \o (IF i = 1 THEN <<>> ELSE sep) \o ToText(s[i]).text, <<>>, [i \in DOMAIN s |-> i])

----------------------------------------------------------------------------
(* What the server answers *)

\* ANY and ALL over the comparisons of each element.
Some(truths) ==
    IF Bit(TRUE) \in Range(truths) THEN Bit(TRUE) ELSE IF Nil \in Range(truths) THEN Nil ELSE Bit(FALSE)
Every(truths) ==
    IF Bit(FALSE) \in Range(truths) THEN Bit(FALSE) ELSE IF Nil \in Range(truths) THEN Nil ELSE Bit(TRUE)

\* A bare NULL has no type of its own: beside an array, || reads it as one.
NullWritten(q) == q.op = "||" /\ \E i \in {1, 2} : q.kinds[i] = "element" /\ q.lit[i] /\ q.of[i] = Nil

ServerArray(q) ==
    LET a == q.of[1]
        b == q.of[2]
        at(v) == {i \in DOMAIN a.list : a.list[i] = v}
        elements(v) == IF v = Nil THEN <<>> ELSE v.list
    IN CASE q.op \in {"array_length", "array_upper"} -> IF elements(a) = <<>> THEN Nil ELSE N(Len(a.list))
         [] q.op = "array_lower" -> IF elements(a) = <<>> THEN Nil ELSE N(1)
         [] q.op = "array_append" -> List(elements(a) \o <<b>>)
         [] q.op = "array_prepend" -> List(<<a>> \o elements(b))
         [] q.op = "array_cat" -> IF a = Nil /\ b = Nil THEN Nil ELSE List(elements(a) \o elements(b))
         [] q.op = "||" ->
              IF q.kinds = <<"array", "array">> \/ NullWritten(q)
                THEN (IF a = Nil /\ b = Nil THEN Nil ELSE List(elements(a) \o elements(b)))
              ELSE IF q.kinds[1] = "array" THEN List(elements(a) \o <<b>>) ELSE List(<<a>> \o elements(b))
         [] q.op = "overlap" ->
              IF a = Nil \/ b = Nil THEN Nil
              ELSE Bit(\E v \in Range(Present(a.list)) : v \in Range(b.list))
         [] q.op = "any" -> IF b = Nil THEN Nil ELSE Some([i \in DOMAIN b.list |-> Compared(q.cmp, a, b.list[i])])
         [] q.op = "all" -> IF b = Nil THEN Nil ELSE Every([i \in DOMAIN b.list |-> Compared(q.cmp, a, b.list[i])])
         [] OTHER ->
              IF a = Nil THEN Nil
              ELSE CASE q.op = "cardinality" -> N(Len(a.list))
                     [] q.op = "array_to_string" ->
                          IF b = Nil THEN Nil ELSE T(ConcatText(Present(a.list), b.text))
                     [] q.op = "array_position" -> IF at(b) = {} THEN Nil ELSE N(Least(at(b)))
                     [] q.op = "array_positions" ->
                          List(SelectSeq([i \in DOMAIN a.list |-> N(i)], LAMBDA p : p.int \in at(b)))
                     [] q.op = "array_remove" -> List(SelectSeq(a.list, LAMBDA v : v # b))
                     [] q.op = "array_replace" ->
                          List([i \in DOMAIN a.list |-> IF a.list[i] = b THEN q.of[3] ELSE a.list[i]])
                     [] q.op = "subscript" ->
                          IF b = Nil \/ b.int \notin DOMAIN a.list THEN Nil ELSE a.list[b.int]
                     [] q.op = "contains" ->
                          IF b = Nil THEN Nil ELSE Bit(\A v \in Range(b.list) : v # Nil /\ v \in Range(a.list))

----------------------------------------------------------------------------
(* SQLite's pieces *)

JsonEach(a) == IF a = Nil THEN <<>> ELSE [i \in DOMAIN a.list |-> [key |-> i - 1, value |-> a.list[i]]]
EachValue(rows) == [i \in DOMAIN rows |-> rows[i].value]
JsonArrayLength(a) == IF a = Nil THEN Nil ELSE N(Len(a.list))
JsonGroupArray(values) == List(values)
GroupConcat(values, sep) ==
    IF Present(values) = <<>> THEN Nil ELSE T(ConcatText(Present(values), IF sep = Nil THEN <<>> ELSE sep.text))
JsonInsertEnd(a, v) == IF a = Nil THEN Nil ELSE List(Append(a.list, v))
JsonExtract(a, i) == IF a = Nil \/ i + 1 \notin DOMAIN a.list THEN Nil ELSE a.list[i + 1]
Coalesce(v, w) == IF v = Nil THEN w ELSE v
InList(x, values) == Some([i \in DOMAIN values |-> Compared("=", x, values[i])])
Not(v) == IF v = Nil THEN Nil ELSE Bit(v = Bit(FALSE))
\* EXISTS over rows whose WHERE answers are the given ones.
ExistsRow(answers) == Bit(\E i \in DOMAIN answers : answers[i] = Bit(TRUE))

----------------------------------------------------------------------------
(* The emitted forms *)

ArrayUpperBound(a) == LET n == JsonArrayLength(a) IN IF n = N(0) THEN Nil ELSE n
ArrayLowerBound(a) == IF JsonArrayLength(a) \in {Nil, N(0)} THEN Nil ELSE N(1)

\* Fault: an array with nothing to join is told from NULL by the join alone.
ArrayToStringUnguarded(a, sep) == GroupConcat(EachValue(JsonEach(a)), sep)

ArrayToString(a, sep) ==
    IF a = Nil THEN Nil ELSE Coalesce(GroupConcat(EachValue(JsonEach(a)), sep), T(<<>>))

ArrayAppend(a, v) == Coalesce(JsonInsertEnd(a, v), List(<<v>>))

ArrayPosition(a, v) ==
    LET keys == {JsonEach(a)[i].key : i \in {j \in DOMAIN JsonEach(a) : JsonEach(a)[j].value = v}}
    IN IF keys = {} THEN Nil ELSE N(Least(keys) + 1)

ArrayPositions(a, v) ==
    LET hits == SelectSeq(JsonEach(a), LAMBDA r : r.value = v)
    IN IF a = Nil THEN Nil ELSE JsonGroupArray([i \in DOMAIN hits |-> N(hits[i].key + 1)])

ArrayRemove(a, v) ==
    IF a = Nil THEN Nil ELSE JsonGroupArray(EachValue(SelectSeq(JsonEach(a), LAMBDA r : r.value # v)))

ArrayReplace(a, from, to) ==
    LET rows == JsonEach(a)
    IN IF a = Nil THEN Nil
       ELSE JsonGroupArray([i \in DOMAIN rows |-> IF rows[i].value = from THEN to ELSE rows[i].value])

\* Both halves in one derived table, ordered by side and then by key.
ArrayConcat(a, b) == JsonGroupArray(EachValue(JsonEach(a)) \o EachValue(JsonEach(b)))

ArrayCat(a, b) == IF a = Nil /\ b = Nil THEN Nil ELSE ArrayConcat(a, b)

\* Only a literal other than NULL is known not to be NULL.
CanBeNull(q, i) == ~q.lit[i] \/ q.of[i] = Nil

\* ||: an operand that is no array is wrapped in one. The guard against two
\* NULLs is left out only beside a literal.
ConcatOperator(q) ==
    LET wrapped(i) == IF q.kinds[i] = "array" THEN q.of[i] ELSE List(<<q.of[i]>>)
    IN IF CanBeNull(q, 1) /\ CanBeNull(q, 2) /\ q.of[1] = Nil /\ q.of[2] = Nil THEN Nil
       ELSE ArrayConcat(wrapped(1), wrapped(2))

\* A literal subscript folds into the path; any other is guarded at run time.
TranslateArraySubscript(a, i, literal) ==
    IF literal THEN (IF i.int < 1 THEN Nil ELSE JsonExtract(a, i.int - 1))
    ELSE IF i # Nil /\ i.int >= 1 THEN JsonExtract(a, i.int - 1) ELSE Nil

ArrayOverlap(a, b) ==
    LET left == EachValue(JsonEach(a))
    IN ExistsRow([i \in DOMAIN left |-> InList(left[i], EachValue(JsonEach(b)))])

ArrayContainment(haystack, needle) ==
    LET sought == EachValue(JsonEach(needle))
    IN Not(ExistsRow([i \in DOMAIN sought |-> Not(InList(sought[i], EachValue(JsonEach(haystack))))]))

\* ANY looks for an element that compares true, ALL for one that does not.
QuantifiedOverArray(x, cmp, a, all) ==
    LET values == EachValue(JsonEach(a))
    IN IF all THEN Not(ExistsRow([i \in DOMAIN values |-> Bit(Compared(cmp, x, values[i]) # Bit(TRUE))]))
       ELSE ExistsRow([i \in DOMAIN values |-> Compared(cmp, x, values[i])])

\* A subquery keeps its rows, and ALL looks for one whose comparison is false.
ExistsOverSubquery(x, cmp, rows, all) ==
    LET values == EachValue(JsonEach(rows))
    IN IF all THEN Not(ExistsRow([i \in DOMAIN values |-> Not(Compared(cmp, x, values[i]))]))
       ELSE ExistsRow([i \in DOMAIN values |-> Compared(cmp, x, values[i])])

FoldPredicates(truths, all) == IF all THEN Every(truths) ELSE Some(truths)

\* = ANY and <> ALL become IN and NOT IN of a list or a subquery.
AnyAllToIn(q) ==
    LET all == q.op = "all"
    IN IF q.form = "value" THEN QuantifiedOverArray(q.of[1], q.cmp, q.of[2], all)
       ELSE IF all THEN Not(InList(q.of[1], q.of[2].list)) ELSE InList(q.of[1], q.of[2].list)

QuantifiedOperation(q) ==
    LET all == q.op = "all"
    IN CASE q.form = "subquery" -> ExistsOverSubquery(q.of[1], q.cmp, q.of[2], all)
         [] q.form = "elements" ->
              FoldPredicates([i \in DOMAIN q.of[2].list |-> Compared(q.cmp, q.of[1], q.of[2].list[i])], all)
         [] q.form = "value" -> QuantifiedOverArray(q.of[1], q.cmp, q.of[2], all)

TranslateArrayFunction(q) ==
    LET a == q.of[1]
        b == q.of[2]
    IN CASE q.op \in {"array_length", "array_upper"} -> ArrayUpperBound(a)
         [] q.op = "array_lower" -> ArrayLowerBound(a)
         [] q.op = "cardinality" -> JsonArrayLength(a)
         [] q.op = "array_to_string" -> ArrayToString(a, b)
         [] q.op = "array_append" -> ArrayAppend(a, b)
         [] q.op = "array_prepend" -> ArrayConcat(List(<<a>>), b)
         [] q.op = "array_cat" -> ArrayCat(a, b)
         [] q.op = "array_position" -> ArrayPosition(a, b)
         [] q.op = "array_positions" -> ArrayPositions(a, b)
         [] q.op = "array_remove" -> ArrayRemove(a, b)
         [] q.op = "array_replace" -> ArrayReplace(a, b, q.of[3])

TranslateArrayCall(q) ==
    CASE q.op = "||" -> ConcatOperator(q)
      [] q.op = "overlap" -> ArrayOverlap(q.of[1], q.of[2])
      [] q.op = "contains" -> ArrayContainment(q.of[1], q.of[2])
      [] q.op = "subscript" -> TranslateArraySubscript(q.of[1], q.of[2], q.lit[2])
      [] <<q.op, q.cmp>> \in {<<"any", "=">>, <<"all", "<>">>} -> AnyAllToIn(q)
      [] q.op \in {"any", "all"} -> QuantifiedOperation(q)
      [] OTHER -> TranslateArrayFunction(q)

----------------------------------------------------------------------------
(* Functions of a JSON document in FROM: the columns' names and the rows    *)

ShapeOf(f) == CASE f.over = "elements" -> "value" [] f.over = "each" -> "key_value" [] f.over = "keys" -> "key"

\* PostgreSQL names a column after the column list, the OUT parameter, or
\* the alias of a function that has none.
ServerNames(d) ==
    LET nth(i, default) == IF i <= Len(d.cols) THEN d.cols[i] ELSE default
    IN CASE d.f.over = "unnest" ->
              <<nth(1, IF d.alias = "" THEN "unnest" ELSE d.alias)>>
                \o (IF d.f.ordinality THEN <<nth(2, "ordinality")>> ELSE <<>>)
         [] ShapeOf(d.f) = "value" -> <<nth(1, "value")>>
         [] ShapeOf(d.f) = "key_value" -> <<nth(1, "key"), nth(2, "value")>>
         [] ShapeOf(d.f) = "key" -> <<nth(1, IF d.alias = "" THEN "json_object_keys" ELSE d.alias)>>

Shorter(k, l) == k # l /\ (Len(k) < Len(l) \/ (Len(k) = Len(l) /\ \E i \in DOMAIN k :
    k[i] < l[i] /\ \A j \in 1..(i - 1) : k[j] = l[j]))

\* json keeps the order of the document, jsonb sorts keys by length and bytes.
ServerOrder(d) ==
    IF d.f.over \in {"each", "keys"} /\ d.f.binary
      THEN SortSeq([i \in DOMAIN d.keys |-> i], LAMBDA i, j : Shorter(d.keys[i], d.keys[j]))
    ELSE [i \in DOMAIN d.keys |-> i]

\* An element as json text, and as the text the _text functions answer.
ServerJson(v) == IF v = Nil THEN T(<<"null">>) ELSE IF "text" \in DOMAIN v THEN [quoted |-> v.text] ELSE ToText(v)

ServerRows(d) ==
    LET o == ServerOrder(d)
        value(i) == IF d.f.text THEN (IF d.vals[i] = Nil THEN Nil ELSE ToText(d.vals[i])) ELSE ServerJson(d.vals[i])
    IN [n \in DOMAIN o |->
          CASE d.f.over = "unnest" -> <<d.vals[o[n]]>> \o (IF d.f.ordinality THEN <<N(o[n])>> ELSE <<>>)
            [] ShapeOf(d.f) = "value" -> <<value(o[n])>>
            [] ShapeOf(d.f) = "key_value" -> <<T(d.keys[o[n]]), value(o[n])>>
            [] ShapeOf(d.f) = "key" -> <<T(d.keys[o[n]])>>]

CanonicalKeyOrder(rows) == SortSeq(rows, LAMBDA r, s : Shorter(r.key, s.key))

JsonQuote(v) == IF v = Nil THEN T(<<"null">>) ELSE IF "text" \in DOMAIN v THEN [quoted |-> v.text] ELSE ToText(v)
CastText(v) == IF v = Nil THEN Nil ELSE ToText(v)

UnnestFactor(d) ==
    LET table == IF d.alias = "" THEN "unnest" ELSE d.alias
        named(i, default) == IF i <= Len(d.cols) THEN d.cols[i] ELSE default
    IN [names |-> <<named(1, table)>> \o (IF d.f.ordinality THEN <<named(2, "ordinality")>> ELSE <<>>),
        rows |-> [i \in DOMAIN d.vals |-> <<d.vals[i]>> \o (IF d.f.ordinality THEN <<N(i)>> ELSE <<>>)]]

SetReturningFactor(d) ==
    LET named(i, default) == IF i <= Len(d.cols) THEN d.cols[i] ELSE default
        each == [i \in DOMAIN d.keys |-> [key |-> d.keys[i], value |-> d.vals[i]]]
        ordered == IF d.f.binary /\ ShapeOf(d.f) # "value" THEN CanonicalKeyOrder(each) ELSE each
        value(r) == IF d.f.text THEN CastText(r.value) ELSE JsonQuote(r.value)
    IN CASE ShapeOf(d.f) = "key" ->
              [names |-> <<named(1, "json_object_keys")>>, rows |-> [i \in DOMAIN ordered |-> <<T(ordered[i].key)>>]]
         [] ShapeOf(d.f) = "key_value" ->
              [names |-> <<named(1, "key"), named(2, "value")>>,
               rows |-> [i \in DOMAIN ordered |-> <<T(ordered[i].key), value(ordered[i])>>]]
         [] ShapeOf(d.f) = "value" ->
              [names |-> <<named(1, "value")>>, rows |-> [i \in DOMAIN ordered |-> <<value(ordered[i])>>]]

----------------------------------------------------------------------------
NoArrayCall == [kind |-> "none"]
ArrayInit == arrayCall = NoArrayCall

CallArray ==
    \/ \E q \in ArrayInputs : arrayCall' = [kind |-> "array", call |-> q]
    \/ \E d \in Documents : arrayCall' = [kind |-> "document", call |-> d]

\* Where a NULL decides a predicate that the emitted NOT EXISTS does not see.
NullInTheWay(q) ==
    LET holdsNull(v) == v = Nil \/ Nil \in Range(v.list)
    IN \/ q.op = "contains" /\ (holdsNull(q.of[1]) \/ holdsNull(q.of[2]))
       \/ q.op = "all" /\ q.form = "value" /\ q.of[2] = Nil
       \/ q.op = "all" /\ q.form = "subquery" /\ q.cmp # "<>" /\ (q.of[1] = Nil \/ holdsNull(q.of[2]))

\* What is answered instead, where the answers differ: the guard against two
\* NULL arrays also takes a NULL element beside a NULL array, a bare NULL is
\* appended as an element, and group_concat joins with nothing for a NULL
\* separator.
Departure(q) ==
    LET element == IF q.kinds[1] = "element" THEN 1 ELSE 2
        array == q.of[3 - element]
        nullElement == q.op = "||" /\ q.kinds # <<"array", "array">> /\ q.of[element] = Nil
    IN IF nullElement /\ array = Nil THEN {Nil}
       ELSE IF NullWritten(q) THEN {List(IF element = 1 THEN <<Nil>> \o array.list ELSE array.list \o <<Nil>>)}
       ELSE IF q.op = "array_to_string" /\ q.of[2] = Nil /\ q.of[1] # Nil
         THEN {T(ConcatText(Present(q.of[1].list), <<>>))}
       ELSE {}

\* A row the server accepts is a row the emitted predicate accepts, and the
\* other way round unless a NULL is in the way. Every other call over arrays
\* answers the same value (NULL and empty arrays, NULL elements, both sides of
\* a concatenation, subscripts outside the array) but for the departures, which
\* answer exactly what they are said to. A function of a document gives the
\* same rows in order under the same names; only the column of an aliased
\* json_object_keys keeps the function's name.
ArraysAgree ==
    /\ arrayCall.kind = "array" =>
        LET q == arrayCall.call
            mine == TranslateArrayCall(q)
            theirs == ServerArray(q)
        IN IF q.op \in {"overlap", "contains", "any", "all"}
             THEN /\ theirs = Bit(TRUE) => mine = Bit(TRUE)
                  /\ mine = Bit(TRUE) => theirs = Bit(TRUE) \/ NullInTheWay(q)
           ELSE {mine} = IF Departure(q) = {} THEN {theirs} ELSE Departure(q)
    /\ arrayCall.kind = "document" =>
        LET d == arrayCall.call
            factor == IF d.f.over = "unnest" THEN UnnestFactor(d) ELSE SetReturningFactor(d)
            aliasLost == d.f.over = "keys" /\ d.alias # "" /\ d.cols = <<>>
        IN /\ factor.rows = ServerRows(d)
           /\ factor.names = IF aliasLost THEN <<"json_object_keys">> ELSE ServerNames(d)
=============================================================================
