---------------------------- MODULE ScalarCalls ----------------------------
(***************************************************************************)
(* Calls of built-in functions in both directions. The forward translator  *)
(* replaces a PostgreSQL call by a closed form over SQLite's functions, and *)
(* the reverse one a SQLite call by PostgreSQL's. Each is an expression     *)
(* over the cells of a row; the two databases are the two evaluations of    *)
(* expressions at the end of the first part, which differ in what NULL, a   *)
(* negative position or an empty text does.                                 *)
(*                                                                         *)
(* A text is a sequence of characters; the server has booleans, the replica *)
(* the integers 1 and 0.                                                    *)
(***************************************************************************)
EXTENDS Integers, Sequences, FiniteSets, SequencesExt, Bags

CONSTANTS
    ServerCalls,        \* expressions a client writes against the server
    SqliteCalls,        \* expressions a client writes against the replica
    RowsOf(_),          \* the rows an expression is evaluated on
    NumberCells,        \* the cells declared with a number type
    Aggregates,         \* aggregate calls written against the server
    SqliteAggregates,   \* aggregate calls written against the replica
    Groups              \* groups of rows, sequences of [value, pass]

VARIABLE call           \* the call translated and the row or group it reads

----------------------------------------------------------------------------
(* Values and expressions *)

Nil == [null |-> TRUE]
N(n) == [int |-> n]
T(s) == [text |-> s]
Flag(b) == [bool |-> b]
Bit(b) == N(IF b THEN 1 ELSE 0)
Fails == [error |-> TRUE]

Cell(i) == [f |-> "cell", of |-> <<>>, at |-> i]
Draw(i) == [f |-> "draw", of |-> <<>>, at |-> i]   \* a volatile call, read from cell i
K(v) == [f |-> "lit", of |-> <<>>, val |-> v]
Apply(f, of) == [f |-> f, of |-> of]
CaseWhen(condition, result, otherwise) == Apply("case", <<condition, result, otherwise>>)
Refusal == [f |-> "refused", of |-> <<>>]

RECURSIVE ReadCount(_, _)
ReadCount(e, node) ==
    IF e = node THEN 1 ELSE FoldLeft(LAMBDA n, a : n + ReadCount(a, node), 0, e.of)

RECURSIVE Subterms(_)
Subterms(e) == {e} \cup UNION {Subterms(e.of[i]) : i \in DOMAIN e.of}

\* A call replays unless it may answer differently the second time.
IsReplayable(e) == \A t \in Subterms(e) : t.f # "draw"

----------------------------------------------------------------------------
(* What the two databases share *)

Truthy(v) == v = Flag(TRUE) \/ (v # Nil /\ "int" \in DOMAIN v /\ v.int # 0)
FirstPresent(a) ==
    IF \A i \in DOMAIN a : a[i] = Nil THEN Nil
    ELSE a[CHOOSE i \in DOMAIN a : a[i] # Nil /\ \A j \in 1..(i - 1) : a[j] = Nil]
Digits(n) == <<"0", "1", "2", "3", "4", "5", "6", "7", "8", "9">>[n + 1]
ToText(v) ==
    IF "int" \notin DOMAIN v THEN v
    ELSE T(IF v.int < 0 THEN <<"-", Digits(-v.int)>> ELSE <<Digits(v.int)>>)
IntsOf(a) == {a[i].int : i \in DOMAIN a}
Greatest(S) == CHOOSE n \in S : \A m \in S : m <= n
Least(S) == CHOOSE n \in S : \A m \in S : n <= m

Kept(s, from, to) == [i \in 1..(IF to < from THEN 0 ELSE to - from + 1) |-> s[from + i - 1]]
TrimEnds(s, chars, leading, trailing) ==
    LET inside == {i \in DOMAIN s : s[i] \notin Range(chars)}
        first == IF leading /\ inside # {} THEN Least(inside) ELSE 1
        last == IF trailing /\ inside # {} THEN Greatest(inside) ELSE Len(s)
    IN IF inside = {} THEN (IF leading \/ trailing THEN <<>> ELSE s) ELSE Kept(s, first, last)
Position(sub, s) ==
    LET at == {i \in 1..(Len(s) + 1) : i + Len(sub) - 1 <= Len(s) /\ Kept(s, i, i + Len(sub) - 1) = sub}
    IN IF at = {} THEN 0 ELSE Least(at)
Code(c) == CHOOSE n \in 1..6 : <<" ", ",", "a", "b", "o", "n">>[n] = c   \* code points of the alphabet

\* Calls both databases answer alike, with the truth values of each.
Shared(f, a, truth) ==
    CASE f = "coalesce" -> FirstPresent(a)
      [] f = "case" -> IF Truthy(a[1]) THEN a[2] ELSE a[3]
      [] f = "isnull" -> truth[a[1] = Nil]
      [] f = "notnull" -> truth[a[1] # Nil]
      [] f = "is" -> truth[a[1] = a[2]]
      [] f = "isnot" -> truth[a[1] # a[2]]
      [] f = "nullif" -> IF a[1] = a[2] THEN Nil ELSE a[1]
      [] f = "not" -> IF a[1] = Nil THEN Nil ELSE truth[~Truthy(a[1])]
      [] f = "and" ->
            IF \E i \in DOMAIN a : a[i] # Nil /\ ~Truthy(a[i]) THEN truth[FALSE]
            ELSE IF \E i \in DOMAIN a : a[i] = Nil THEN Nil ELSE truth[TRUE]
      [] f = "or" ->
            IF \E i \in DOMAIN a : Truthy(a[i]) THEN truth[TRUE]
            ELSE IF \E i \in DOMAIN a : a[i] = Nil THEN Nil ELSE truth[FALSE]
      [] OTHER ->
            IF \E i \in DOMAIN a : a[i] = Nil THEN Nil
            ELSE CASE f = "text" -> ToText(a[1])
                   [] f = "=" -> truth[a[1] = a[2]]
                   [] f = "<>" -> truth[a[1] # a[2]]
                   [] f = "<" -> truth[a[1].int < a[2].int]
                   [] f = ">" -> truth[a[1].int > a[2].int]
                   [] f = "+" -> N(a[1].int + a[2].int)
                   [] f = "-" -> N(a[1].int - a[2].int)
                   [] f = "||" -> T(ToText(a[1]).text \o ToText(a[2]).text)
                   [] f = "length" -> N(Len(a[1].text))
                   [] f = "ltrim" -> T(TrimEnds(a[1].text, a[2].text, TRUE, FALSE))
                   [] f = "rtrim" -> T(TrimEnds(a[1].text, a[2].text, FALSE, TRUE))
                   [] f = "trim" -> T(TrimEnds(a[1].text, a[2].text, TRUE, TRUE))

----------------------------------------------------------------------------
(* SQLite *)

\* substr counts a negative start from the end, gives position 0 a length of
\* its own, and reads a negative length as the characters before the start.
SqliteSubstr(s, start, written) ==
    LET n == Len(s)
        size == IF written < 0 THEN -written ELSE written
        from == IF start < 0 THEN start + n ELSE IF start > 0 THEN start - 1 ELSE 0
        rest == IF start < 0 /\ from < 0 THEN (IF size + from < 0 THEN 0 ELSE size + from)
                ELSE IF start = 0 /\ size > 0 THEN size - 1 ELSE size
        skip == IF from < 0 THEN 0 ELSE from
        back == IF written < 0 THEN skip - rest ELSE skip
        left == IF back < 0 THEN rest + back ELSE rest
        begin == IF back < 0 THEN 0 ELSE back
    IN Kept(s, begin + 1, IF begin + left > n THEN n ELSE begin + left)

SqliteCall(f, a) ==
    CASE f = "typeof" -> IF a[1] = Nil THEN T(<<"null">>)
                         ELSE IF "int" \in DOMAIN a[1] THEN T(<<"integer">>) ELSE T(<<"text">>)
      [] f = "in" ->
            IF a[1] = Nil THEN Nil ELSE Bit(\E i \in 2..Len(a) : a[i] = a[1])
      [] f = "quote" -> CASE a[1] = Nil -> T(<<"N", "U", "L", "L">>)
                          [] "int" \in DOMAIN a[1] -> ToText(a[1])
                          [] OTHER -> T(<<"'">> \o a[1].text \o <<"'">>)
      [] f = "printf" -> [made |-> [i \in DOMAIN a |-> IF a[i] = Nil THEN N(0) ELSE a[i]]]
      [] f = "raise" -> Fails
      [] f \in {"max", "min", "substr", "instr", "unicode"} /\ (\E i \in DOMAIN a : a[i] = Nil) -> Nil
      [] f = "max" -> N(Greatest(IntsOf(a)))
      [] f = "min" -> N(Least(IntsOf(a)))
      [] f = "instr" -> N(Position(a[2].text, a[1].text))
      [] f = "unicode" -> IF a[1].text = <<>> THEN Nil ELSE N(Code(a[1].text[1]))
      [] f = "substr" -> T(SqliteSubstr(a[1].text, a[2].int,
                             IF Len(a) = 3 THEN a[3].int ELSE Len(a[1].text) + 2))
      [] f = "iif" -> IF Truthy(a[1]) THEN a[2] ELSE a[3]
      [] f = "ifnull" -> FirstPresent(a)
      [] OTHER -> Shared(f, a, [b \in BOOLEAN |-> Bit(b)])

RECURSIVE ReplicaValue(_, _)
ReplicaValue(e, row) ==
    CASE e.f = "lit" -> (IF e.val \in {Flag(TRUE), Flag(FALSE)} THEN Bit(e.val.bool) ELSE e.val)
      [] e.f \in {"cell", "draw"} ->
            (IF row[e.at] \in {Flag(TRUE), Flag(FALSE)} THEN Bit(row[e.at].bool) ELSE row[e.at])
      [] OTHER -> SqliteCall(e.f, [i \in DOMAIN e.of |-> ReplicaValue(e.of[i], row)])

----------------------------------------------------------------------------
(* PostgreSQL *)

ServerSubstring(s, from, to) ==
    Kept(s, IF from < 1 THEN 1 ELSE from, IF to > Len(s) THEN Len(s) ELSE to)

StringToArray(text, delimiter) ==
    LET cuts == {0, Len(text) + 1} \cup {i \in DOMAIN text : text[i] = delimiter}
        ends(i) == Least({j \in cuts : j > i})
    IN IF text = <<>> THEN {} ELSE {Kept(text, i + 1, ends(i) - 1) : i \in cuts \ {Len(text) + 1}}

TrueWords == {<<"t", "r", "u", "e">>, <<"y", "e", "s">>, <<"o", "n">>, <<"1">>}
FalseWords == {<<"f", "a", "l", "s", "e">>, <<"n", "o">>, <<"o", "f", "f">>, <<"0">>}
ServerBoolean(text) ==
    LET word == TrimEnds(text, <<" ">>, TRUE, TRUE)
        spells(W) == \E w \in W : IsPrefix(word, w)
    IN IF word = <<>> \/ spells(TrueWords) = spells(FalseWords) THEN Fails ELSE Flag(spells(TrueWords))

ServerCall(f, a) ==
    LET given == SelectSeq(a, LAMBDA v : v # Nil)
        join(sep, vs) == FoldLeft(LAMBDA s, i : s \o (IF i = 1 THEN <<>> ELSE sep) \o ToText(vs[i]).text,
                                  <<>>, [i \in DOMAIN vs |-> i])
    IN CASE f \in {"greatest", "least"} ->
              (IF given = <<>> THEN Nil
               ELSE N(IF f = "greatest" THEN Greatest(IntsOf(given)) ELSE Least(IntsOf(given))))
         [] f = "concat" -> T(join(<<>>, given))
         [] f = "concat_ws" ->
              IF a[1] = Nil THEN Nil ELSE T(join(a[1].text, Tail(given)))
         [] f = "quote_nullable" /\ a[1] = Nil -> T(<<"N", "U", "L", "L">>)
         [] f = "distinct" -> Flag(a[1] # a[2])
         [] f = "not_distinct" -> Flag(a[1] = a[2])
         [] f \in {"any", "all"} /\ a[2] = Nil -> Nil
         [] f = "any" /\ a[2].text = <<>> -> Flag(FALSE)
         [] f = "all" /\ a[2].text = <<>> -> Flag(TRUE)
         [] f \in {"left", "right", "substring", "substring_for", "overlay", "position", "ascii", "quote_nullable",
                   "quote_literal", "any", "all", "boolean", "words", "make"}
              /\ (\E i \in DOMAIN a : a[i] = Nil) -> Nil
         [] f = "left" -> T(ServerSubstring(a[1].text, 1,
                              IF a[2].int < 0 THEN Len(a[1].text) + a[2].int ELSE a[2].int))
         [] f = "right" -> T(ServerSubstring(a[1].text,
                               IF a[2].int < 0 THEN 1 - a[2].int ELSE Len(a[1].text) - a[2].int + 1,
                               Len(a[1].text)))
         [] f = "substring_for" -> IF a[2].int < 0 THEN Fails ELSE T(ServerSubstring(a[1].text, 1, a[2].int))
         [] f = "substring" -> IF Len(a) = 2 THEN T(ServerSubstring(a[1].text, a[2].int, Len(a[1].text)))
                               ELSE IF a[3].int < 0 THEN Fails
                               ELSE T(ServerSubstring(a[1].text, a[2].int, a[2].int + a[3].int - 1))
         [] f = "overlay" ->
              LET size == IF Len(a) = 4 THEN a[4].int ELSE Len(a[2].text)
              IN IF a[3].int < 1 THEN Fails
                 ELSE T(ServerSubstring(a[1].text, 1, a[3].int - 1) \o a[2].text
                          \o ServerSubstring(a[1].text, a[3].int + size, Len(a[1].text)))
         [] f = "position" -> N(Position(a[1].text, a[2].text))
         [] f = "ascii" -> N(IF a[1].text = <<>> THEN 0 ELSE Code(a[1].text[1]))
         [] f \in {"quote_literal", "quote_nullable"} -> T(<<"'">> \o ToText(a[1]).text \o <<"'">>)
         [] f = "any" -> Flag(a[1].text \in StringToArray(a[2].text, a[3].text[1]))
         [] f = "all" -> Flag(a[1].text \notin StringToArray(a[2].text, a[3].text[1]))
         [] f = "boolean" -> IF "int" \in DOMAIN a[1] THEN Flag(a[1].int # 0) ELSE ServerBoolean(a[1].text)
         [] f = "words" -> T(IF a[1].bool THEN <<"t", "r", "u", "e">> ELSE <<"f", "a", "l", "s", "e">>)
         [] f = "make" -> [made |-> a]
         [] OTHER -> Shared(f, a, [b \in BOOLEAN |-> Flag(b)])

RECURSIVE ServerValue(_, _)
ServerValue(e, row) ==
    CASE e.f = "lit" -> e.val
      [] e.f \in {"cell", "draw"} -> row[e.at]
      [] OTHER -> ServerCall(e.f, [i \in DOMAIN e.of |-> ServerValue(e.of[i], row)])

\* The stored form of a server's value: a boolean is 1 or 0.
AsStored(v) == IF v \in {Flag(TRUE), Flag(FALSE)} THEN Bit(v.bool) ELSE v

----------------------------------------------------------------------------
(* The forward translator's closed forms, over translated arguments *)

Zero == K(N(0))
One == K(N(1))
Empty == K(T(<<>>))

\* Fault: a negative count reaches substr as it is.
LeftClosedFormPlain(s, n) == Apply("substr", <<s, One, n>>)

LeftClosedForm(s, n) ==
    LET fromEnd == Apply("max", <<Apply("+", <<Apply("length", <<s>>), n>>), Zero>>)
    IN Apply("substr", <<s, One, CaseWhen(Apply("<", <<n, Zero>>), fromEnd, n)>>)

RightClosedForm(s, n) ==
    LET dropFront == Apply("-", <<One, n>>)
        lastN == Apply("max", <<Apply("+", <<Apply("-", <<Apply("length", <<s>>), n>>), One>>), One>>)
    IN Apply("substr", <<s, CaseWhen(Apply("<", <<n, Zero>>), dropFront, lastN)>>)

IsNegativeLiteral(e) == e.f = "lit" /\ "int" \in DOMAIN e.val /\ e.val.int < 0

TranslateSubstring(e, a) ==
    LET clipped == Apply("-", <<Apply("+", <<a[3], Apply("min", <<a[2], One>>)>>), One>>)
    IN IF Len(a) = 3 /\ (~IsReplayable(e.of[2]) \/ IsNegativeLiteral(e.of[3])) THEN Refusal
       ELSE Apply("substr", <<a[1], Apply("max", <<a[2], One>>)>>
                              \o (IF Len(a) = 3 THEN <<Apply("max", <<clipped, Zero>>)>> ELSE <<>>))

TranslateSubstringFor(e, a) ==
    IF IsNegativeLiteral(e.of[2]) THEN Refusal ELSE Apply("substr", <<a[1], One, a[2]>>)

TranslateOverlay(e, a) ==
    LET size == IF Len(a) = 4 THEN a[4] ELSE Apply("length", <<a[2]>>)
        prefix == Apply("substr", <<a[1], One, Apply("-", <<a[3], One>>)>>)
        suffix == Apply("substr", <<a[1], Apply("+", <<a[3], size>>)>>)
    IN IF ~IsReplayable(e.of[1]) \/ IsNegativeLiteral(e.of[3]) \/ e.of[3] = Zero THEN Refusal
       ELSE Apply("||", <<Apply("||", <<prefix, a[2]>>), suffix>>)

TranslatePosition(a) == Apply("instr", <<a[2], a[1]>>)

WrapWithCoalesce(e) == Apply("coalesce", <<e, Empty>>)
BuildConcatenation(es) == FoldLeft(LAMBDA l, r : Apply("||", <<l, r>>), Head(es), Tail(es))
AnyNotNull(es) ==
    FoldLeft(LAMBDA l, r : Apply("or", <<l, Apply("notnull", <<r>>)>>), Apply("notnull", <<Head(es)>>), Tail(es))
BuildConcatWsPiece(value, separator, prior) ==
    CaseWhen(Apply("isnull", <<value>>), Empty,
             IF prior = <<>> THEN value
             ELSE Apply("||", <<CaseWhen(AnyNotNull(prior), separator, Empty), value>>))
BuildConcatWs(separator, values) ==
    CaseWhen(Apply("isnull", <<separator>>), K(Nil),
             BuildConcatenation([i \in DOMAIN values |->
                 BuildConcatWsPiece(values[i], separator, SubSeq(values, 1, i - 1))]))

\* Each slot starts at one argument and wraps around, so that it is NULL only
\* when every argument is.
NullIgnoringExtremum(a, name) ==
    IF Len(a) = 1 THEN a[1]
    ELSE Apply(name, [start \in DOMAIN a |->
                        Apply("coalesce", SubSeq(a, start, Len(a)) \o SubSeq(a, 1, start - 1))])

AsciiCodePoint(e) == CaseWhen(Apply("=", <<e, Empty>>), Zero, Apply("unicode", <<e>>))

\* Cast to text first, since quote answers a number bare.
TranslateQuote(a, nullable) ==
    LET quoted == Apply("quote", <<Apply("text", a)>>)
    IN IF nullable THEN quoted ELSE Apply("nullif", <<quoted, K(T(<<"N", "U", "L", "L">>))>>)

MakeClosedForm(a) ==
    CaseWhen(Apply("and", [i \in DOMAIN a |-> Apply("notnull", <<a[i]>>)]), Apply("printf", a), K(Nil))

DelimitedMembership(left, text, delimiter, negated) ==
    LET surrounded(e) == BuildConcatenation(<<delimiter, e, delimiter>>)
        guarded ==
            CaseWhen(Apply("notnull", <<text>>),
                     Apply("and", <<Apply("<>", <<text, Empty>>),
                                    Apply("=", <<Apply("instr", <<left, delimiter>>), Zero>>),
                                    Apply(">", <<Apply("instr", <<surrounded(text), surrounded(left)>>), Zero>>)>>),
                     K(Nil))
    IN IF negated THEN Apply("not", <<guarded>>) ELSE guarded

TrueSpellings == <<<<"t">>, <<"t", "r">>, <<"t", "r", "u">>, <<"t", "r", "u", "e">>, <<"y">>, <<"y", "e">>,
                   <<"y", "e", "s">>, <<"o", "n">>, <<"1">>>>
FalseSpellings == <<<<"f">>, <<"f", "a">>, <<"f", "a", "l">>, <<"f", "a", "l", "s">>, <<"f", "a", "l", "s", "e">>,
                    <<"n">>, <<"n", "o">>, <<"o", "f">>, <<"o", "f", "f">>, <<"0">>>>
TranslateBooleanCast(e) ==
    LET spelled == Apply("trim", <<e, K(T(<<" ">>))>>)
        within(x, words) == Apply("in", <<x>> \o [i \in DOMAIN words |-> K(T(words[i]))])
    IN IF e.f = "lit" /\ "text" \in DOMAIN e.val
         THEN LET word == TrimEnds(e.val.text, <<" ">>, TRUE, TRUE)
              IN IF word \in Range(TrueSpellings) THEN One
                 ELSE IF word \in Range(FalseSpellings) THEN Zero ELSE Refusal
       ELSE CaseWhen(Apply("isnull", <<e>>), K(Nil),
              CaseWhen(within(Apply("typeof", <<e>>), <<<<"integer">>, <<"real">>>>),
                       Apply("<>", <<e, Zero>>),
                       CaseWhen(within(spelled, TrueSpellings), One,
                         CaseWhen(within(spelled, FalseSpellings), Zero, Apply("raise", <<e>>)))))

RenderBooleanAsText(e) ==
    LET word(b) == K(T(IF b THEN <<"t", "r", "u", "e">> ELSE <<"f", "a", "l", "s", "e">>))
    IN IF e.f = "lit" THEN word(e.val = Flag(TRUE))
       ELSE CaseWhen(e, word(TRUE), CaseWhen(Apply("not", <<e>>), word(FALSE), K(Nil)))

\* The arguments a call's closed form names more than once.
Duplicates(f, a) ==
    CASE f \in {"left", "right", "greatest", "least", "make"} /\ Len(a) >= 2 -> Range(a)
      [] f \in {"any", "all"} -> {a[1], a[2]}
      [] f = "ascii" -> {a[1]}
      [] OTHER -> {}

TranslateCatalogFunction(e, a) ==
    CASE \E d \in Duplicates(e.f, a) : ~IsReplayable(d) -> Refusal
      [] e.f = "left" -> LeftClosedForm(a[1], a[2])
      [] e.f = "right" -> RightClosedForm(a[1], a[2])
      [] e.f = "substring" -> TranslateSubstring(e, a)
      [] e.f = "substring_for" -> TranslateSubstringFor(e, a)
      [] e.f = "overlay" -> TranslateOverlay(e, a)
      [] e.f = "position" -> TranslatePosition(a)
      [] e.f = "concat" -> BuildConcatenation([i \in DOMAIN a |-> WrapWithCoalesce(a[i])])
      [] e.f = "concat_ws" -> IF Len(a) < 2 THEN Refusal ELSE BuildConcatWs(a[1], Tail(a))
      [] e.f = "greatest" -> NullIgnoringExtremum(a, "max")
      [] e.f = "least" -> NullIgnoringExtremum(a, "min")
      [] e.f = "ascii" -> AsciiCodePoint(a[1])
      [] e.f \in {"quote_literal", "quote_nullable"} -> TranslateQuote(a, e.f = "quote_nullable")
      [] e.f = "make" -> MakeClosedForm(a)
      [] e.f \in {"any", "all"} ->
            IF a[3].f # "lit" \/ Len(a[3].val.text) # 1 THEN Refusal
            ELSE DelimitedMembership(a[1], a[2], a[3], e.f = "all")
      [] e.f = "boolean" -> TranslateBooleanCast(a[1])
      [] e.f = "words" -> RenderBooleanAsText(a[1])
      [] e.f = "distinct" -> Apply("isnot", a)
      [] e.f = "not_distinct" -> Apply("is", a)
      [] OTHER -> Apply(e.f, a)

RECURSIVE TranslateTerm(_)
TranslateTerm(e) ==
    LET a == [i \in DOMAIN e.of |-> TranslateTerm(e.of[i])]
    IN IF e.of = <<>> THEN e
       ELSE IF \E i \in DOMAIN a : a[i] = Refusal THEN Refusal
       ELSE TranslateCatalogFunction(e, a)

----------------------------------------------------------------------------
(* The reverse translator *)

\* The operands <<left, text, delimiter, negated>> of a search, when
\* delimited_membership would have built exactly that expression from them.
MembershipOperands(e) ==
    LET negated == e.f = "not"
        body == IF negated THEN e.of[1] ELSE e
        isSearch == body.f = "case" /\ body.of[2].f = "and" /\ Len(body.of[2].of) = 3
                      /\ body.of[2].of[3].f = ">" /\ body.of[2].of[3].of[1].f = "instr"
        operand(i) == body.of[2].of[3].of[1].of[i]
        isSurrounded(i) == operand(i).f = "||" /\ operand(i).of[1].f = "||"
        found == <<operand(2).of[1].of[2], operand(1).of[1].of[2], operand(1).of[1].of[1], negated>>
    IN IF isSearch /\ isSurrounded(1) /\ isSurrounded(2)
            /\ DelimitedMembership(found[1], found[2], found[3], found[4]) = e
         THEN {found} ELSE {}

\* The argument of the shape ascii() is lowered to.
AsciiArgument(e) ==
    IF e.f = "case" /\ e.of[3].f = "unicode" /\ AsciiCodePoint(e.of[3].of[1]) = e THEN {e.of[3].of[1]} ELSE {}

\* Fault: min and max become LEAST and GREATEST whatever their arguments.
ReverseExtremumAlways(e, a, name) == Apply(name, a)

ReverseExtremum(e, a, name) ==
    IF \A i \in DOMAIN e.of : e.of[i].f = "lit" /\ e.of[i].val # Nil THEN Apply(name, a) ELSE Refusal

IsDefinitelyNonText(e) ==
    \/ e.f = "lit" /\ e.val # Nil /\ "text" \notin DOMAIN e.val
    \/ e.f = "cell" /\ e.at \in NumberCells

ReverseRenames == [quote |-> "quote_nullable", ifnull |-> "coalesce"]

ReverseFunction(e, a) ==
    CASE e.f \in DOMAIN ReverseRenames -> Apply(ReverseRenames[e.f], a)
      [] e.f = "instr" -> Apply("position", <<a[2], a[1]>>)
      [] e.f = "unicode" -> Apply("nullif", <<Apply("ascii", a), Zero>>)
      [] e.f = "max" -> ReverseExtremum(e, a, "greatest")
      [] e.f = "min" -> ReverseExtremum(e, a, "least")
      [] e.f = "substr" -> Apply("substring", a)
      [] e.f = "iif" -> CaseWhen(a[1], a[2], a[3])
      [] e.f \in {"typeof", "printf", "raise"} -> Refusal
      [] e.f = "||" /\ (\E i \in DOMAIN e.of : IsDefinitelyNonText(e.of[i])) -> Refusal
      [] OTHER -> Apply(e.f, a)

RECURSIVE ReverseTranslate(_)
ReverseTranslate(e) ==
    LET memberships == MembershipOperands(e)
        arguments == AsciiArgument(e)
        a == [i \in DOMAIN e.of |-> ReverseTranslate(e.of[i])]
        Of(f, args) == IF \E i \in DOMAIN args : args[i] = Refusal THEN Refusal ELSE Apply(f, args)
    IN CASE e.of = <<>> -> e
         [] arguments # {} -> LET x == CHOOSE x \in arguments : TRUE IN Of("ascii", <<ReverseTranslate(x)>>)
         [] memberships # {} ->
              LET m == CHOOSE m \in memberships : TRUE
              IN IF ~IsReplayable(m[1]) \/ ~IsReplayable(m[2]) THEN Refusal
                 ELSE Of(IF m[4] THEN "all" ELSE "any", <<ReverseTranslate(m[1]), ReverseTranslate(m[2]), m[3]>>)
         [] \E i \in DOMAIN a : a[i] = Refusal -> Refusal
         [] OTHER -> ReverseFunction(e, a)

----------------------------------------------------------------------------
(* Aggregates: a call names its function, its separator, whether it is      *)
(* DISTINCT and whether it has a FILTER, and reads a group of rows          *)

Comma == T(<<",">>)
AggregateCall(name, sep, distinct, filter) == [name |-> name, sep |-> sep, distinct |-> distinct, filter |-> filter]
NoAggregate == AggregateCall("refused", Comma, FALSE, FALSE)

Input(q, group) ==
    LET kept == SelectSeq(group, LAMBDA r : ~q.filter \/ r.pass)
        values == [i \in DOMAIN kept |-> kept[i].value]
        present == SelectSeq(values, LAMBDA v : v # Nil)
        read == IF q.name \in {"json_agg", "json_group_array"} THEN values ELSE present
    IN IF q.distinct THEN SetToSeq(Range(read)) ELSE read

\* The parts joined, in no particular order: neither call asks for one.
PartsOf(values) == [v \in Range(values) |-> Cardinality({i \in DOMAIN values : values[i] = v})]
Joined(values, sep) == IF values = <<>> THEN Nil ELSE [parts |-> PartsOf(values), sep |-> sep]

ServerAggregate(q, group) ==
    LET values == Input(q, group)
        sum == N(FoldLeft(LAMBDA n, v : n + v.int, 0, values))
    IN CASE q.name = "string_agg" -> Joined(values, q.sep)
         [] q.name = "json_agg" -> IF values = <<>> THEN Nil ELSE [array |-> PartsOf(values)]
         [] q.name = "coalesced_sum" -> sum

SqliteAggregate(q, group) ==
    LET values == Input(q, group)
        sum == N(FoldLeft(LAMBDA n, v : n + v.int, 0, values))
    IN CASE q.name = "group_concat" ->
              IF q.distinct /\ q.sep # Comma THEN Fails ELSE Joined(values, q.sep)
         [] q.name = "nullif_json_group_array" ->
              LET array == [array |-> PartsOf(Input([q EXCEPT !.name = "json_group_array"], group))]
              IN IF array = [array |-> <<>>] THEN Nil ELSE array
         [] q.name = "total" -> sum

\* string_agg keeps DISTINCT only beside the comma group_concat joins with.
TranslateAggregate(q) ==
    CASE q.name = "string_agg" ->
            IF q.distinct /\ q.sep # Comma THEN NoAggregate ELSE [q EXCEPT !.name = "group_concat"]
      [] q.name = "json_agg" -> [q EXCEPT !.name = "nullif_json_group_array"]
      [] OTHER -> NoAggregate

ReverseAggregate(q) ==
    CASE q.name = "group_concat" -> [q EXCEPT !.name = "string_agg"]
      [] q.name = "nullif_json_group_array" -> [q EXCEPT !.name = "json_agg"]
      [] q.name = "total" -> [q EXCEPT !.name = "coalesced_sum", !.filter = FALSE, !.distinct = FALSE]

----------------------------------------------------------------------------
(* One call and the row, or the group of rows, it reads *)

NoCall == [kind |-> "none"]
CallInit == call = NoCall

TranslateCall ==
    \/ \E e \in ServerCalls : \E r \in RowsOf(e) : call' = [kind |-> "forward", expr |-> e, row |-> r]
    \/ \E e \in SqliteCalls : \E r \in RowsOf(e) : call' = [kind |-> "reverse", expr |-> e, row |-> r]
    \/ \E q \in Aggregates, g \in Groups : call' = [kind |-> "aggregate", expr |-> q, row |-> g]
    \/ \E q \in SqliteAggregates, g \in Groups : call' = [kind |-> "reverse_aggregate", expr |-> q, row |-> g]

----------------------------------------------------------------------------
(* Properties *)

\* An emitted expression reads a volatile operand at most once: the closed
\* forms that would read it twice are refused.
VolatileOperandsAreReadOnce ==
    call.kind = "forward" =>
        LET e == TranslateTerm(call.expr) IN \A t \in Subterms(e) : t.f = "draw" => ReadCount(e, t) = 1

\* What the replica answers to a translated call is what the server answers
\* to the call as written, on every row and group: NULLs skipped or carried
\* along, positions before the text and past it, negative counts, empty
\* texts. A call the server fails on is not compared, except that a failing
\* boolean spelling must fail in the replica too. A volatile operand is read
\* once, as the server does.
CallsAgree ==
    /\ call.kind = "forward" =>
        LET e == TranslateTerm(call.expr)
            answer == ServerValue(call.expr, call.row)
        IN \/ e = Refusal
           \/ answer = Fails /\ call.expr.f # "boolean"
           \/ ReplicaValue(e, call.row) = AsStored(answer)
    /\ call.kind = "aggregate" =>
        LET q == TranslateAggregate(call.expr)
        IN q = NoAggregate \/ SqliteAggregate(q, call.row) = ServerAggregate(call.expr, call.row)
    /\ VolatileOperandsAreReadOnce

\* The two calls that reach the server under their name and mean another thing
\* there: quote over a number, which SQLite answers bare, and substr from
\* before the first character or of a negative length.
MeansOther(t, row) ==
    LET a == [i \in DOMAIN t.of |-> ReplicaValue(t.of[i], row)]
    IN \/ t.f = "quote" /\ a[1] # Nil /\ "int" \in DOMAIN a[1]
       \/ t.f = "substr" /\ Nil \notin Range(a) /\ (a[2].int < 1 \/ (Len(a) = 3 /\ a[3].int < 0))

\* What the server answers to a reversed call is what the replica answers to
\* the call as written, with the exception of quote and substr where they mean
\* another thing; and a call translated and then reversed, when both
\* translations accept it, still means what was written.
ReversedCallsAgree ==
    /\ call.kind = "reverse" =>
        LET e == ReverseTranslate(call.expr)
        IN \/ e = Refusal
           \/ \E t \in Subterms(call.expr) : MeansOther(t, call.row)
           \/ AsStored(ServerValue(e, call.row)) = ReplicaValue(call.expr, call.row)
    /\ call.kind = "forward" =>
        LET e == TranslateTerm(call.expr)
            back == IF e = Refusal THEN e ELSE ReverseTranslate(e)
            answer == ServerValue(call.expr, call.row)
        IN back = Refusal \/ answer = Fails \/ AsStored(ServerValue(back, call.row)) = AsStored(answer)
    /\ call.kind = "reverse_aggregate" =>
        ServerAggregate(ReverseAggregate(call.expr), call.row) = SqliteAggregate(call.expr, call.row)
=============================================================================
