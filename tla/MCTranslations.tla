--------------------------- MODULE MCTranslations ---------------------------
(* The pure algorithms of the translator side by side: every behaviour picks *)
(* one input of one of them.                                                 *)
EXTENDS TriggerBody, RowTriggers, TemporalArithmetic, ArrayCalls, QueryShapes

----------------------------------------------------------------------------
(* Trigger bodies: one IF of up to three branches between other statements *)

MCRows == {0, 1, Null}
MCDeclared == ("v" :> 0) @@ ("w" :> Null)
Simple == {Assign("v", Const(1)), Assign("v", Column), Assign("w", Var("v")),
           Insert(Var("v")), Insert(Var("w")), Update(Var("v")), ReturnNull}
Blocks == {<<>>} \cup {<<s>> : s \in Simple} \cup {<<Assign("v", Column), Insert(Var("v"))>>}
Conditions == {Is(Column, 1), Is(Var("v"), 1), Seen, TgOp("INSERT")}
MCIfs == {If(<< <<c, b>> >> \o e \o l) : c \in Conditions, b \in Blocks,
        e \in {<<>>} \cup {<< <<Is(Column, 0), d>> >> : d \in Blocks},
        l \in {<<>>} \cup {<< <<Else, d>> >> : d \in {<<Assign("v", Column)>>, <<Assign("w", Var("v"))>>,
                                                 <<Insert(Var("w"))>>, <<Update(Var("v"))>>, <<ReturnNull>>}}}
Before == {<<>>, <<Assign("w", Column)>>, <<Assign("v", Column)>>, <<Insert(Column)>>}
After == {<<ReturnNew>>, <<Insert(Var("v"))>>, <<Insert(Var("w")), Update(Var("v"))>>}
MCBodies == {<<i>> \o z : i \in MCIfs, z \in After}
              \cup {a \o <<i, Insert(Var("w")), Update(Var("v"))>> : a \in Before, i \in MCIfs}
MCEvents == {"INSERT"}

----------------------------------------------------------------------------
(* Maintenance triggers: up to two assignments to two columns              *)

Assigns == {[column |-> c, expr |-> e] : c \in Maintained,
            e \in {Expr("none", 1), Expr("b", 1), Expr("c", 0)}}
Chains == {<<p>> : p \in Assigns} \cup {<<p, q>> : p \in Assigns, q \in Assigns}
FewAssigns == {[column |-> "b", expr |-> Expr("a", 1)], [column |-> "c", expr |-> Expr("b", 1)]}
FewChains == {<<p>> : p \in FewAssigns} \cup {<<p, q>> : p \in FewAssigns, q \in FewAssigns}
Whens(events) == {[kind |-> "new is", column |-> "b", value |-> 1]}
                   \cup (IF events = {"UPDATE"} THEN {[kind |-> "changed", column |-> "b"]} ELSE {})
TriggersOf(e, whens, chains) ==
    [events : {e}, period : {"before"}, rows : {"row"}, transition : {FALSE}, when : whens, chain : chains]
MCTriggers == UNION {TriggersOf({e}, {NoWhen}, Chains \cup FewChains) : e \in {"INSERT", "UPDATE"}}
                \cup TriggersOf({"INSERT", "UPDATE"}, {NoWhen}, FewChains)
                \cup UNION {TriggersOf(e, Whens(e), FewChains) : e \in {{"INSERT"}, {"UPDATE"}, {"INSERT", "UPDATE"}}}

----------------------------------------------------------------------------
(* Dates and intervals: ends of months, of leap years and of centuries, in *)
(* half seconds, two seconds to the hour                                   *)

Dates == {<<2024, 1, 31>>, <<2024, 2, 29>>, <<2023, 3, 1>>, <<2023, 12, 31>>,
          <<2000, 1, 1>>, <<1999, 8, 30>>, <<1900, 2, 28>>}
Moments == {Moment("date", d[1], d[2], d[3], 0) : d \in Dates}
           \cup {Moment(k, d[1], d[2], d[3], t) : k \in {"stamp", "zoned"}, d \in Dates, t \in {0, 50, 51}}
Intervals ==
    {<<Written(1, 1, "month")>>, <<Written(-1, 1, "month"), Written(1, 1, "day")>>,
     <<Written(1, 1, "year"), Written(1, 1, "month")>>, <<Written(17, 10, "month")>>,
     <<Written(14, 10, "year")>>, <<Written(-14, 10, "year")>>, <<Written(3, 2, "week")>>,
     <<Written(26, 1, "hour"), Written(-3, 2, "second")>>, <<Written(0, 1, "day")>>}
TruncFields == {"second", "day", "hour", "week", "month", "quarter", "year", "decade", "century"}
Once(S) ==
    {PlusInterval(e, i, k, g) : e \in S, i \in Intervals, k \in {1, 2}, g \in {1, -1}}
        \cup {PlusDays(e, 40, g) : e \in S, g \in {1, -1}}
        \cup {AtZone(e, o) : e \in S, o \in {0, 22, -6}}
        \cup {DateTrunc(e, f) : e \in S, f \in TruncFields}
FewMoments == {Moment("date", 2024, 1, 31, 0), Moment("stamp", 2024, 2, 1, 0),
               Moment("zoned", 2023, 12, 31, 81), Moment("stamp", 2023, 12, 31, 95)}
PairsOf(S, R) == UNION {{DateMinus(a, b), EpochOf(a, b), Earlier(a, b)} : a \in S, b \in R}
MCTemporals ==
    Moments \cup Once(Moments) \cup Once(Once(FewMoments)) \cup PairsOf(Moments, Moments)
        \cup PairsOf(Once(FewMoments), FewMoments) \cup PairsOf(FewMoments, Once(FewMoments))
MCLiterals ==
    [year : {0, 1, 4, 100, 1900, 1970, 2000, 2023, 2024, 9999, 10000}, month : {0, 1, 2, 4, 12, 13},
     day : {1, 2, 28, 29, 30, 31, 32}, tick : {0, 1, 95, 96}, offset : {0, 48, -58}, zoned : BOOLEAN]
Tokens == {Number(1, 1), Number(-3, 2), Number(7, 5), Word("day"), Word("month"), Word("year"),
           Word("week"), ClockToken(-121), ClockToken(3)}
MCTexts == UNION {[1..n -> Tokens] : n \in 0..4}

----------------------------------------------------------------------------
(* Calls over two texts, two numbers, a boolean and a text to be cast      *)

SText == Cell("s")
SOther == Cell("t")
SInt == Cell("n")
SIntToo == Cell("m")
CellTexts == {Nil, T(<<>>), T(<<"a">>), T(<<"a", "b">>), T(<<",", "a">>), T(<<"a", ",", "b">>)}
CellValues(c) ==
    CASE c \in {"s", "t"} -> CellTexts
      [] c = "w" -> {Nil} \cup {T(w) : w \in {<<>>, <<"t">>, <<"t", "r">>, <<"o">>, <<" ", "o", "n">>, <<"o", "f">>,
                                   <<"n">>, <<"y", "e", "s", "n">>, <<"1">>}}
      [] c \in {"n", "m"} -> {Nil} \cup {N(i) : i \in {-2, -1, 0, 1, 2, 4}}
      [] c = "b" -> {Nil, Flag(TRUE), Flag(FALSE)}
RECURSIVE RowsOver(_)
RowsOver(cells) ==
    IF cells = {} THEN {<<>>}
    ELSE LET c == CHOOSE c \in cells : TRUE IN {(c :> v) @@ r : v \in CellValues(c), r \in RowsOver(cells \ {c})}
MCRowsOf(e) == RowsOver({t.at : t \in {u \in Subterms(e) : u.f \in {"cell", "draw"}}})

IntArguments == {SInt, K(N(-1)), K(N(0)), K(N(2)), K(Nil)}
TextArguments == {SText, K(T(<<"a">>))}
PlainCalls ==
    {Apply(f, <<s, n>>) : f \in {"left", "right", "substring", "substring_for"}, s \in TextArguments, n \in IntArguments}
      \cup {Apply("substring", <<s, n, m>>) : s \in TextArguments, n \in IntArguments, m \in {SIntToo, K(N(-1)), K(N(1))}}
      \cup {Apply("overlay", <<s, SOther, n>>) : s \in TextArguments, n \in IntArguments}
      \cup {Apply("overlay", <<s, SOther, n, m>>) : s \in TextArguments, n \in IntArguments, m \in {K(N(1)), K(N(0))}}
      \cup {Apply(f, <<s, SOther>>) : f \in {"position", "ltrim", "rtrim", "trim", "concat", "concat_ws", "distinct", "not_distinct"},
                s \in TextArguments}
      \cup {Apply(f, <<SText, SOther, SInt>>) : f \in {"concat", "concat_ws"}}
      \cup {Apply("concat_ws", <<K(T(<<",">>)), SText, SInt, SOther>>)}
      \cup {Apply(f, <<SInt, SIntToo>>) : f \in {"greatest", "least"}}
      \cup {Apply(f, <<SInt, SIntToo, K(N(1))>>) : f \in {"greatest", "least"}}
      \cup {Apply(f, <<SInt>>) : f \in {"greatest", "least", "boolean", "quote_literal", "quote_nullable"}}
      \cup {Apply(f, <<SText>>) : f \in {"ascii", "quote_literal", "quote_nullable", "length"}}
      \cup {Apply("make", <<SInt, SIntToo, K(N(3))>>)}
      \cup {Apply(f, <<s, SOther, K(T(d))>>) : f \in {"any", "all"}, s \in TextArguments, d \in {<<",">>, <<>>, <<"a", "b">>}}
      \cup {Apply("boolean", <<e>>) : e \in {Cell("w"), K(T(<<"o">>)), K(T(<<" ", "o", "f">>)), K(T(<<"y">>))}}
      \cup {Apply("words", <<e>>) : e \in {Cell("b"), K(Flag(TRUE)), K(Flag(FALSE))}}
VolatileCalls ==
    {Apply("left", <<SText, Draw("n")>>), Apply("left", <<Draw("s"), SInt>>), Apply("right", <<SText, Draw("n")>>),
     Apply("substring", <<SText, Draw("n")>>), Apply("substring", <<SText, Draw("n"), SIntToo>>),
     Apply("substring", <<Draw("s"), SInt, SIntToo>>), Apply("substring", <<SText, SInt, Draw("m")>>),
     Apply("overlay", <<Draw("s"), SOther, SInt>>), Apply("greatest", <<Draw("n"), SIntToo>>), Apply("greatest", <<Draw("n")>>),
     Apply("ascii", <<Draw("s")>>), Apply("make", <<SInt, Draw("m"), K(N(3))>>), Apply("concat", <<Draw("s"), SOther>>),
     Apply("any", <<Draw("s"), SOther, K(Comma)>>), Apply("position", <<Draw("s"), SOther>>)}
NestedCalls ==
    {Apply(f, <<Apply(g, <<SText, SOther>>), n>>) : f \in {"left", "right", "substring"}, g \in {"concat", "trim"},
        n \in {SInt, K(N(-1))}}
      \cup {Apply("concat_ws", <<SOther, Apply("left", <<SText, SInt>>), Apply("words", <<Cell("b")>>)>>),
            Apply("greatest", <<Apply("position", <<SOther, SText>>), Apply("ascii", <<SText>>), SInt>>),
            Apply("any", <<Apply("left", <<SText, K(N(1))>>), SOther, K(Comma)>>)}
MCCalls == PlainCalls \cup VolatileCalls \cup NestedCalls
MCSqliteCalls ==
    {Apply(f, <<SText, SOther>>) : f \in {"instr", "ltrim", "rtrim", "trim", "||", "ifnull", "is", "isnot", "="}}
      \cup {Apply(f, <<SText>>) : f \in {"unicode", "length", "quote"}}
      \cup {Apply("unicode", <<Apply("||", <<SText, SOther>>)>>)}
      \cup {Apply("ifnull", <<Apply("unicode", <<SText>>), K(N(0))>>)}
      \cup {Apply(f, <<SInt, SIntToo>>) : f \in {"max", "min", "="}}
      \cup {Apply(f, <<K(N(1)), K(N(2))>>) : f \in {"max", "min"}}
      \cup {Apply("max", <<K(N(1)), K(Nil)>>)}
      \cup {Apply("iif", <<Apply("=", <<SText, SOther>>), SText, K(T(<<>>))>>)}
      \cup {Apply("quote", <<e>>) : e \in {SInt, K(N(2)), Apply("||", <<SText, SOther>>)}}
      \cup {Apply("substr", <<SText, n>>) : n \in {K(N(1)), K(N(4)), SInt}}
      \cup {Apply("substr", <<SText, SInt, SIntToo>>)}
      \cup {Apply("substr", <<SText, Apply("max", <<K(N(1)), K(N(2))>>), Apply("length", <<SOther>>)>>)}
      \cup {AsciiCodePoint(Apply("ltrim", <<SText, SOther>>)),
            CaseWhen(Apply("=", <<SText, Empty>>), Zero, Apply("unicode", <<SOther>>)),
            DelimitedMembership(SText, SOther, K(Comma), FALSE), DelimitedMembership(SText, SOther, K(Comma), TRUE)}
Separators == {Comma, T(<<"a">>)}
MCAggregates == {AggregateCall(n, sp, d, fl) : n \in {"string_agg", "json_agg"}, sp \in Separators, d \in BOOLEAN, fl \in BOOLEAN}
MCSqliteAggregates ==
    {AggregateCall("group_concat", Comma, d, fl) : d \in BOOLEAN, fl \in BOOLEAN}
      \cup {AggregateCall("group_concat", T(<<"a">>), FALSE, fl) : fl \in BOOLEAN}
      \cup {AggregateCall("nullif_json_group_array", Comma, d, fl) : d \in BOOLEAN, fl \in BOOLEAN}
      \cup {AggregateCall("total", Comma, FALSE, FALSE)}
MCGroups == UNION {[1..k -> [value : {Nil, N(1), N(2)}, pass : BOOLEAN]] : k \in 0..3}

----------------------------------------------------------------------------
(* Arrays of up to three elements, NULLs among them, and small documents   *)

Elements == {Nil, N(1), N(2)}
Arrays == {Nil} \cup {List(s) : s \in UNION {[1..n -> Elements] : n \in 0..3}}
ArrayQuery(op, of) == [op |-> op, of |-> of, cmp |-> "none", form |-> "none"]
MCArrayInputs ==
    {ArrayQuery(op, <<a, v>>) : op \in {"array_append", "array_position", "array_positions", "array_remove"},
        a \in Arrays, v \in Elements}
      \cup {ArrayQuery(op, <<a, N(1)>>) : op \in {"array_length", "array_upper", "array_lower", "cardinality"}, a \in Arrays}
      \cup {ArrayQuery("array_prepend", <<v, a>>) : a \in Arrays, v \in Elements}
      \cup {ArrayQuery("array_to_string", <<a, s>>) : a \in Arrays, s \in {Nil, T(<<>>), Comma}}
      \cup {ArrayQuery("array_replace", <<a, v, w>>) : a \in Arrays, v \in Elements, w \in Elements}
      \cup {ArrayQuery(op, <<a, b>>) : op \in {"array_cat", "overlap"}, a \in Arrays, b \in Arrays}
      \cup {ArrayQuery("contains", <<a, b>>) : a \in Arrays, b \in Arrays}
      \cup {ArrayQuery("||", <<a, b>>) @@ [kinds |-> <<"array", "array">>, lit |-> <<FALSE, FALSE>>] :
               a \in Arrays, b \in Arrays}
      \cup {ArrayQuery("||", <<a, v>>) @@ [kinds |-> <<"array", "element">>, lit |-> <<FALSE, l>>] :
               a \in Arrays, v \in Elements, l \in BOOLEAN}
      \cup {ArrayQuery("||", <<v, a>>) @@ [kinds |-> <<"element", "array">>, lit |-> <<l, FALSE>>] :
               a \in Arrays, v \in Elements, l \in BOOLEAN}
      \cup {ArrayQuery("subscript", <<a, N(i)>>) @@ [lit |-> <<FALSE, l>>] : a \in Arrays, i \in -1..4, l \in BOOLEAN}
      \cup {ArrayQuery("subscript", <<a, Nil>>) @@ [lit |-> <<FALSE, FALSE>>] : a \in Arrays}
      \cup {[op |-> op, of |-> <<v, a>>, cmp |-> c, form |-> "value"] :
               op \in {"any", "all"}, v \in Elements, a \in Arrays, c \in {"=", "<>", ">"}}
      \cup {[op |-> op, of |-> <<v, a>>, cmp |-> c, form |-> f] :
               op \in {"any", "all"}, v \in Elements, a \in Arrays \ {Nil}, c \in {"=", "<>", ">"},
               f \in {"elements", "subquery"}}

SetFunctions == [over : {"elements", "each", "keys"}, binary : BOOLEAN, text : BOOLEAN]
                  \cup [over : {"unnest"}, ordinality : BOOLEAN]
KeyLists == {<<>>, << <<2>>, <<1>> >>, << <<1, 1>>, <<2>>, <<1>> >>, << <<2, 1>>, <<1, 2>>, <<1, 1, 1>> >>}
DocumentsOf(f) ==
    UNION {[f : {f}, keys : {k}, vals : [DOMAIN k -> {Nil, N(1), T(<<"a">>)}],
            alias : {"", "e"}, cols : {<<>>, <<"c">>, <<"c", "d">>}] :
           k \in KeyLists}
MCDocuments == UNION {DocumentsOf(f) : f \in SetFunctions}

----------------------------------------------------------------------------
(* Queries on tables of up to three rows of two columns                     *)

QueryRow(x, y) == [a |-> x, b |-> y]
QueryRows == {QueryRow(x, y) : x \in {Void, 1}, y \in {Void, 1, 2}}
MCQueryTables == {<<>>} \cup {<<r>> : r \in QueryRows}
             \cup {<<QueryRow(1, 1), r, u>> : r \in QueryRows, u \in QueryRows}
Projections == {<<Item("a", "a")>>, <<Item("a", "a"), Item("b", "b")>>, <<Item("a", "x"), Item("b", "b")>>,
                <<Item("b", "x"), Item("a", "a")>>, <<Item("a", "a"), Item("b", "a")>>}
Directions(e) == {Term(e, d, n) : d \in BOOLEAN, n \in {"default", "first"}}
Orders == {<<>>} \cup {<<t>> : t \in Directions("a") \cup Directions("x")}
          \cup {<<t, u>> : t \in Directions("a") \cup Directions("x"), u \in Directions("b") \cup {Term("x", TRUE, "default")}}
MCDistinctOns ==
    {q \in [projection : Projections, on : {<<"a">>, <<"b">>, <<"a", "b">>}, order : Orders,
            limit : {Void, 1}, offset : {Void, 1}] :
        /\ Range(q.on) \subseteq {q.projection[k].expr : k \in DOMAIN q.projection}
        /\ \A k \in DOMAIN q.order : q.order[k].expr = "x" => "x" \in Aliases(q.projection)}

MCDistincts == [projection : Projections \ {<<Item("a", "a"), Item("b", "a")>>}, order : Orders]

ElementLists == {<<>>, << <<"a">> >>, << <<"a">>, <<"b">> >>, << <<"b">>, <<"a">> >>, << <<"a", "b">> >>}
GroupProjections == {<<"a", "count">>, <<"a", "b", "count">>, <<"count", "literal">>, <<"a">>, <<"b", "a">>}
MCGroupings ==
    {q \in [prefix : {<<>>, <<"a">>}, kind : {"sets", "rollup", "cube"},
            elements : ElementLists \cup {<< <<"a">>, <<>> >>}, projection : GroupProjections] :
        \/ "count" \in Range(q.projection)
        \/ q.prefix # <<>>
        \/ q.kind = "sets" /\ <<>> \notin Range(q.elements) }

Clauses == {c \in [limit : {Void, 0, 2, 9}, offset : {Void, 0, 1, 9}, fetch : {"none", "count", "one", "ties", "percent"}] :
              c.fetch = "one" => ~Given(c.limit)}
MCPaginations == [inner : Clauses, outer : Clauses]
MCSqlitePages == [limit : {Void, -3, 0, 2}, offset : {Void, 0, 2}]

SelectLeaves == {Leaf(<<1, 1, 2>>), Leaf(<<2, 3>>), Leaf(<<3>>)}
SetOperators == {"union", "union all", "intersect", "except"}
SimpleOps == {SetOp(o, l, r) : o \in SetOperators, l \in SelectLeaves, r \in SelectLeaves}
Operands == SelectLeaves \cup {Parens(b, lim) : b \in SelectLeaves \cup SimpleOps, lim \in {1}}
LeftDeep == SimpleOps \cup {Parens(b, Void) : b \in SelectLeaves \cup SimpleOps}
MCCompounds == {SetOp(o, l, r) : o \in SetOperators, l \in LeftDeep, r \in Operands}

----------------------------------------------------------------------------
translationVars == <<body, firing, temporal, call, arrayCall, query>>

TranslationInit ==
    /\ BodyInit
    /\ FiringInit
    /\ TemporalInit
    /\ CallInit
    /\ ArrayInit
    /\ QueryInit

TranslationNext ==
    /\ TranslationInit
    /\ \/ TranslateTrigger /\ UNCHANGED <<firing, temporal, call, arrayCall, query>>
       \/ WriteRow /\ UNCHANGED <<body, temporal, call, arrayCall, query>>
       \/ TranslateTemporal /\ UNCHANGED <<body, firing, call, arrayCall, query>>
       \/ TranslateCall /\ UNCHANGED <<body, firing, temporal, arrayCall, query>>
       \/ CallArray /\ UNCHANGED <<body, firing, temporal, call, query>>
       \/ TranslateQuery /\ UNCHANGED <<body, firing, temporal, call, arrayCall>>

TranslationSpec == TranslationInit /\ [][TranslationNext]_translationVars
=============================================================================
