--------------------------- MODULE MCKeyedWrites ---------------------------
EXTENDS KeyedWrites, StoredValues, CopyPayload, MinorUnits

Table(key, at, nullable, default, unique, name, match) ==
    [key |-> key, at |-> at, nullable |-> nullable, default |-> default,
     unique |-> unique, name |-> name, match |-> match]

MCParents == {<<0, 0>>, <<1, 1>>}

MCDeclarations ==
    {Table(k, at, TRUE, d, {}, "", "none") :
        k \in {"serial", "always", "by_default"}, at \in {"column", "table", "composite"}, d \in {Omitted, 1}}
    \cup {Table("plain", "table", TRUE, d, {}, "", "none") : d \in {Omitted, 1}}
    \cup {Table("serial", "table", n, d, {{}}, u, "none") : n \in BOOLEAN, d \in {Omitted, 1}, u \in {"", "u"}}
    \cup {Table("serial", "column", TRUE, Omitted, u, "", "none") :
            u \in {{{"b is 1"}}, {{"b is 1", "a is 1"}}, {{"b is 1"}, {"b is 1", "a is 1"}}}}
    \cup {Table("plain", "column", n, d, {}, "", m) :
            n \in BOOLEAN, d \in {Omitted, 1}, m \in {"simple", "full", "partial"}}

NoSet == [c \in {} |-> 0]
Target(kind, on, terms, name) == [kind |-> kind, on |-> on, terms |-> terms, name |-> name]
NoTarget == Target("none", "", {}, "")
Statement(op, row, a, b, target, action, set) ==
    [op |-> op, row |-> row, a |-> a, b |-> b, target |-> target, action |-> action, set |-> set]

Keys(d) == IF Generates(d) THEN {Omitted, Default, 2} ELSE {1, 2, Big}
As(d) == {0, 1, Null, Default, Omitted} \cup (IF d.unique = {} THEN {Big} ELSE {})
Targets(d) ==
    {Target("any", "", {}, ""), Target("columns", "id", {}, ""), Target("constraint", "", {}, "t_pkey")}
    \cup (IF d.unique = {} THEN {} ELSE {Target("columns", "a", {}, "")})
    \cup (IF {} \in d.unique THEN {Target("constraint", "", {}, n) : n \in {"u", "t_a_key"}}
          ELSE IF d.unique = {} THEN {}
          ELSE {Target("columns", "a", t, "") : t \in {{"b is 1"}, {"b is 1", "a is 1"}, {"a is 1"}}})
Sets == {[c \in {"b"} |-> Excluded], [c \in {"a"} |-> Default], [c \in {"a", "b"} |-> 1]}

Inserts(d) == {Statement("insert", k, a, b, NoTarget, "raise", NoSet) : k \in Keys(d), a \in As(d), b \in {0, 1, Null}}
Upserts(d) ==
    {Statement("insert", k, a, b, t, "nothing", NoSet) : k \in Keys(d), a \in {0, 1, Default}, b \in {1, Null}, t \in Targets(d)}
    \cup {Statement("insert", k, a, b, t, "update", s) :
            k \in Keys(d), a \in {0, 1}, b \in {0, 1}, t \in {x \in Targets(d) : x.kind # "any"}, s \in Sets}
Updates ==
    {Statement("update", k, 0, 0, NoTarget, "raise", s) : k \in {1, 2},
        s \in {[c \in {"id"} |-> 3], [c \in {"id"} |-> Default], [c \in {"a"} |-> Default],
               [c \in {"a"} |-> 1], [c \in {"a"} |-> Null], [c \in {"b"} |-> Null]}}
Deletes == {Statement("delete", k, 0, 0, NoTarget, "raise", NoSet) : k \in {1, 2}}
Replaces(d) == {Statement("replace", k, a, b, NoTarget, "raise", NoSet) :
                k \in {1, 2}, a \in {0, 1, Omitted}, b \in {1, Omitted}}

MCWriteStatements(d) ==
    {s \in Inserts(d) \cup Upserts(d) \cup Updates \cup Deletes \cup Replaces(d) : Expressible(d, s)}

----------------------------------------------------------------------------
(* Stored values: every type, its spellings and its boundaries, on each     *)
(* path. UUIDs have four digits in groups of two                            *)

TextValues(set) == {TextWritten(t) : t \in set}
Bounded(set) == set \cup {[bound |-> v] : v \in set}
NumberLiterals == {NumberWritten(m, p) : m \in {-128, -10, -3, 0, 9, 15, 99, 127, 128, 999, 1000}, p \in 0..2}
NumberTexts == TextValues({<<"1", ".", "5">>, <<" ", "-", "2">>, <<".">>, <<"+", "7">>, <<"1", "x">>, <<".", "5">>, <<"-">>, <<>>})
WholeTexts == TextValues({<<" ", "-", "2">>, <<"+", "7">>, <<"1", "x">>, <<>>})
BoolTexts == TextValues({<<>>, <<"t">>, <<"t", "r">>, <<"f">>, <<"o">>, <<"o", "n">>, <<"o", "f">>, <<"o", "f", "f">>, <<"n">>, <<"y", "e", "s">>, <<"1">>, <<"0">>, <<"1", "0">>, <<"2">>})
UuidTexts == TextValues({<<"a", "b", "0", "1">>, <<"A", "b", "-", "0", "1">>, <<"{", "a", "b", "-", "0", "F", "}">>, <<"a", "b", "-", "0", "1">>,
                         <<"a", "-", "b", "0", "1">>, <<"{", "a", "b", "0", "1">>, <<"a", "b", "0">>, <<"a", "b", "x", "1">>})
BitValues == TextValues({<<"0", "1">>, <<"0">>, <<"0", "2">>, <<"1", "0", "1", "0">>})
               \cup {[bits |-> b] : b \in {<<"0", "1">>, <<"1", "2">>}} \cup {[hexbits |-> h] : h \in {<<"a">>, <<"A", "1">>}}
ByteTexts == TextValues({<<"\\", "x">>, <<"\\", "x", "0", "F">>, <<"\\", "x", "0">>, <<"\\", "x", "z", "0">>, <<"a", "b">>})
StoredIn(type, paths, values) == [type : {type}, blob : {FALSE}, path : paths, value : values \cup {NullWritten}]
AllPaths == {"insert", "update", "default"}
Written2 == {"insert", "update"}
MCStoredInputs ==
    StoredIn([class |-> "bool"], AllPaths, BoolTexts \cup {[bool |-> TRUE], [bool |-> FALSE]})
      \cup UNION {StoredIn([class |-> "int", low |-> -128, high |-> 127], p, WholeTexts \cup (IF p = {"default"} THEN NumberLiterals ELSE Bounded(NumberLiterals))) : p \in {{q} : q \in AllPaths}}
      \cup UNION {StoredIn([class |-> "numeric", precision |-> 3, scale |-> s], {"default"}, NumberLiterals \cup NumberTexts) : s \in 0..2}
      \cup UNION {StoredIn([class |-> "numeric", precision |-> 3, scale |-> s], Written2, Bounded(NumberLiterals) \cup NumberTexts) : s \in 1..2}
      \cup StoredIn([class |-> "float"], AllPaths, NumberLiterals \cup NumberTexts \cup TextValues({<<"NaN">>}))
      \cup StoredIn([class |-> "varchar", length |-> 2], AllPaths, TextValues({<<>>, <<"a", "b">>, <<"a", "b", "c">>, <<"a", " ", " ">>, <<"a", "b", " ">>}) \cup {NumberWritten(7, 0), NumberWritten(-7, 0)})
      \cup StoredIn([class |-> "bytea"], AllPaths, ByteTexts \cup {[bound |-> [blob |-> <<"0", "f">>]]})
      \cup UNION {StoredIn([class |-> "bit", fixed |-> f, length |-> n], Written2, BitValues \cup {[bound |-> v] : v \in {TextWritten(<<"0", "1">>), TextWritten(<<"2">>)}}) : f \in BOOLEAN, n \in {2, 4}}
      \cup [type : {[class |-> "uuid"]}, blob : {TRUE}, path : Written2, value : UuidTexts \cup {[bound |-> TextWritten(<<"{", "A", "b", "-", "0", "1", "}">>)]}]
      \cup [type : {[class |-> "uuid"]}, blob : {TRUE}, path : {"default"}, value : UuidTexts]
      \cup [type : {[class |-> "uuid"]}, blob : {FALSE}, path : Written2, value : Bounded(UuidTexts)]
      \cup [type : {[class |-> "uuid"]}, blob : {FALSE}, path : {"default"}, value : UuidTexts]
      \cup UNION {StoredIn([class |-> "json", binary |-> b], Written2, TextValues({<<"{}">>, <<"NUL">>}) \cup {NumberWritten(1, 0)}) : b \in BOOLEAN}
      \cup StoredIn([class |-> "array"], Written2, {[array |-> a] : a \in {<<>>, <<"1">>}} \cup TextValues({<<"{}">>}) \cup {[bound |-> TextWritten(<<"{}">>)]})
      \cup UNION {StoredIn([class |-> "vector", half |-> h], Written2, Bounded(TextValues({<<"[1]">>}))) : h \in BOOLEAN}
Stamps == {<<1, 0>>, <<2, 5>>}
MCStampInputs ==
    [kind : {"timestamptz", "timestamp"}, path : Written2, shape : {"literal"} \cup NaiveShapes \cup AwareShapes, stamp : Stamps]
      \cup [kind : {"timestamptz", "timestamp"}, path : {"default", "tuple"}, shape : {"literal", "naive call", "utc call", "canonical call"}, stamp : Stamps]
      \cup [kind : {"date", "time", "timetz"}, path : Written2, shape : {"literal"} \cup AwareShapes, stamp : Stamps]
      \cup [kind : {"date", "time", "timetz"}, path : {"default", "tuple"}, shape : {"literal", "canonical call"}, stamp : Stamps]
HexValues == {[unhex |-> TextWritten(h), without |-> {}] : h \in {<<"a", "b", "0", "1">>, <<"A", "b">>, <<>>, <<"x", "y">>}}
MCReversedInputs ==
    [type : {[class |-> "bytea"], [class |-> "uuid"]}, blob : BOOLEAN, value : HexValues]
      \cup [type : {[class |-> "json", binary |-> FALSE], [class |-> "array"]}, blob : {FALSE}, value : {[array |-> <<>>], [array |-> <<"1">>]}]

----------------------------------------------------------------------------
(* COPY payloads: a row and a header or a second row, of one or two fields  *)

CopyName(text, lower, quoted) == [text |-> text, lower |-> lower, quoted |-> quoted]
NameA == CopyName("a", "a", FALSE)
NameB == CopyName("b", "b", TRUE)
NameG == CopyName("g", "g", FALSE)
CopyColumn(n, g) == [name |-> n, generated |-> g]
MCCopyTargets ==
    {[columns |-> <<CopyColumn(NameA, FALSE), CopyColumn(NameG, TRUE), CopyColumn(NameB, FALSE)>>, listed |-> l, secured |-> s] :
        l \in {<<>>, <<NameB, NameA>>}, s \in BOOLEAN} \cup
    {[columns |-> <<CopyColumn(NameG, TRUE), CopyColumn(NameA, FALSE)>>, listed |-> <<>>, secured |-> FALSE]}
Piece(kind, codes) == [kind |-> kind, codes |-> codes]
Pieces ==
    {Piece("plain", <<c>>) : c \in {97, 49, 44, Tab}} \cup {Piece("escaped", <<c>>) : c \in {78, 110, Backslash, LF, 44, 120}}
      \cup {Piece("octal", <<49>>), Piece("octal", <<52, 48, 49>>), Piece("octal", <<51, 48, 51>>),
            Piece("hex", <<97>>), Piece("hex", <<65, 57>>)}
CopyFields(elements) == {<<>>} \cup {<<p>> : p \in elements} \cup {<<p, q>> : p \in elements, q \in elements}
Ends == {<<LF>>, <<CR>>, <<CR, LF>>}
CopyLine(fields, end) == [fields |-> fields, end |-> end]
PlainLine == << <<Piece("plain", <<97>>)>>, <<Piece("plain", <<49>>)>> >>
MCTextLines ==
    {<<CopyLine(<<p, q>>, <<LF>>)>> : p \in CopyFields(Pieces), q \in {<<>>, <<Piece("escaped", <<78>>)>>}}
      \cup {<<CopyLine(<<p>>, <<CR>>)>> : p \in CopyFields(Pieces)}
      \cup {<<CopyLine(PlainLine, e), CopyLine(<< <<Piece("escaped", <<110>>)>>, <<>> >>, g)>> : e \in Ends, g \in Ends}
Segments == [quoted : BOOLEAN, codes : {<<>>} \cup {<<c>> : c \in {97, 34, 44, 92, LF}} \cup {<<34, 97>>, <<92, 34>>, <<97, 92>>}]
OpenA == <<[quoted |-> FALSE, codes |-> <<97>>]>>
MCCsvLines ==
    {<<CopyLine(<<p, OpenA>>, <<LF>>)>> : p \in CopyFields(Segments)}
      \cup {<<CopyLine(<<p>>, <<CR, LF>>)>> : p \in CopyFields(Segments)}
      \cup {<<CopyLine(<<OpenA, p>>, e), CopyLine(<<p, OpenA>>, g)>> : p \in {<<>>, OpenA, <<[quoted |-> TRUE, codes |-> <<>>]>>}, e \in Ends, g \in Ends}
NoOptions == [n \in OptionNames |-> <<>>]
MCCopyOptions ==
    {[NoOptions EXCEPT !["format"] = f, !["delimiter"] = d, !["null"] = n, !["header"] = h] :
        f \in {<<>>, <<"csv">>}, d \in {<<>>, <<44>>, <<97>>}, n \in {<<>>, <<<<>>>>, << <<97>> >>}, h \in {<<>>, <<TRUE>>}} \cup
    {[NoOptions EXCEPT !["format"] = <<"csv">>, !["quote"] = q, !["escape"] = e, !["force_null"] = fn, !["force_not_null"] = fnn] :
        q \in {<<>>, <<39>>}, e \in {<<>>, <<92>>}, fn \in {<<>>, <<{NameB}>>, <<{NameG}>>}, fnn \in {<<>>, <<{CopyName("A", "a", FALSE)}>>}} \cup
    {[NoOptions EXCEPT !["quote"] = <<39>>], [NoOptions EXCEPT !["header"] = <<FALSE, TRUE>>], [NoOptions EXCEPT !["other"] = <<TRUE>>]}

----------------------------------------------------------------------------
(* Minor units: two columns of two places, one of one, one whole number    *)

MCScales == ("cents" :> 2) @@ ("debt" :> 2) @@ ("tenths" :> 1) @@ ("qty" :> Unscaled)
MCStored == ("cents" :> 155) @@ ("debt" :> -1245) @@ ("tenths" :> 25) @@ ("qty" :> 2)
Leaves == {Col("cents"), Col("debt"), Col("tenths"), Col("qty"), Lit(2, 0), Lit(5, 1),
           Neg(Lit(5, 1)), Lit(155, 2), Param(155, 2)}
Beside == {Col("cents"), Col("tenths"), Lit(5, 1)}
MCExpressions ==
    Leaves \cup {Bin(op, l, r) : op \in Binary, l \in Leaves, r \in Leaves}
           \cup {CastTo(l, s) : l \in Leaves, s \in 0..3}
           \cup {Round(l, p) : l \in Leaves, p \in -1..2}
           \cup {Unary(op, l) : op \in {"neg", "floor", "ceil", "trunc"}, l \in Leaves}
MCAround(e) ==
    {Bin(op, e, l) : op \in Binary, l \in Beside} \cup {Bin(op, l, e) : op \in Binary, l \in Beside}
        \cup {CastTo(e, s) : s \in 0..2} \cup {Round(e, p) : p \in -1..1}
        \cup {Unary(op, e) : op \in {"neg", "floor", "ceil", "trunc"}}
        \cup {Write(e, s) : s \in 1..2}

----------------------------------------------------------------------------
\* A write to a keyed table or, beside one table of them, a value on its way
\* into a column, a COPY payload or an expression over minor units.
BesideInit == StoringInit /\ LoadingInit /\ ExpressionInit
WritesInit == KeyedInit /\ BesideInit
WritesNext ==
    \/ BesideInit /\ KeyedNext /\ UNCHANGED <<storing, loading, expression>>
    \/ /\ WritesInit /\ decl = CHOOSE d \in Declarations : TRUE
       /\ UNCHANGED keyedVars
       /\ \/ StoreValue /\ UNCHANGED <<loading, expression>>
          \/ LoadPayload /\ UNCHANGED <<storing, expression>>
          \/ TranslateExpression /\ UNCHANGED <<storing, loading>>
WritesSpec == WritesInit /\ [][WritesNext]_<<keyedVars, storing, loading, expression>>
=============================================================================
