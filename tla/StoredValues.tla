----------------------------- MODULE StoredValues -----------------------------
(***************************************************************************)
(* A value on its way into a typed column. PostgreSQL reads it with the     *)
(* column type's input function or assignment cast; the replica's columns   *)
(* have SQLite's four STRICT types, so the value is converted while the     *)
(* statement is translated, on four paths: the rows of an INSERT (or COPY), *)
(* an assignment, an assignment of a tuple, and a DEFAULT. A text is a      *)
(* sequence of characters; a UUID has UuidDigits digits in groups of        *)
(* UuidGroup.                                                               *)
(***************************************************************************)
EXTENDS Integers, Sequences, FiniteSets, SequencesExt

CONSTANTS
    UuidDigits, UuidGroup,
    StoredInputs,       \* records [type, blob, path, value]: what is written where
    StampInputs,        \* records [kind, path, shape, stamp] of temporal writes
    ReversedInputs      \* records [type, blob, value] a client writes on the replica

VARIABLE storing

ASSUME UuidAssumption == UuidDigits \in Nat /\ UuidGroup \in Nat \ {0} /\ UuidDigits % UuidGroup = 0

\* Values as written: [text], [number: mantissa, places], [bits], [hexbits],
\* [null], [array], [bound] of one of these, [computed] for a value the
\* expression translator already brought to the column's units.
TextOf(v) == "text" \in DOMAIN v
NumberOf(v) == "mantissa" \in DOMAIN v
BoundOf(v) == "bound" \in DOMAIN v
NullWritten == [null |-> TRUE]
NotStored == [refused |-> TRUE]
NumberWritten(m, p) == [mantissa |-> m, places |-> p]
TextWritten(s) == [text |-> s]

TenTo(n) == FoldLeft(LAMBDA acc, i : acc * 10, 1, [i \in 1..n |-> i])
Magnitude(n) == IF n < 0 THEN -n ELSE n
\* m / 10^from at `to` places, half away from zero.
AtPlaces(m, from, to) ==
    IF to >= from THEN m * TenTo(to - from)
    ELSE LET d == TenTo(from - to)
             up == (2 * Magnitude(m) + d) \div (2 * d)
         IN IF m < 0 THEN -up ELSE up

DigitChars == <<"0", "1", "2", "3", "4", "5", "6", "7", "8", "9">>
IsDigit(c) == c \in Range(DigitChars)
DigitValue(c) == (CHOOSE i \in DOMAIN DigitChars : DigitChars[i] = c) - 1
HexChars == Range(DigitChars) \cup {"a", "b", "f", "A", "F"}
LowerHex(c) == CASE c = "A" -> "a" [] c = "F" -> "f" [] OTHER -> c
Lowered(s) == [i \in DOMAIN s |-> LowerHex(s[i])]
DropChars(s, set) == SelectSeq(s, LAMBDA c : c \notin set)

\* A decimal in a text: its mantissa and places, or none.
QuotedDecimalAsNumber(text) ==
    LET trimmed == DropChars(text, {" "})
        signed == trimmed # <<>> /\ trimmed[1] \in {"-", "+"}
        unsigned == IF signed THEN Tail(trimmed) ELSE trimmed
        digits == SelectSeq(unsigned, IsDigit)
        point == {i \in DOMAIN unsigned : unsigned[i] = "."}
        whole == FoldLeft(LAMBDA n, c : 10 * n + DigitValue(c), 0, digits)
        holds == digits # <<>> /\ Len(digits) + Cardinality(point) = Len(unsigned) /\ Cardinality(point) <= 1
    IN IF ~holds THEN NotStored
       ELSE NumberWritten(IF signed /\ trimmed[1] = "-" THEN -whole ELSE whole,
                          IF point = {} THEN 0 ELSE Len(unsigned) - CHOOSE i \in point : TRUE)

----------------------------------------------------------------------------
(* What a literal of each type becomes. A refusal is NotStored              *)

Words == << <<"t","r","u","e">>, <<"f","a","l","s","e">>, <<"y","e","s">>, <<"n","o">>, <<"o","n">>, <<"o","f","f">>, <<"1">>, <<"0">> >>
WordsForTrue == {1, 3, 5, 7}
LeastLetters == <<1, 1, 1, 1, 2, 2, 1, 1>>
PostgresBool(text) ==
    LET words == {w \in DOMAIN Words : Len(text) >= LeastLetters[w] /\ IsPrefix(text, Words[w])}
    IN IF words = {} THEN NotStored ELSE [bool |-> (CHOOSE w \in words : TRUE) \in WordsForTrue]

MinorUnitScale(type) == IF type.class = "numeric" /\ type.scale > 0 THEN type.scale ELSE 0

TypedTextLiteral(type, v) ==
    CASE TextOf(v) /\ MinorUnitScale(type) > 0 -> QuotedDecimalAsNumber(v.text)
      [] TextOf(v) /\ type.class = "bool" -> PostgresBool(v.text)
      [] OTHER -> v

\* The digits are moved; a literal finer than the column is refused.
ScaleDecimalLiteral(v, scale) ==
    CASE ~NumberOf(v) -> v
      [] v.places > scale -> NotStored
      [] OTHER -> NumberWritten(v.mantissa * TenTo(scale - v.places), 0)
ScaleParameter(v, scale) == [rounded |-> v, scale |-> scale]

CanonicalUuidHex(text) ==
    LET opened == text # <<>> /\ text[1] = "{"
        closed == text # <<>> /\ text[Len(text)] = "}"
        inner == IF opened /\ closed THEN SubSeq(text, 2, Len(text) - 1) ELSE text
        hex == DropChars(inner, {"-"})
        misplaced == \E i \in DOMAIN inner : inner[i] = "-" /\ Len(DropChars(SubSeq(inner, 1, i), {"-"})) % UuidGroup # 0
    IN IF opened # closed \/ misplaced \/ Range(hex) \ HexChars # {} \/ Len(hex) # UuidDigits THEN <<"invalid">> ELSE hex
CanonicalUuidHyphenated(hex) ==
    FlattenSeq([i \in DOMAIN hex |-> IF i % UuidGroup = 0 /\ i < Len(hex) THEN <<LowerHex(hex[i]), "-">> ELSE <<LowerHex(hex[i])>>])

MakeUuidConversionCall(v) == [unhex |-> v, without |-> {"-", "{", "}"}]
MaybeWrapTextUuid(v) ==
    CASE ~TextOf(v) -> v
      [] CanonicalUuidHex(v.text) = <<"invalid">> -> NotStored
      [] OTHER -> [unhex |-> TextWritten(CanonicalUuidHex(v.text)), without |-> {}]
MaybeCanonicalizeTextUuid(v) ==
    CASE ~TextOf(v) -> v
      [] CanonicalUuidHex(v.text) = <<"invalid">> -> NotStored
      [] OTHER -> TextWritten(CanonicalUuidHyphenated(CanonicalUuidHex(v.text)))

VectorValue(type, v) ==
    CASE type.half -> NotStored
      [] TextOf(v) \/ BoundOf(v) -> [vec |-> v]
      [] OTHER -> v

\* PostgreSQL's hex format is decoded, its escape format is refused.
ConvertByteaHex(v) ==
    CASE ~TextOf(v) -> v
      [] ~IsPrefix(<<"\\", "x">>, v.text) -> NotStored
      [] OTHER -> LET hex == SubSeq(v.text, 3, Len(v.text))
                  IN IF Len(hex) % 2 # 0 \/ Range(hex) \ HexChars # {} THEN NotStored
                     ELSE [unhex |-> TextWritten(hex), without |-> {}]

NibbleValue(c) == IF IsDigit(c) THEN DigitValue(c) ELSE CASE LowerHex(c) = "a" -> 10 [] LowerHex(c) = "b" -> 11 [] OTHER -> 15
ExpandHexToBits(hex) ==
    FlattenSeq([i \in DOMAIN hex |-> [k \in 1..4 |-> IF (NibbleValue(hex[i]) \div (2 ^ (4 - k))) % 2 = 1 THEN "1" ELSE "0"]])
ConvertBitLiteral(v) ==
    CASE TextOf(v) -> IF Range(v.text) \subseteq {"0", "1"} THEN v ELSE NotStored
      [] "bits" \in DOMAIN v -> IF Range(v.bits) \subseteq {"0", "1"} THEN TextWritten(v.bits) ELSE NotStored
      [] "hexbits" \in DOMAIN v -> TextWritten(ExpandHexToBits(v.hexbits))
      [] OTHER -> v

CheckJsonDocument(type, v) ==
    CASE TextOf(v) -> IF type.binary /\ "NUL" \in Range(v.text) THEN NotStored ELSE v
      [] NumberOf(v) \/ "bits" \in DOMAIN v -> NotStored
      [] OTHER -> v

FloatSpecialRefused(v) == TextOf(v) /\ v.text = <<"NaN">>

ConvertValueForColumnType(type, v, blob) ==
    LET read == TypedTextLiteral(type, v)
        scale == MinorUnitScale(type)
    IN CASE read = NotStored -> NotStored
         [] scale > 0 -> IF BoundOf(read) THEN ScaleParameter(read, scale) ELSE ScaleDecimalLiteral(read, scale)
         [] type.class = "uuid" -> IF blob THEN IF BoundOf(read) THEN MakeUuidConversionCall(read) ELSE MaybeWrapTextUuid(read)
                                   ELSE IF BoundOf(read) THEN read ELSE MaybeCanonicalizeTextUuid(read)
         [] type.class = "vector" -> VectorValue(type, read)
         [] type.class = "array" -> IF BoundOf(read) \/ TextOf(read) THEN NotStored ELSE read
         [] type.class = "float" -> IF FloatSpecialRefused(read) THEN NotStored ELSE read
         [] type.class = "bytea" -> ConvertByteaHex(read)
         [] type.class = "bit" -> ConvertBitLiteral(read)
         [] type.class = "json" -> CheckJsonDocument(type, read)
         [] OTHER -> read

----------------------------------------------------------------------------
(* The paths                                                                *)

ReadsTypedText(type) == MinorUnitScale(type) > 0 \/ type.class = "bool"
LiteralChecksApply(type) == type.class \in {"float", "array", "json", "bytea", "bit"}

\* Fault: a literal is read by its type before it is scaled only on INSERT.
FinishValueUnread(type, v, blob) ==
    LET held == IF type.class = "uuid" /\ blob
                THEN IF BoundOf(v) THEN MakeUuidConversionCall(v) ELSE MaybeWrapTextUuid(v) ELSE v
    IN IF LiteralChecksApply(type) THEN ConvertValueForColumnType(type, held, blob) ELSE held

\* An assignment's value: the column rewrites of the table, in their order.
FinishValue(type, v, blob) ==
    LET held == CASE type.class = "vector" -> VectorValue(type, v)
                  [] type.class = "uuid" /\ blob -> IF BoundOf(v) THEN MakeUuidConversionCall(v) ELSE MaybeWrapTextUuid(v)
                  [] OTHER -> v
        read == IF ReadsTypedText(type) THEN TypedTextLiteral(type, held) ELSE held
        scaled == IF MinorUnitScale(type) > 0 THEN ScaleDecimalLiteral(read, MinorUnitScale(type)) ELSE read
    IN CASE BoundOf(v) /\ type.class = "array" -> NotStored
         [] held = NotStored \/ read = NotStored -> NotStored
         [] BoundOf(v) -> IF MinorUnitScale(type) > 0 THEN ScaleParameter(held, MinorUnitScale(type)) ELSE held
         [] scaled # NotStored /\ LiteralChecksApply(type) -> ConvertValueForColumnType(type, scaled, blob)
         [] OTHER -> scaled

RoundScaleZero(type, v) ==
    IF type.class = "numeric" /\ type.scale = 0 /\ NumberOf(v) THEN NumberWritten(AtPlaces(v.mantissa, v.places, 0), 0) ELSE v
ScaledDefault(type, v) ==
    IF MinorUnitScale(type) > 0
    THEN LET read == TypedTextLiteral(type, v)
         IN IF NumberOf(read) THEN ScaleDecimalLiteral(read, MinorUnitScale(type))
            ELSE IF read = NullWritten THEN read ELSE NotStored
    ELSE RoundScaleZero(type, TypedTextLiteral(type, v))
DeclaredDefault(type, v, blob) ==
    LET scaled == ScaledDefault(type, v) IN IF type.class = "uuid" /\ blob THEN MaybeWrapTextUuid(scaled) ELSE scaled

Converted(i) ==
    CASE i.path = "insert" -> ConvertValueForColumnType(i.type, i.value, i.blob)
      [] i.path = "default" -> DeclaredDefault(i.type, i.value, i.blob)
      [] OTHER -> FinishValue(i.type, i.value, i.blob)

----------------------------------------------------------------------------
(* What SQLite stores: the value of the emitted expression, the STRICT      *)
(* column's affinity, and the CHECKs the declared type leaves behind        *)

CellNull == [null |-> TRUE]
Decimal(m, p) ==
    LET least == CHOOSE q \in 0..p : m % TenTo(p - q) = 0 /\ \A r \in 0..(q - 1) : m % TenTo(p - r) # 0
    IN [real |-> <<m \div TenTo(p - least), least>>]
IntText(n) == CASE n < 0 -> <<"-", DigitChars[1 - n]>> [] n < 10 -> <<DigitChars[n + 1]>> [] OTHER -> <<DigitChars[n \div 10 + 1], DigitChars[(n % 10) + 1]>>
NumberCell(v) == IF v.places = 0 THEN [int |-> v.mantissa] ELSE Decimal(v.mantissa, v.places)

PlainCell(v) ==
    CASE v = NullWritten -> CellNull
      [] TextOf(v) -> v
      [] NumberOf(v) -> NumberCell(v)
      [] "bool" \in DOMAIN v -> [int |-> IF v.bool THEN 1 ELSE 0]
      [] "array" \in DOMAIN v -> TextWritten(<<"[">> \o v.array \o <<"]">>)
      [] "hexbits" \in DOMAIN v -> [blob |-> Lowered(v.hexbits)]
      [] "blob" \in DOMAIN v -> v
      [] OTHER -> NotStored

\* A number halfway between two multiples of 10^-to.
IsHalf(v, to) == NumberOf(v) /\ v.places > to /\ (2 * v.mantissa) % TenTo(v.places - to) = 0 /\ v.mantissa % TenTo(v.places - to) # 0
TowardZero(n) == IF n > 0 THEN n - 1 ELSE n + 1
\* ROUND(x * 10^scale) is computed in binary floating point: the product of a
\* number at a half falls on the half or just short of it, by its digits.
RoundedProducts(v, scale) ==
    LET n == AtPlaces(v.mantissa, v.places, scale)
    IN {[int |-> n]} \cup (IF IsHalf(v, scale) THEN {[int |-> TowardZero(n)]} ELSE {})

\* The values an emitted expression may answer.
EvalCells(e) ==
    IF "rounded" \in DOMAIN e
    THEN LET b == e.rounded.bound IN IF NumberOf(b) THEN RoundedProducts(b, e.scale) ELSE {PlainCell(b)}
    ELSE {CASE BoundOf(e) -> PlainCell(e.bound)
           [] "unhex" \in DOMAIN e ->
                 LET from == PlainCell(IF BoundOf(e.unhex) THEN e.unhex.bound ELSE e.unhex)
                     hex == IF TextOf(from) THEN DropChars(from.text, e.without) ELSE <<"x">>
                 IN IF Len(hex) % 2 = 0 /\ Range(hex) \subseteq HexChars THEN [blob |-> Lowered(hex)] ELSE CellNull
           [] "vec" \in DOMAIN e -> [blob |-> PlainCell(IF BoundOf(e.vec) THEN e.vec.bound ELSE e.vec).text]
           [] OTHER -> PlainCell(e)}

SqliteTypeOf(type, blob) ==
    CASE type.class \in {"bool", "int", "numeric"} -> "INTEGER"
      [] type.class = "float" -> "REAL"
      [] type.class \in {"bytea", "vector"} \/ (type.class = "uuid" /\ blob) -> "BLOB"
      [] OTHER -> "TEXT"

TextNumber(cell) ==
    LET n == QuotedDecimalAsNumber(cell.text) IN IF n = NotStored THEN cell ELSE Decimal(n.mantissa, n.places)
Affinity(sqliteType, cell) ==
    LET number == CASE TextOf(cell) -> TextNumber(cell) [] "int" \in DOMAIN cell -> [real |-> <<cell.int, 0>>] [] OTHER -> cell
    IN CASE cell = CellNull \/ cell = NotStored -> cell
         [] sqliteType = "INTEGER" -> IF "real" \in DOMAIN number /\ number.real[2] = 0 THEN [int |-> number.real[1]] ELSE NotStored
         [] sqliteType = "REAL" -> IF "real" \in DOMAIN number THEN number ELSE NotStored
         [] sqliteType = "TEXT" -> CASE "int" \in DOMAIN cell -> TextWritten(IntText(cell.int)) [] TextOf(cell) -> cell [] OTHER -> NotStored
         [] OTHER -> IF "blob" \in DOMAIN cell THEN cell ELSE NotStored

\* The bounds PostgreSQL enforces through the declared type.
DeclaredBoundChecks(type, blob, cell) ==
    CASE cell = CellNull \/ cell = NotStored -> TRUE
      [] type.class = "uuid" /\ blob -> Len(cell.blob) = UuidDigits
      [] type.class = "numeric" -> Magnitude(cell.int) <= TenTo(type.precision) - 1
      [] type.class = "int" -> cell.int \in type.low..type.high
      [] type.class = "varchar" -> Len(cell.text) <= type.length
      [] type.class = "bit" -> /\ Range(cell.text) \subseteq {"0", "1"}
                               /\ IF type.fixed THEN Len(cell.text) = type.length ELSE Len(cell.text) <= type.length
      [] OTHER -> TRUE

ReplicaCells(type, blob, e) ==
    LET cells == {Affinity(SqliteTypeOf(type, blob), cell) : cell \in EvalCells(e)}
    IN {IF DeclaredBoundChecks(type, blob, cell) THEN cell ELSE NotStored : cell \in cells}

----------------------------------------------------------------------------
(* What the server stores, as the cell a reader of the replica expects for  *)
(* it from the column's storage                                             *)

\* An unambiguous prefix of a word.
ServerBool(text) ==
    LET words == {w \in DOMAIN Words : text # <<>> /\ IsPrefix(text, Words[w])}
    IN IF words = {} \/ (words \cap WordsForTrue # {} /\ words \ WordsForTrue # {}) THEN NotStored
       ELSE [int |-> IF words \cap WordsForTrue # {} THEN 1 ELSE 0]

\* Digits, a single hyphen between two groups, and braces around all of it.
ServerUuid(text) ==
    LET inner == IF Len(text) > 1 /\ text[1] = "{" /\ text[Len(text)] = "}" THEN SubSeq(text, 2, Len(text) - 1) ELSE text
        groups == UuidDigits \div UuidGroup
        spelled == {h \in SUBSET (1..(groups - 1)) : Len(inner) = UuidDigits + Cardinality(h)}
        cuts(h, i) == UuidGroup * i + Cardinality({k \in h : k < i}) + 1
        fits(h) == /\ \A i \in h : inner[cuts(h, i)] = "-"
                   /\ \A p \in DOMAIN inner : p \notin {cuts(h, i) : i \in h} => inner[p] \in HexChars
    IN IF \E h \in spelled : fits(h) THEN DropChars(inner, {"-"}) ELSE <<"invalid">>

ServerNumber(v, scale) ==
    LET n == IF TextOf(v) THEN QuotedDecimalAsNumber(v.text) ELSE v
    IN IF NumberOf(n) THEN [int |-> AtPlaces(n.mantissa, n.places, scale)] ELSE NotStored

ColumnStorage(type, blob, v) ==
    LET within(cell, ok) == IF ok THEN cell ELSE NotStored
        bits == CASE TextOf(v) -> v.text [] "bits" \in DOMAIN v -> v.bits [] "hexbits" \in DOMAIN v -> ExpandHexToBits(v.hexbits) [] OTHER -> <<"x">>
    IN CASE v = NullWritten -> CellNull
         [] type.class = "bool" -> CASE TextOf(v) -> ServerBool(v.text) [] "bool" \in DOMAIN v -> PlainCell(v) [] OTHER -> NotStored
         [] type.class = "int" ->
              LET n == ServerNumber(v, 0) IN within(n, n # NotStored /\ (TextOf(v) => "." \notin Range(v.text)) /\ n.int \in type.low..type.high)
         [] type.class = "numeric" ->
              LET n == ServerNumber(v, type.scale) IN within(n, n # NotStored /\ Magnitude(n.int) < TenTo(type.precision))
         [] type.class = "float" -> IF TextOf(v) THEN Affinity("REAL", TextNumber(v)) ELSE Affinity("REAL", PlainCell(v))
         [] type.class = "varchar" ->
              LET t == IF NumberOf(v) THEN IntText(v.mantissa) ELSE v.text
              IN within(TextWritten(SubSeq(t, 1, IF Len(t) > type.length THEN type.length ELSE Len(t))),
                        Range(SubSeq(t, type.length + 1, Len(t))) \subseteq {" "})
         [] type.class = "bytea" ->
              CASE "blob" \in DOMAIN v -> v
                [] TextOf(v) /\ IsPrefix(<<"\\", "x">>, v.text) ->
                     LET hex == SubSeq(v.text, 3, Len(v.text)) IN within([blob |-> Lowered(hex)], Len(hex) % 2 = 0 /\ Range(hex) \subseteq HexChars)
                [] TextOf(v) -> [blob |-> v.text]
                [] OTHER -> NotStored
         [] type.class = "bit" ->
              within(TextWritten(bits), Range(bits) \subseteq {"0", "1"} /\ IF type.fixed THEN Len(bits) = type.length ELSE Len(bits) <= type.length)
         [] type.class = "uuid" ->
              LET hex == IF TextOf(v) THEN ServerUuid(v.text) ELSE <<"invalid">>
              IN within(IF blob THEN [blob |-> Lowered(hex)] ELSE TextWritten(CanonicalUuidHyphenated(hex)), hex # <<"invalid">>)
         [] type.class = "json" -> within(v, TextOf(v) /\ (type.binary => "NUL" \notin Range(v.text)))
         [] type.class = "array" -> IF "array" \in DOMAIN v THEN PlainCell(v) ELSE IF TextOf(v) THEN [parsed |-> v.text] ELSE NotStored
         [] OTHER -> within([blob |-> IF TextOf(v) THEN v.text ELSE <<>>], TextOf(v))

ServerCell(type, blob, v) == ColumnStorage(type, blob, IF BoundOf(v) THEN v.bound ELSE v)

----------------------------------------------------------------------------
(* Temporal columns. An expression is [shape, stamp], the stamp a date and  *)
(* a time of day; its text has the form of a timestamptz ("canonical"), of  *)
(* a timestamp ("plain"), or of one part of it                              *)

Stamped(shape, stamp) == [shape |-> shape, stamp |-> stamp]
NaiveShapes == {"naive column", "naive call", "utc call"}
AwareShapes == {"instant column", "canonical call"}

IsCanonicalCall(e) == e.shape = "canonical call"
CanonicalTimestamptzValue(e) ==
    IF e.shape \in {"utc call", "naive call"} THEN Stamped("canonical call", e.stamp) ELSE e

PartOf(kind, stamp) ==
    CASE kind = "date" -> Stamped("date", <<stamp[1]>>)
      [] kind \in {"time", "timetz"} -> Stamped(kind, <<stamp[2]>>)
      [] OTHER -> Stamped("utc call", stamp)

\* A literal is normalised. `source` is the value's own zone where it is known.
ConvertTemporalValue(kind, e, source) ==
    CASE e.shape = "literal" -> Stamped("normalised", <<kind, e.stamp>>)
      [] kind = "timestamptz" ->
            LET v == CanonicalTimestamptzValue(e)
            IN IF source = "naive" /\ ~IsCanonicalCall(v) THEN Stamped("canonical call", v.stamp) ELSE v
      [] IsCanonicalCall(e) \/ source = "aware" -> PartOf(kind, e.stamp)
      [] OTHER -> e

AwarenessOf(shape) == CASE shape \in NaiveShapes -> "naive" [] shape \in AwareShapes -> "aware" [] OTHER -> "unknown"

\* The cast PostgreSQL applies on assignment, when the zones differ.
TemporalAssignmentCast(kind, e) ==
    LET source == AwarenessOf(e.shape)
    IN IF source # "unknown" /\ ((kind = "timestamptz") = (source = "naive")) THEN ConvertTemporalValue(kind, e, source) ELSE e

TemporalConverted(i) ==
    LET e == Stamped(i.shape, i.stamp)
    IN CASE i.path = "default" -> ConvertTemporalValue(i.kind, e, AwarenessOf(i.shape))
         [] i.path = "tuple" -> ConvertTemporalValue(i.kind, e, "unknown")
         [] OTHER -> ConvertTemporalValue(i.kind, TemporalAssignmentCast(i.kind, e), "unknown")

\* The text an expression answers on the replica, and the column's own text.
KindText(kind, stamp) ==
    CASE kind = "timestamptz" -> <<"canonical", stamp>>
      [] kind = "timestamp" -> <<"plain", stamp>>
      [] kind = "date" -> <<"date", <<stamp[1]>> >>
      [] OTHER -> <<kind, <<stamp[2]>> >>
StampText(e) ==
    CASE e.shape = "normalised" -> KindText(e.stamp[1], e.stamp[2])
      [] e.shape \in AwareShapes -> <<"canonical", e.stamp>>
      [] e.shape \in NaiveShapes -> <<"plain", e.stamp>>
      [] OTHER -> <<e.shape, e.stamp>>

----------------------------------------------------------------------------
(* The other direction: a wrapper the replica's storage needs is undone by  *)
(* the column's declared type                                               *)

ReverseValue(e) ==
    CASE "unhex" \in DOMAIN e -> [decoded |-> e.unhex.text]
      [] "array" \in DOMAIN e -> [jsonArray |-> e.array]
      [] OTHER -> e
RetypeForDeclared(type, blob, v) ==
    CASE type.class = "uuid" /\ "decoded" \in DOMAIN v -> IF blob THEN TextWritten(v.decoded) ELSE NotStored
      [] type.class = "array" /\ "jsonArray" \in DOMAIN v -> [array |-> v.jsonArray]
      [] OTHER -> v
\* decode() of a text, and a JSON array beside a column that is no JSON.
ServerOperand(type, v) ==
    CASE "decoded" \in DOMAIN v ->
            IF type.class = "bytea" /\ Len(v.decoded) % 2 = 0 /\ Range(v.decoded) \subseteq HexChars
            THEN [blob |-> Lowered(v.decoded)] ELSE NotStored
      [] "jsonArray" \in DOMAIN v -> IF type.class = "json" THEN PlainCell([array |-> v.jsonArray]) ELSE NotStored
      [] OTHER -> v
ServerReads(type, blob, v) == IF v = NotStored THEN NotStored ELSE ColumnStorage(type, blob, v)

----------------------------------------------------------------------------
NoStoring == [what |-> "none"]
StoringInit == storing = NoStoring

\* What is written, the expression emitted for it and what the server holds.
StoreValue ==
    \/ \E i \in StoredInputs :
          storing' = [what |-> "value", of |-> i, emitted |-> Converted(i),
                      server |-> ServerCell(i.type, i.blob, i.value)]
    \/ \E i \in StampInputs : storing' = [what |-> "stamp", of |-> i, emitted |-> TemporalConverted(i)]
    \/ \E i \in ReversedInputs :
          storing' = [what |-> "reversed", of |-> i,
                      emitted |-> ServerOperand(i.type, RetypeForDeclared(i.type, i.blob, ReverseValue(i.value)))]

\* A value the server prints for the type, which every path takes.
Canonical(i) ==
    CASE i.type.class = "uuid" -> TextOf(i.value) /\ i.value.text = CanonicalUuidHyphenated(ServerUuid(i.value.text))
      [] i.type.class = "numeric" -> NumberOf(i.value) /\ i.value.places = i.type.scale
      [] i.type.class \in {"int", "float"} -> NumberOf(i.value) /\ i.value.places = 0
      [] i.type.class = "bool" -> TextOf(i.value) /\ i.value.text \in {<<"t">>, <<"f">>}
      [] i.type.class = "varchar" -> TextOf(i.value) /\ Len(i.value.text) <= i.type.length
      [] i.type.class = "bytea" -> TextOf(i.value) /\ i.path # "default" /\ IsPrefix(<<"\\", "x">>, i.value.text)
      [] i.type.class = "array" -> "array" \in DOMAIN i.value
      [] OTHER -> TextOf(i.value)

\* A UUID kept as text is brought to one spelling only as an INSERT's literal;
\* an assignment, a DEFAULT and a parameter keep the spelling they have.
KeptAsSpelled(i) == i.type.class = "uuid" /\ ~i.blob /\ (BoundOf(i.value) \/ i.path # "insert")
WrittenText(v) == IF BoundOf(v) THEN v.bound ELSE v

\* What the replica may hold where it is not what the server holds: a refusal
\* of a spelling other than the type's own, one unit less of a bound number at
\* a half of the column's last place, and a UUID as it was spelled.
Tolerated(i) ==
    (IF Canonical(i) /\ ~(i.type.class = "vector" /\ i.type.half) THEN {} ELSE {NotStored})
      \cup (IF BoundOf(i.value) /\ MinorUnitScale(i.type) > 0 /\ IsHalf(i.value.bound, i.type.scale)
            THEN LET short == TowardZero(AtPlaces(i.value.bound.mantissa, i.value.bound.places, i.type.scale)) IN {[int |-> short]} ELSE {})
      \cup (IF KeptAsSpelled(i) THEN {WrittenText(i.value)} ELSE {})

\* Whatever path a value takes into a typed column, the replica never holds
\* another value than the server does, nor one the server refuses, except for
\* a bound number at a half and a UUID kept as spelled; a value in the type's
\* own spelling is taken. A temporal value lands as the text of its
\* column's type whatever zone it came from. A wrapper written against the
\* replica's storage writes the same value when it is undone for the server.
StoredAlike ==
    /\ storing.what = "value" =>
        LET i == storing.of
        IN ReplicaCells(i.type, i.blob, storing.emitted) \subseteq {storing.server} \cup Tolerated(i)
    /\ storing.what = "stamp" =>
        StampText(storing.emitted) = KindText(storing.of.kind, storing.of.stamp)
    /\ storing.what = "reversed" =>
        LET i == storing.of
        IN ServerReads(i.type, i.blob, storing.emitted) \in {NotStored} \cup ReplicaCells(i.type, i.blob, i.value)
=============================================================================
