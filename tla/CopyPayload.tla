----------------------------- MODULE CopyPayload -----------------------------
(***************************************************************************)
(* COPY ... FROM STDIN: the payload is decoded here, character by           *)
(* character, into the rows of an INSERT. A payload is built from its parts *)
(* (lines of fields of pieces, each with its spelling), so the server's     *)
(* reading is taken from the parts and the translator's from the spelling.  *)
(* A character is its code.                                                 *)
(***************************************************************************)
EXTENDS Naturals, Sequences, FiniteSets, SequencesExt

CONSTANTS
    CopyOptions,    \* option lists: functions from an option to how it is written
    TextLines,      \* sequences of lines of the text format: [fields, end]
    CsvLines,       \* sequences of lines of the CSV format: [fields, end]
    CopyTargets     \* records [columns, listed, secured]

VARIABLE loading

LF == 10
CR == 13
Tab == 9
Backslash == 92
CopyRefusal == << <<[refused |-> TRUE]>> >>
NothingLoaded == <<[refused |-> TRUE]>>
CopyNull == [null |-> TRUE]
CopyText(codes) == [text |-> codes]

----------------------------------------------------------------------------
(* Options. Every one is a list of the values written for it, so that one   *)
(* written twice is seen                                                    *)

OptionNames == {"format", "delimiter", "null", "header", "quote", "escape", "force_null", "force_not_null", "other"}
CsvOnly == {"quote", "escape", "force_null", "force_not_null"}
OptionOr(o, name, default) == IF o[name] = <<>> THEN default ELSE o[name][1]

\* Letters, digits, the backslash and the full stop.
TextDelimiterRefused(c) == c \in (97..122) \cup (48..57) \cup {Backslash, 46}

FormatNew(o) == (\A n \in OptionNames : Len(o[n]) <= 1) /\ o["other"] = <<>>

FormatOf(o) ==
    LET csv == OptionOr(o, "format", "text") = "csv"
        quote == OptionOr(o, "quote", 34)
    IN [csv |-> csv, delimiter |-> OptionOr(o, "delimiter", IF csv THEN 44 ELSE Tab),
        null |-> OptionOr(o, "null", IF csv THEN <<>> ELSE <<Backslash, 78>>),
        header |-> OptionOr(o, "header", FALSE), quote |-> quote, escape |-> OptionOr(o, "escape", quote),
        forceNull |-> OptionOr(o, "force_null", {}), forceNotNull |-> OptionOr(o, "force_not_null", {})]

FormatChecked(o, f) ==
    /\ f.csv \/ \A n \in CsvOnly : o[n] = <<>>
    /\ f.delimiter \notin {LF, CR}
    /\ Range(f.null) \cap {LF, CR} = {}
    /\ f.csv \/ ~TextDelimiterRefused(f.delimiter)
    /\ f.csv => f.delimiter # f.quote
    /\ f.delimiter \notin Range(f.null)
    /\ f.csv => f.quote \notin Range(f.null)

----------------------------------------------------------------------------
(* The scanner: one character at a time, `skip` counting the characters an  *)
(* earlier one already consumed                                             *)

AtStart(chars) ==
    [chars |-> chars, rows |-> <<>>, fields |-> <<>>, raw |-> <<>>, value |-> <<>>, quoted |-> FALSE,
     inQuotes |-> FALSE, seen |-> "none", record |-> 1, skip |-> 0, open |-> FALSE, failed |-> FALSE]

Peek(st, i) == IF i < Len(st.chars) THEN st.chars[i + 1] ELSE 0

LineEnd(st, i) ==
    LET end == CASE st.chars[i] = CR /\ Peek(st, i) = LF -> "crlf"
                 [] st.chars[i] = CR -> "cr"
                 [] OTHER -> "lf"
    IN [st EXCEPT !.seen = IF @ = "none" THEN end ELSE @,
                  !.failed = @ \/ (st.seen # "none" /\ st.seen # end),
                  !.skip = IF end = "crlf" THEN 1 ELSE 0]

OctalDigits == 48..55
HexDigits == (48..57) \cup (65..70) \cup (97..102)
HexValue(c) == CASE c \in 48..57 -> c - 48 [] c \in 65..70 -> c - 55 [] OTHER -> c - 87

\* How many of the two characters after position i are digits, in a row.
DigitRun(st, i, digits) ==
    CASE Peek(st, i) \notin digits -> 0 [] Peek(st, i + 1) \notin digits -> 1 [] OTHER -> 2
Numeral(codes, base) == FoldLeft(LAMBDA n, c : n * base + HexValue(c), 0, codes)

ControlLetters == (98 :> 8) @@ (102 :> 12) @@ (110 :> 10) @@ (114 :> 13) @@ (116 :> 9) @@ (118 :> 11)

\* The backslash at i escapes the character after it.
Unescape(st, i) ==
    LET c == Peek(st, i)
        octal == DigitRun(st, i + 1, OctalDigits)
        hex == DigitRun(st, i + 1, HexDigits)
        taken == CASE c \in OctalDigits -> octal [] c = 120 -> hex [] OTHER -> 0
        byte == CASE c \in DOMAIN ControlLetters -> ControlLetters[c]
                  [] c \in OctalDigits -> Numeral(SubSeq(st.chars, i + 1, i + 1 + octal), 8) % 256
                  [] c = 120 /\ hex > 0 -> Numeral(SubSeq(st.chars, i + 2, i + 1 + hex), 16)
                  [] OTHER -> c
    IN IF i = Len(st.chars) THEN [st EXCEPT !.raw = Append(@, Backslash)]
       ELSE [st EXCEPT !.raw = @ \o SubSeq(st.chars, i, i + 1 + taken), !.value = Append(@, byte),
                       !.skip = 1 + taken]

\* The bytes of the alphabet: ASCII, and a two-byte sequence when in order.
ValidUtf8(bytes) ==
    \A i \in DOMAIN bytes :
        /\ bytes[i] \in 128..191 => i > 1 /\ bytes[i - 1] \in 194..223
        /\ bytes[i] \in 194..223 => i < Len(bytes) /\ bytes[i + 1] \in 128..191
        /\ bytes[i] \notin {192, 193} \cup (224..255)

\* Fault: the null string is compared with what the field decodes to.
TextFieldDecoded(st, f) == IF st.value = f.null THEN CopyNull ELSE CopyText(st.value)

\* The null string is compared with the field as written.
TextField(st, f) == IF st.raw = f.null THEN CopyNull ELSE CopyText(st.value)

PushText(st, f) ==
    [st EXCEPT !.fields = Append(@, TextField(st, f)), !.raw = <<>>, !.value = <<>>,
               !.failed = @ \/ (st.raw # f.null /\ ~ValidUtf8(st.value))]

\* The line is over: its fields are a row, unless they are the header.
EndRecord(st, f) ==
    [st EXCEPT !.rows = IF f.header /\ st.record = 1 THEN @ ELSE Append(@, st.fields),
               !.fields = <<>>, !.record = @ + 1, !.open = FALSE]

TextStep(st, i, f) ==
    LET c == st.chars[i]
        now == [st EXCEPT !.open = TRUE]
    IN CASE c \in {LF, CR} -> EndRecord(PushText(LineEnd(st, i), f), f)
         [] c = f.delimiter -> PushText(now, f)
         [] c = Backslash -> Unescape(now, i)
         [] OTHER -> [now EXCEPT !.raw = Append(@, c), !.value = Append(@, c)]

Scan(chars, Step(_, _), Finish(_)) ==
    LET end == FoldLeftDomain(LAMBDA st, i : IF st.skip > 0 THEN [st EXCEPT !.skip = @ - 1] ELSE Step(st, i),
                              AtStart(chars), chars)
        whole == IF end.open THEN Finish(end) ELSE end
    IN IF whole.failed THEN CopyRefusal ELSE whole.rows

TextRows(chars, f) ==
    Scan(chars, LAMBDA st, i : TextStep(st, i, f), LAMBDA st : EndRecord(PushText(st, f), f))

\* Two names are one column whatever their case, unless both are delimited.
SameColumn(left, right) ==
    IF left.quoted /\ right.quoted THEN left.text = right.text ELSE left.lower = right.lower
Positions(named, columns) == {CHOOSE i \in DOMAIN columns : SameColumn(columns[i], n) : n \in named}
PositionsFound(named, columns) == \A n \in named : \E i \in DOMAIN columns : SameColumn(columns[i], n)

CsvField(st, f, columns) ==
    LET position == Len(st.fields) + 1
        null == /\ st.value = f.null
                /\ IF st.quoted THEN position \in Positions(f.forceNull, columns)
                   ELSE position \notin Positions(f.forceNotNull, columns)
    IN IF null THEN CopyNull ELSE CopyText(st.value)

PushCsv(st, f, columns) ==
    [st EXCEPT !.fields = Append(@, CsvField(st, f, columns)), !.value = <<>>, !.quoted = FALSE]

InQuotes(st, i, f) ==
    LET c == st.chars[i]
    IN CASE c = f.escape /\ Peek(st, i) \in {f.quote, f.escape} ->
                [st EXCEPT !.value = Append(@, Peek(st, i)), !.skip = 1]
         [] c = f.quote -> [st EXCEPT !.inQuotes = FALSE]
         [] OTHER -> [st EXCEPT !.value = Append(@, c)]

CsvStep(st, i, f, columns) ==
    LET c == st.chars[i]
        now == [st EXCEPT !.open = TRUE]
    IN CASE st.inQuotes -> InQuotes(st, i, f)
         [] c \in {LF, CR} -> EndRecord(PushCsv(LineEnd(st, i), f, columns), f)
         [] c = f.delimiter -> PushCsv(now, f, columns)
         [] c = f.quote -> [now EXCEPT !.quoted = TRUE, !.inQuotes = TRUE]
         [] OTHER -> [now EXCEPT !.value = Append(@, c)]

CsvRows(chars, f, columns) ==
    IF ~PositionsFound(f.forceNull \cup f.forceNotNull, columns) THEN CopyRefusal
    ELSE Scan(chars, LAMBDA st, i : CsvStep(st, i, f, columns),
              LAMBDA st : EndRecord([PushCsv(st, f, columns) EXCEPT !.failed = @ \/ st.inQuotes], f))

----------------------------------------------------------------------------
(* The statement: an INSERT of the rows, for an owner past the policies     *)

\* Without a list, every column but the generated ones.
TableColumnsWritten(target) ==
    LET kept == SelectSeq(target.columns, LAMBDA c : ~c.generated)
    IN [i \in DOMAIN kept |-> kept[i].name]
ColumnsWritten(target) == IF target.listed # <<>> THEN target.listed ELSE TableColumnsWritten(target)

TranslateCopy(o, target, chars) ==
    LET f == FormatOf(o)
        columns == ColumnsWritten(target)
        rows == IF f.csv THEN CsvRows(chars, f, columns) ELSE TextRows(chars, f)
        refused == \/ ~FormatNew(o) \/ ~FormatChecked(o, f)
                   \/ \E i \in DOMAIN rows : rows # CopyRefusal /\ Len(rows[i]) # Len(columns)
    IN [columns |-> columns, rows |-> IF refused THEN CopyRefusal ELSE rows,
        into |-> IF target.secured THEN "backing" ELSE "table"]

\* What the replica holds afterwards. The wrapper of a secured table judges
\* the row, and the loader has no policy that admits it.
LoadRows(columns, rows) == [i \in DOMAIN rows |-> [c \in {columns[k].lower : k \in DOMAIN columns} |->
    rows[i][CHOOSE k \in DOMAIN columns : columns[k].lower = c]]]
ReplicaLoad(target, stmt) ==
    IF stmt.rows = CopyRefusal \/ (target.secured /\ stmt.into = "table" /\ stmt.rows # <<>>) THEN NothingLoaded
    ELSE LoadRows(stmt.columns, stmt.rows)

----------------------------------------------------------------------------
(* Payloads by their parts, their spelling, and the server's reading        *)

SpellPiece(p) ==
    CASE p.kind = "plain" -> p.codes
      [] p.kind = "escaped" -> <<Backslash>> \o p.codes
      [] p.kind = "octal" -> <<Backslash>> \o p.codes
      [] p.kind = "hex" -> <<Backslash, 120>> \o p.codes
PieceBytes(p) ==
    CASE p.kind = "plain" -> p.codes
      [] p.kind = "escaped" -> IF p.codes[1] \in DOMAIN ControlLetters THEN <<ControlLetters[p.codes[1]]>> ELSE p.codes
      [] p.kind = "octal" -> <<Numeral(p.codes, 8) % 256>>
      [] p.kind = "hex" -> <<Numeral(p.codes, 16)>>
SpellTextField(field) == FlattenSeq([i \in DOMAIN field |-> SpellPiece(field[i])])
FieldBytes(field) == FlattenSeq([i \in DOMAIN field |-> PieceBytes(field[i])])

\* A plain piece is no special character, and a short numeral is not run on.
TextFieldStands(field, f) ==
    \A i \in DOMAIN field :
        /\ field[i].kind = "plain" => field[i].codes[1] \notin {LF, CR, Backslash, f.delimiter}
        /\ field[i].kind = "escaped" => field[i].codes[1] \notin OctalDigits /\ (field[i].codes[1] = 120 => i = Len(field))
        /\ (field[i].kind = "octal" /\ Len(field[i].codes) < 3 /\ i < Len(field)) => SpellPiece(field[i + 1])[1] \notin OctalDigits
        /\ (field[i].kind = "hex" /\ Len(field[i].codes) < 2 /\ i < Len(field)) => SpellPiece(field[i + 1])[1] \notin HexDigits

SpellSegment(s, f) ==
    IF ~s.quoted THEN s.codes
    ELSE <<f.quote>> \o FlattenSeq([i \in DOMAIN s.codes |->
             IF s.codes[i] \in {f.quote, f.escape} THEN <<f.escape, s.codes[i]>> ELSE <<s.codes[i]>>]) \o <<f.quote>>
SpellCsvField(field, f) == FlattenSeq([i \in DOMAIN field |-> SpellSegment(field[i], f)])
CsvFieldText(field) == FlattenSeq([i \in DOMAIN field |-> field[i].codes])
CsvFieldStands(field, f) ==
    /\ \A i \in DOMAIN field : ~field[i].quoted =>
           field[i].codes # <<>> /\ Range(field[i].codes) \cap {LF, CR, f.delimiter, f.quote} = {}
    /\ \A i \in 1..(Len(field) - 1) : f.quote = f.escape => ~(field[i].quoted /\ field[i + 1].quoted)

LineStands(line, f) ==
    \A i \in DOMAIN line.fields : IF f.csv THEN CsvFieldStands(line.fields[i], f) ELSE TextFieldStands(line.fields[i], f)

SpellLine(line, f) ==
    LET fields == [i \in DOMAIN line.fields |->
                     IF f.csv THEN SpellCsvField(line.fields[i], f) ELSE SpellTextField(line.fields[i])]
    IN FoldLeftDomain(LAMBDA text, i : text \o (IF i = 1 THEN <<>> ELSE <<f.delimiter>>) \o fields[i], <<>>, fields) \o line.end
SpellPayload(lines, f) == FlattenSeq([i \in DOMAIN lines |-> SpellLine(lines[i], f)])

\* The server folds an undelimited name to lower case.
FoldedName(name) == IF name.quoted THEN name.text ELSE name.lower
Forced(named, column) == \E n \in named : FoldedName(n) = FoldedName(column)

ServerField(field, f, column) ==
    IF ~f.csv THEN IF SpellTextField(field) = f.null THEN CopyNull ELSE CopyText(FieldBytes(field))
    ELSE LET text == CsvFieldText(field)
             quoted == \E i \in DOMAIN field : field[i].quoted
             read == IF text = f.null /\ ~quoted THEN CopyNull ELSE CopyText(text)
         IN CASE read = CopyNull /\ Forced(f.forceNotNull, column) -> CopyText(f.null)
              [] read # CopyNull /\ Forced(f.forceNull, column) /\ text = f.null -> CopyNull
              [] OTHER -> read

ServerLoad(f, target, lines) ==
    LET columns == ColumnsWritten(target)
        data == IF f.header THEN Tail(lines) ELSE lines
        badBytes == ~f.csv /\ \E i \in DOMAIN data : \E k \in DOMAIN data[i].fields :
                       SpellTextField(data[i].fields[k]) # f.null /\ ~ValidUtf8(FieldBytes(data[i].fields[k]))
        unknown == ~\A n \in f.forceNull \cup f.forceNotNull : \E i \in DOMAIN columns : FoldedName(columns[i]) = FoldedName(n)
    IN IF \/ badBytes \/ unknown \/ Cardinality({lines[i].end : i \in DOMAIN lines}) > 1
          \/ \E i \in DOMAIN data : Len(data[i].fields) # Len(columns)
       THEN NothingLoaded
       ELSE LoadRows(columns, [i \in DOMAIN data |-> [k \in DOMAIN columns |-> ServerField(data[i].fields[k], f, columns[k])]])

----------------------------------------------------------------------------
NoLoading == [options |-> <<>>]
LoadingInit == loading = NoLoading

LoadPayload ==
    \E o \in CopyOptions, t \in CopyTargets :
      \E lines \in (IF FormatOf(o).csv THEN CsvLines ELSE TextLines) :
        /\ \A i \in DOMAIN lines : LineStands(lines[i], FormatOf(o))
        /\ FormatOf(o).header /\ ~FormatOf(o).csv => \A k \in DOMAIN lines[1].fields : ValidUtf8(FieldBytes(lines[1].fields[k]))
        /\ loading' = [options |-> o, target |-> t, lines |-> lines]

----------------------------------------------------------------------------
\* Under options the translator accepts, the replica holds the rows PostgreSQL
\* loads, NULLs told from empty and from quoted fields, whatever delimiters,
\* quotes, escapes and line ends stand inside the data and for a secured table
\* too; a payload PostgreSQL refuses as a whole (line ends that change, bytes
\* that are no text, a row too short or too long) loads nothing.
CopiesAgree ==
    (loading # NoLoading /\ FormatNew(loading.options) /\ FormatChecked(loading.options, FormatOf(loading.options))) =>
        LET f == FormatOf(loading.options)
            chars == SpellPayload(loading.lines, f)
        IN ReplicaLoad(loading.target, TranslateCopy(loading.options, loading.target, chars))
             = ServerLoad(f, loading.target, loading.lines)
=============================================================================
