------------------------- MODULE ScriptEpochsProofs -------------------------
(***************************************************************************)
(* An orderly script is reproduced, for any tables, columns and length.    *)
(*                                                                         *)
(* history[i] is the server before statement i, and the replica before     *)
(* statement i is shown to be in step with it, name by name: the same      *)
(* columns, index and rows under the name or behind its wrapper, and a     *)
(* wrapper written in the shape of the epoch in which the table was born.  *)
(***************************************************************************)
EXTENDS ScriptEpochs, NaturalsInduction, WellFoundedInduction, TLAPS

----------------------------------------------------------------------------
(* The invariant                                                           *)

Rows == [cols : SUBSET (Declared \cup Extra), secured : BOOLEAN,
         indexed : BOOLEAN, filled : BOOLEAN]

IsSchema(h) ==
    /\ h = [t \in DOMAIN h |-> h[t]]
    /\ DOMAIN h \subseteq Tables
    /\ \A t \in DOMAIN h : h[t] \in Rows

Schemas == UNION {[D -> Rows] : D \in SUBSET Tables}

IsFile(f) ==
    /\ f = [tables |-> f.tables, wrappers |-> f.wrappers]
    /\ f.tables = [x \in DOMAIN f.tables |-> f.tables[x]]
    /\ \A x \in DOMAIN f.tables : f.tables[x] \in Rows
    /\ f.wrappers = [t \in DOMAIN f.wrappers |-> f.wrappers[t]]
    /\ DOMAIN f.wrappers \subseteq Tables

Removes(s, u) == s.t = u /\ s.do \in {"DropTable", "RenameTable"}
Creates(s, u) == \/ s.do = "CreateTable" /\ s.t = u
                 \/ s.do = "RenameTable" /\ s.d = u

HistoryOK ==
    /\ script \in Seq(Statements)
    /\ history \in Seq(Schemas)
    /\ Len(history) = Len(script) + 1
    /\ DOMAIN history[1] = {}
    /\ \A k \in 1..(Len(script) + 1) : IsSchema(history[k])
    /\ \A k \in 1..Len(script) : /\ Valid(history[k], script[k])
                                 /\ history[k + 1] = After(history[k], script[k])

\* Table u of the server before statement i was created by statement j.
Born(j, u, i) ==
    /\ j \in 1..(i - 1)
    /\ script[j].do = "CreateTable" /\ script[j].t = u
    /\ \A k \in (j + 1)..(i - 1) : ~Removes(script[k], u)

Like(a, b) == a.cols = b.cols /\ a.indexed = b.indexed /\ a.filled = b.filled

WrapperIs(f, u, j) ==
    /\ u \in DOMAIN f.wrappers <=> Wrapped(j, u)
    /\ u \in DOMAIN f.wrappers => f.wrappers[u] = EpochSchema(j)[u].cols

\* Nothing stands under u, or the table does, or its backing table does.
Absent(f, u) ==
    Own(u) \notin DOMAIN f.tables /\ Backing(u) \notin DOMAIN f.tables /\ u \notin DOMAIN f.wrappers
Plain(f, u, row) ==
    /\ Own(u) \in DOMAIN f.tables /\ Backing(u) \notin DOMAIN f.tables
    /\ u \notin DOMAIN f.wrappers /\ Like(f.tables[Own(u)], row)
Hidden(f, u, row) ==
    /\ Backing(u) \in DOMAIN f.tables /\ Own(u) \notin DOMAIN f.tables
    /\ u \in DOMAIN f.wrappers /\ Like(f.tables[Backing(u)], row)

\* What file f holds of name u agrees with the server before statement i.
At(f, i, u) ==
    IF u \notin DOMAIN history[i] THEN Absent(f, u)
    ELSE /\ Plain(f, u, history[i][u]) \/ Hidden(f, u, history[i][u])
         /\ u \in DOMAIN f.wrappers => u \in SecuredNames
         /\ u \in SecuredNames => \E j \in 1..Len(script) : Born(j, u, i) /\ WrapperIs(f, u, j)

InStep(f, i) == IsFile(f) /\ \A u \in Tables : At(f, i, u)

EpochInv ==
    /\ HistoryOK
    /\ applied \in 0..Len(script)
    /\ outcome = "writing" =>
         applied = 0 /\ replica = [tables |-> << >>, wrappers |-> << >>]
    /\ outcome = "done" => applied = Len(script)
    /\ outcome \in {"applying", "done"} => ~RejectRenameOfSecuredTable
    /\ outcome \in {"applying", "done"} /\ Orderly => InStep(replica, applied + 1)
    /\ outcome = "failed" => ~Orderly

----------------------------------------------------------------------------
(* Numbers                                                                 *)

\* A set of naturals that is not empty has a least element.
LEMMA LeastOf ==
    ASSUME NEW D \in SUBSET Nat, D # {}
    PROVE  \E m \in D : \A k \in D : m <= k
<1>1. PICK m \in D : \A k \in D : ~(<<k, m>> \in OpToRel(<, Nat))
  BY WFMin, NatLessThanWellFounded
<1>2. \A k \in D : ~(k < m)
  BY <1>1 DEF OpToRel
<1>3. QED BY <1>2

\* A set of naturals that is not empty and has a bound has a greatest element.
LEMMA GreatestOf ==
    ASSUME NEW n \in Nat, NEW D \in SUBSET (0..n), D # {}
    PROVE  \E m \in D : \A k \in D : k <= m
<1> DEFINE E == {b \in Nat : \A k \in D : k <= b}
<1>1. n \in E
  OBVIOUS
<1>2. PICK b \in E : \A k \in E : b <= k
  <2>1. E \in SUBSET Nat /\ E # {}
    BY <1>1
  <2> HIDE DEF E
  <2>2. QED BY <2>1, LeastOf
<1>3. b \in D
  <2>1. SUFFICES ASSUME b \notin D PROVE FALSE
    OBVIOUS
  <2>2. PICK k \in D : TRUE
    OBVIOUS
  <2>3. b \in Nat /\ \A x \in D : x \in Nat /\ x <= b /\ x # b
    BY <2>1
  <2>4. b - 1 \in Nat /\ \A x \in D : x <= b - 1
    BY <2>2, <2>3
  <2>5. QED BY <2>4, <1>2
<1>4. QED BY <1>2, <1>3

\* A set that holds a, and k + 1 with every k, holds all from a to b.
LEMMA Climbs ==
    ASSUME NEW a \in Nat, NEW b \in Nat, NEW S, a \in S,
           \A k \in a..(b - 1) : k \in S => k + 1 \in S
    PROVE  \A k \in a..b : k \in S
<1> DEFINE D == {k \in a..b : k \notin S}
<1>1. SUFFICES ASSUME D # {} PROVE FALSE
  OBVIOUS
<1>2. PICK m \in D : \A k \in D : m <= k
  <2>1. D \in SUBSET Nat
    OBVIOUS
  <2> HIDE DEF D
  <2>2. QED BY <1>1, <2>1, LeastOf
<1>3. m \in Nat /\ a <= m /\ m <= b /\ m \notin S /\ m # a
  BY <1>2
<1>4. m - 1 \in a..(b - 1) /\ m - 1 \notin D /\ (m - 1) + 1 = m
  BY <1>2, <1>3
<1>5. m - 1 \in S
  BY <1>4
<1>6. QED BY <1>3, <1>4, <1>5

----------------------------------------------------------------------------
(* One statement on the server                                             *)

Kinds == {"CreateTable", "Enable", "Disable", "CreateIndex", "DropTable", "Insert", "Truncate",
          "AddColumn", "DropColumn", "RenameColumn", "RenameTable"}

LEMMA StatementIs ==
    ASSUME NEW s \in Statements
    PROVE  /\ s.t \in Tables /\ s.do \in Kinds
           /\ s.do = "RenameTable" => s.d \in Tables
           /\ s.do = "AddColumn" => s.c \in Extra
           /\ s.do = "RenameColumn" => s.d \in Extra
<1>1. CASE s \in {Simple(do, t) : do \in {"CreateTable", "Enable", "Disable", "CreateIndex", "DropTable",
                             "Insert", "Truncate"}, t \in Tables}
  BY <1>1 DEF Simple, Statement, Kinds
<1>2. CASE s \in {Statement("AddColumn", t, c, "-") : t \in Tables, c \in Extra}
  BY <1>2 DEF Statement, Kinds
<1>3. CASE s \in {Statement("DropColumn", t, c, "-") : t \in Tables, c \in Alterable}
  BY <1>3 DEF Statement, Kinds
<1>4. CASE s \in {Statement("RenameColumn", t, c, d) : t \in Tables, c \in Alterable, d \in Extra}
  BY <1>4 DEF Statement, Kinds
<1>5. CASE s \in {Statement("RenameTable", t, "-", u) : t \in Tables, u \in Tables}
  BY <1>5 DEF Statement, Kinds
<1>6. QED BY <1>1, <1>2, <1>3, <1>4, <1>5 DEF Statements

\* What a statement does to a table that stays under its name.
RowKept(s, row, next, u) ==
    /\ s.t # u => next = row
    /\ ~ColumnChange(s) => next.cols = row.cols
    /\ s.do \notin {"AddColumn", "RenameColumn"} => next.cols \subseteq row.cols
    /\ s.do \notin {"Enable", "Disable"} => next.secured = row.secured

\* What a statement does to the table it names, by its kind.
RowMade(s, row, next) ==
    /\ s.do = "AddColumn" => next.cols = row.cols \cup {s.c}
    /\ s.do = "DropColumn" => next.cols = row.cols \ {s.c}
    /\ s.do = "RenameColumn" => next.cols = Renamed(row.cols, s.c, s.d)
    /\ s.do = "Enable" => next.secured = TRUE
    /\ next.indexed = IF s.do = "CreateIndex" THEN TRUE ELSE row.indexed
    /\ next.filled = IF s.do = "Insert" THEN TRUE
                     ELSE IF s.do = "Truncate" THEN FALSE ELSE row.filled

StepMeans(h, s, g) ==
    /\ IsSchema(g)
    /\ \A u : u \in DOMAIN g <=> (u \in DOMAIN h /\ ~Removes(s, u)) \/ Creates(s, u)
    /\ \A u : u \in DOMAIN h /\ ~Removes(s, u) => RowKept(s, h[u], g[u], u)
    /\ s.t \in DOMAIN h /\ ~Removes(s, s.t) => RowMade(s, h[s.t], g[s.t])
    /\ s.do = "CreateTable" => g[s.t] = NewTable
    /\ s.do = "RenameTable" => g[s.d] = h[s.t]

\* Statements that change one table in place.
LEMMA StepInPlace ==
    ASSUME NEW h, IsSchema(h), NEW s \in Statements, s.t \in DOMAIN h,
           s.do \notin {"CreateTable", "DropTable", "RenameTable"},
           NEW row, row \in Rows, RowKept(s, h[s.t], row, s.t), RowMade(s, h[s.t], row)
    PROVE  StepMeans(h, s, [h EXCEPT ![s.t] = row])
<1> DEFINE g == [h EXCEPT ![s.t] = row]
<1>1. DOMAIN g = DOMAIN h /\ g[s.t] = row /\ (\A u \in DOMAIN h : u # s.t => g[u] = h[u])
      /\ g = [t \in DOMAIN g |-> g[t]]
  BY DEF IsSchema
<1> HIDE DEF g
<1>2. IsSchema(g)
  BY <1>1 DEF IsSchema
<1>3. \A u : ~Removes(s, u) /\ ~Creates(s, u)
  BY DEF Removes, Creates
<1>4. ASSUME NEW u, u \in DOMAIN h PROVE RowKept(s, h[u], g[u], u)
  <2>1. CASE u = s.t
    BY <2>1, <1>1
  <2>2. CASE u # s.t
    BY <2>2, <1>1, <1>4 DEF RowKept
  <2>3. QED BY <2>1, <2>2
<1>5. StepMeans(h, s, g)
  BY <1>1, <1>2, <1>3, <1>4 DEF StepMeans
<1>6. QED BY <1>5 DEF g

\* A row with one field changed is a row.
LEMMA RowFields ==
    ASSUME NEW row \in Rows
    PROVE  /\ row.cols \subseteq Declared \cup Extra
           /\ row.secured \in BOOLEAN /\ row.indexed \in BOOLEAN /\ row.filled \in BOOLEAN
           /\ \A cols \in SUBSET (Declared \cup Extra) :
                LET r == [row EXCEPT !.cols = cols]
                IN  r \in Rows /\ r.cols = cols /\ r.secured = row.secured
                    /\ r.indexed = row.indexed /\ r.filled = row.filled
           /\ \A b \in BOOLEAN :
                LET r == [row EXCEPT !.secured = b]
                IN  r \in Rows /\ r.cols = row.cols /\ r.secured = b
                    /\ r.indexed = row.indexed /\ r.filled = row.filled
           /\ \A b \in BOOLEAN :
                LET r == [row EXCEPT !.indexed = b]
                IN  r \in Rows /\ r.cols = row.cols /\ r.secured = row.secured
                    /\ r.indexed = b /\ r.filled = row.filled
           /\ \A b \in BOOLEAN :
                LET r == [row EXCEPT !.filled = b]
                IN  r \in Rows /\ r.cols = row.cols /\ r.secured = row.secured
                    /\ r.indexed = row.indexed /\ r.filled = b
  BY DEF Rows

LEMMA NewTableIs ==
    /\ NewTable \in Rows /\ NewTable.cols = Declared /\ NewTable.secured = FALSE
    /\ NewTable.indexed = FALSE /\ NewTable.filled = FALSE
  BY DEF NewTable, Rows

LEMMA StepOf ==
    ASSUME NEW h, IsSchema(h), NEW s \in Statements, Valid(h, s)
    PROVE  StepMeans(h, s, After(h, s))
<1>0. s.t \in Tables /\ s.do \in Kinds
      /\ (s.do = "RenameTable" => s.d \in Tables)
      /\ (s.do = "AddColumn" => s.c \in Extra)
      /\ (s.do = "RenameColumn" => s.d \in Extra)
  BY StatementIs
<1>1. CASE s.do = "CreateTable"
  <2> DEFINE g == Put(h, s.t, NewTable)
  <2>1. s.t \notin DOMAIN h /\ After(h, s) = g
    BY <1>1 DEF Valid, After
  <2>2. /\ DOMAIN g = DOMAIN h \cup {s.t} /\ g[s.t] = NewTable
        /\ \A x \in DOMAIN h : x # s.t => g[x] = h[x]
        /\ g = [x \in DOMAIN g |-> g[x]]
    BY DEF Put
  <2> HIDE DEF g
  <2>3. IsSchema(g)
    BY <2>2, <1>0, NewTableIs DEF IsSchema
  <2>4. \A u : ~Removes(s, u) /\ (Creates(s, u) <=> u = s.t)
    BY <1>1 DEF Removes, Creates
  <2>5. \A u \in DOMAIN h : g[u] = h[u] /\ RowKept(s, h[u], g[u], u)
    BY <2>1, <2>2 DEF RowKept
  <2>6. StepMeans(h, s, g)
    BY <2>1, <2>2, <2>3, <2>4, <2>5, <1>1 DEF StepMeans
  <2>7. QED BY <2>1, <2>6
<1>2. CASE s.do = "DropTable"
  <2> DEFINE g == Without(h, s.t)
  <2>1. s.t \in DOMAIN h /\ After(h, s) = g
    BY <1>2 DEF Valid, After
  <2>2. /\ DOMAIN g = DOMAIN h \ {s.t}
        /\ \A x \in DOMAIN h : x # s.t => g[x] = h[x]
        /\ g = [x \in DOMAIN g |-> g[x]]
    BY DEF Without
  <2> HIDE DEF g
  <2>3. IsSchema(g)
    BY <2>2 DEF IsSchema
  <2>4. \A u : (Removes(s, u) <=> u = s.t) /\ ~Creates(s, u)
    BY <1>2 DEF Removes, Creates
  <2>5. \A u \in DOMAIN h : u # s.t => RowKept(s, h[u], g[u], u)
    BY <2>1, <2>2 DEF RowKept
  <2>6. StepMeans(h, s, g)
    BY <2>1, <2>2, <2>3, <2>4, <2>5, <1>2 DEF StepMeans
  <2>7. QED BY <2>1, <2>6
<1>3. CASE s.do = "RenameTable"
  <2> DEFINE g == Move(h, s.t, s.d)
  <2>1. s.t \in DOMAIN h /\ s.d \notin DOMAIN h /\ After(h, s) = g
    BY <1>3 DEF Valid, After
  <2>2. /\ DOMAIN g = (DOMAIN h \ {s.t}) \cup {s.d}
        /\ g[s.d] = h[s.t]
        /\ \A x \in DOMAIN h \ {s.t, s.d} : g[x] = h[x]
        /\ g = [x \in DOMAIN g |-> g[x]]
    BY <2>1 DEF Move, Put, Without
  <2> HIDE DEF g
  <2>3. IsSchema(g)
    BY <2>1, <2>2, <1>0, <1>3 DEF IsSchema
  <2>4. \A u : (Removes(s, u) <=> u = s.t) /\ (Creates(s, u) <=> u = s.d)
    BY <1>3 DEF Removes, Creates
  <2>5. \A u \in DOMAIN h : u # s.t => RowKept(s, h[u], g[u], u)
    BY <2>1, <2>2 DEF RowKept
  <2>6. StepMeans(h, s, g)
    BY <2>1, <2>2, <2>3, <2>4, <2>5, <1>3 DEF StepMeans
  <2>7. QED BY <2>1, <2>6
<1>4. CASE s.do \notin {"CreateTable", "DropTable", "RenameTable"}
  <2>1. s.t \in DOMAIN h
    BY <1>4 DEF Valid
  <2>2. h[s.t] \in Rows
    BY <2>1 DEF IsSchema
  <2>3. ASSUME NEW row \in Rows, After(h, s) = [h EXCEPT ![s.t] = row],
               RowKept(s, h[s.t], row, s.t), RowMade(s, h[s.t], row)
        PROVE  StepMeans(h, s, After(h, s))
    <3>1. StepMeans(h, s, [h EXCEPT ![s.t] = row])
      BY <2>1, <2>3, <1>4, StepInPlace
    <3>2. QED BY <3>1, <2>3
  <2>4. CASE s.do = "Enable"
    <3> DEFINE row == [h[s.t] EXCEPT !.secured = TRUE]
    <3>1. After(h, s) = [h EXCEPT ![s.t] = row]
      BY <2>4 DEF After
    <3>2. row \in Rows /\ row.cols = h[s.t].cols /\ row.secured = TRUE
          /\ row.indexed = h[s.t].indexed /\ row.filled = h[s.t].filled
      BY <2>2, RowFields
    <3> HIDE DEF row
    <3>3. RowKept(s, h[s.t], row, s.t) /\ RowMade(s, h[s.t], row)
      BY <2>4, <3>2 DEF RowKept, RowMade, ColumnChange
    <3>4. QED BY <2>3, <3>1, <3>2, <3>3
  <2>5. CASE s.do = "Disable"
    <3> DEFINE row == [h[s.t] EXCEPT !.secured = FALSE]
    <3>1. After(h, s) = [h EXCEPT ![s.t] = row]
      BY <2>5 DEF After
    <3>2. row \in Rows /\ row.cols = h[s.t].cols
          /\ row.indexed = h[s.t].indexed /\ row.filled = h[s.t].filled
      BY <2>2, RowFields
    <3> HIDE DEF row
    <3>3. RowKept(s, h[s.t], row, s.t) /\ RowMade(s, h[s.t], row)
      BY <2>5, <3>2 DEF RowKept, RowMade, ColumnChange
    <3>4. QED BY <2>3, <3>1, <3>2, <3>3
  <2>6. CASE s.do = "CreateIndex"
    <3> DEFINE row == [h[s.t] EXCEPT !.indexed = TRUE]
    <3>1. After(h, s) = [h EXCEPT ![s.t] = row]
      BY <2>6 DEF After
    <3>2. row \in Rows /\ row.cols = h[s.t].cols /\ row.secured = h[s.t].secured
          /\ row.indexed = TRUE /\ row.filled = h[s.t].filled
      BY <2>2, RowFields
    <3> HIDE DEF row
    <3>3. RowKept(s, h[s.t], row, s.t) /\ RowMade(s, h[s.t], row)
      BY <2>6, <3>2 DEF RowKept, RowMade, ColumnChange
    <3>4. QED BY <2>3, <3>1, <3>2, <3>3
  <2>7. CASE s.do \in {"Insert", "Truncate"}
    <3> DEFINE b == s.do = "Insert"
               row == [h[s.t] EXCEPT !.filled = b]
    <3>1. After(h, s) = [h EXCEPT ![s.t] = row]
      BY <2>7 DEF After
    <3>2. row \in Rows /\ row.cols = h[s.t].cols /\ row.secured = h[s.t].secured
          /\ row.indexed = h[s.t].indexed /\ row.filled = b
      <4>1. b \in BOOLEAN
        OBVIOUS
      <4> HIDE DEF b
      <4>2. QED BY <2>2, <4>1, RowFields
    <3>5. b = IF s.do = "Insert" THEN TRUE ELSE FALSE
      OBVIOUS
    <3> HIDE DEF row, b
    <3>3. RowKept(s, h[s.t], row, s.t) /\ RowMade(s, h[s.t], row)
      BY <2>7, <3>2, <3>5 DEF RowKept, RowMade, ColumnChange
    <3>4. QED BY <2>3, <3>1, <3>2, <3>3
  <2>8. CASE ColumnChange(s)
    <3> DEFINE cols == CASE s.do = "AddColumn" -> h[s.t].cols \cup {s.c}
                         [] s.do = "DropColumn" -> h[s.t].cols \ {s.c}
                         [] s.do = "RenameColumn" -> Renamed(h[s.t].cols, s.c, s.d)
               row == [h[s.t] EXCEPT !.cols = cols]
    <3>1. After(h, s) = [h EXCEPT ![s.t] = row]
      BY <2>8 DEF After, ColumnChange
    <3>5. /\ s.do = "AddColumn" => cols = h[s.t].cols \cup {s.c}
          /\ s.do = "DropColumn" => cols = h[s.t].cols \ {s.c}
          /\ s.do = "RenameColumn" => cols = Renamed(h[s.t].cols, s.c, s.d)
      OBVIOUS
    <3>6. h[s.t].cols \subseteq Declared \cup Extra
      BY <2>2, RowFields
    <3> HIDE DEF cols
    <3>7. cols \in SUBSET (Declared \cup Extra)
      BY <2>8, <3>5, <3>6, <1>0 DEF ColumnChange, Renamed
    <3>2. row \in Rows /\ row.cols = cols /\ row.secured = h[s.t].secured
          /\ row.indexed = h[s.t].indexed /\ row.filled = h[s.t].filled
      BY <2>2, <3>7, RowFields
    <3> HIDE DEF row
    <3>3. RowKept(s, h[s.t], row, s.t) /\ RowMade(s, h[s.t], row)
      BY <2>8, <3>2, <3>5 DEF RowKept, RowMade, ColumnChange
    <3>4. QED BY <2>3, <3>1, <3>2, <3>3
  <2>9. QED BY <2>4, <2>5, <2>6, <2>7, <2>8, <1>0, <1>4 DEF Kinds, ColumnChange
<1>5. QED BY <1>1, <1>2, <1>3, <1>4

----------------------------------------------------------------------------
(* Many statements on the server                                           *)

LEMMA ScriptIs ==
    ASSUME HistoryOK
    PROVE  /\ Len(script) \in Nat /\ DOMAIN script = 1..Len(script)
           /\ \A k \in 1..Len(script) : script[k] \in Statements
           /\ \A k \in 1..(Len(script) + 1) : IsSchema(history[k])
  BY DEF HistoryOK

LEMMA HistoryStep ==
    ASSUME HistoryOK, NEW k \in 1..Len(script)
    PROVE  /\ script[k] \in Statements /\ k \in Nat
           /\ Valid(history[k], script[k])
           /\ StepMeans(history[k], script[k], history[k + 1])
<1>1. script[k] \in Statements /\ IsSchema(history[k]) /\ k \in Nat
  BY ScriptIs
<1>2. Valid(history[k], script[k]) /\ history[k + 1] = After(history[k], script[k])
  BY DEF HistoryOK
<1>3. StepMeans(history[k], script[k], After(history[k], script[k]))
  BY <1>1, <1>2, StepOf
<1>4. QED BY <1>1, <1>2, <1>3

\* A table that nothing removes stays.
LEMMA Stays ==
    ASSUME HistoryOK, NEW a \in 1..(Len(script) + 1), NEW b \in a..(Len(script) + 1), NEW u,
           u \in DOMAIN history[a], \A k \in a..(b - 1) : ~Removes(script[k], u)
    PROVE  \A k \in a..b : u \in DOMAIN history[k]
<1> DEFINE S == {k \in a..b : u \in DOMAIN history[k]}
<1>0. Len(script) \in Nat /\ a \in Nat /\ b \in Nat /\ a <= b /\ b <= Len(script) + 1 /\ 1 <= a
  BY ScriptIs
<1>1. a \in S
  BY <1>0
<1>2. ASSUME NEW k \in a..(b - 1), k \in S PROVE k + 1 \in S
  <2>1. k \in 1..Len(script) /\ k + 1 \in a..b
    BY <1>0
  <2>2. StepMeans(history[k], script[k], history[k + 1])
    BY <2>1, HistoryStep
  <2>3. u \in DOMAIN history[k + 1]
    BY <2>2, <1>2 DEF StepMeans
  <2>4. QED BY <2>1, <2>3
<1>3. \A k \in a..b : k \in S
  <2> HIDE DEF S
  <2>1. QED BY <1>0, <1>1, <1>2, Climbs
<1>4. QED BY <1>3

StaysUnder(a, b, u) ==
    u \in DOMAIN history[a] /\ \A k \in a..(b - 1) : ~Removes(script[k], u)

\* One step of a table that stays.
LEMMA StepKeepsRow ==
    ASSUME HistoryOK, NEW a \in 1..(Len(script) + 1), NEW b \in a..(Len(script) + 1), NEW u,
           StaysUnder(a, b, u), NEW k \in a..(b - 1)
    PROVE  RowKept(script[k], history[k][u], history[k + 1][u], u)
<1>0. Len(script) \in Nat /\ a \in Nat /\ b \in Nat /\ a <= b /\ b <= Len(script) + 1 /\ 1 <= a
  BY ScriptIs
<1>1. k \in 1..Len(script) /\ k \in a..b
  BY <1>0
<1>2. \A i \in a..b : u \in DOMAIN history[i]
  BY Stays DEF StaysUnder
<1>3. u \in DOMAIN history[k] /\ ~Removes(script[k], u)
  BY <1>1, <1>2 DEF StaysUnder
<1>4. StepMeans(history[k], script[k], history[k + 1])
  BY <1>1, HistoryStep
<1>5. QED BY <1>3, <1>4 DEF StepMeans

\* Its columns stay as long as no statement changes them.
LEMMA ColsStay ==
    ASSUME HistoryOK, NEW a \in 1..(Len(script) + 1), NEW b \in a..(Len(script) + 1), NEW u,
           StaysUnder(a, b, u),
           \A k \in a..(b - 1) : ~(script[k].t = u /\ ColumnChange(script[k]))
    PROVE  history[b][u].cols = history[a][u].cols
<1> DEFINE S == {k \in a..b : history[k][u].cols = history[a][u].cols}
<1>0. Len(script) \in Nat /\ a \in Nat /\ b \in Nat /\ a <= b /\ b <= Len(script) + 1 /\ 1 <= a
  BY ScriptIs
<1>1. a \in S
  BY <1>0
<1>2. ASSUME NEW k \in a..(b - 1), k \in S PROVE k + 1 \in S
  <2>1. k + 1 \in a..b
    BY <1>0
  <2>2. RowKept(script[k], history[k][u], history[k + 1][u], u)
    BY StepKeepsRow
  <2>3. history[k + 1][u].cols = history[k][u].cols
    BY <2>2 DEF RowKept
  <2>4. QED BY <2>1, <2>3, <1>2
<1>3. \A k \in a..b : k \in S
  <2> HIDE DEF S
  <2>1. QED BY <1>0, <1>1, <1>2, Climbs
<1>4. b \in a..b
  BY <1>0
<1>5. QED BY <1>3, <1>4

\* They only shrink as long as none is added or renamed.
LEMMA ColsShrink ==
    ASSUME HistoryOK, NEW a \in 1..(Len(script) + 1), NEW b \in a..(Len(script) + 1), NEW u,
           StaysUnder(a, b, u),
           \A k \in a..(b - 1) :
               ~(script[k].t = u /\ script[k].do \in {"AddColumn", "RenameColumn"})
    PROVE  history[b][u].cols \subseteq history[a][u].cols
<1> DEFINE S == {k \in a..b : history[k][u].cols \subseteq history[a][u].cols}
<1>0. Len(script) \in Nat /\ a \in Nat /\ b \in Nat /\ a <= b /\ b <= Len(script) + 1 /\ 1 <= a
  BY ScriptIs
<1>1. a \in S
  BY <1>0
<1>2. ASSUME NEW k \in a..(b - 1), k \in S PROVE k + 1 \in S
  <2>1. k + 1 \in a..b
    BY <1>0
  <2>2. RowKept(script[k], history[k][u], history[k + 1][u], u)
    BY StepKeepsRow
  <2>3. history[k + 1][u].cols \subseteq history[k][u].cols
    BY <2>2 DEF RowKept
  <2>4. QED BY <2>1, <2>3, <1>2
<1>3. \A k \in a..b : k \in S
  <2> HIDE DEF S
  <2>1. QED BY <1>0, <1>1, <1>2, Climbs
<1>4. b \in a..b
  BY <1>0
<1>5. QED BY <1>3, <1>4

\* Its row security stays as long as no statement switches it.
LEMMA SecurityStays ==
    ASSUME HistoryOK, NEW a \in 1..(Len(script) + 1), NEW b \in a..(Len(script) + 1), NEW u,
           StaysUnder(a, b, u),
           \A k \in a..(b - 1) :
               ~(script[k].t = u /\ script[k].do \in {"Enable", "Disable"})
    PROVE  history[b][u].secured = history[a][u].secured
<1> DEFINE S == {k \in a..b : history[k][u].secured = history[a][u].secured}
<1>0. Len(script) \in Nat /\ a \in Nat /\ b \in Nat /\ a <= b /\ b <= Len(script) + 1 /\ 1 <= a
  BY ScriptIs
<1>1. a \in S
  BY <1>0
<1>2. ASSUME NEW k \in a..(b - 1), k \in S PROVE k + 1 \in S
  <2>1. k + 1 \in a..b
    BY <1>0
  <2>2. RowKept(script[k], history[k][u], history[k + 1][u], u)
    BY StepKeepsRow
  <2>3. history[k + 1][u].secured = history[k][u].secured
    BY <2>2 DEF RowKept
  <2>4. QED BY <2>1, <2>3, <1>2
<1>3. \A k \in a..b : k \in S
  <2> HIDE DEF S
  <2>1. QED BY <1>0, <1>1, <1>2, Climbs
<1>4. b \in a..b
  BY <1>0
<1>5. QED BY <1>3, <1>4

\* In an accepted script only a name that is secured somewhere is secured.
LEMMA SecuredIsNamed ==
    ASSUME HistoryOK, ~RejectRenameOfSecuredTable, NEW i \in 1..(Len(script) + 1), NEW u,
           u \in DOMAIN history[i], history[i][u].secured
    PROVE  u \in SecuredNames
<1> DEFINE Sound(k) == \A x \in DOMAIN history[k] : history[k][x].secured => x \in SecuredNames
           S == {k \in 1..i : Sound(k)}
<1>0. Len(script) \in Nat /\ i \in Nat /\ 1 <= i /\ i <= Len(script) + 1
      /\ DOMAIN script = 1..Len(script)
  BY ScriptIs
<1>1. 1 \in S
  BY <1>0 DEF HistoryOK
<1>2. ASSUME NEW k \in 1..(i - 1), k \in S PROVE k + 1 \in S
  <2>1. k \in 1..Len(script) /\ k + 1 \in 1..i
    BY <1>0
  <2>2. StepMeans(history[k], script[k], history[k + 1]) /\ Valid(history[k], script[k])
        /\ script[k] \in Statements
    BY <2>1, HistoryStep
  <2>3. ASSUME NEW x \in DOMAIN history[k + 1], history[k + 1][x].secured
        PROVE  x \in SecuredNames
    <3>1. CASE Creates(script[k], x)
      <4>1. CASE script[k].do = "CreateTable" /\ script[k].t = x
        BY <4>1, <2>2, <2>3, NewTableIs DEF StepMeans
      <4>2. CASE script[k].do = "RenameTable" /\ script[k].d = x
        <5>1. history[k + 1][x] = history[k][script[k].t] /\ script[k].t \in DOMAIN history[k]
          BY <4>2, <2>2 DEF StepMeans, Valid
        <5>2. script[k].t \in SecuredNames
          BY <5>1, <2>3, <1>2
        <5>3. QED BY <5>2, <4>2, <2>1, <1>0 DEF RejectRenameOfSecuredTable
      <4>3. QED BY <4>1, <4>2, <3>1 DEF Creates
    <3>2. CASE ~Creates(script[k], x)
      <4>1. x \in DOMAIN history[k] /\ RowKept(script[k], history[k][x], history[k + 1][x], x)
        BY <3>2, <2>2 DEF StepMeans
      <4>2. CASE script[k].t = x /\ script[k].do = "Enable"
        BY <4>2, <2>1, <1>0 DEF SecuredNames
      <4>3. CASE script[k].t = x /\ script[k].do = "Disable"
        <5>1. history[k + 1][x].secured = FALSE
          <6>1. history[k + 1] = After(history[k], script[k]) /\ IsSchema(history[k])
            BY <2>1, <1>0 DEF HistoryOK
          <6>2. history[k + 1][x] = [history[k][x] EXCEPT !.secured = FALSE]
            BY <6>1, <4>3, <4>1 DEF After, IsSchema
          <6>3. history[k][x] \in Rows
            BY <6>1, <4>1 DEF IsSchema
          <6>4. QED BY <6>2, <6>3 DEF Rows
        <5>2. QED BY <5>1, <2>3
      <4>4. CASE ~(script[k].t = x /\ script[k].do \in {"Enable", "Disable"})
        <5>1. history[k + 1][x].secured = history[k][x].secured
          BY <4>1, <4>4 DEF RowKept
        <5>2. QED BY <5>1, <4>1, <2>3, <1>2
      <4>5. QED BY <4>2, <4>3, <4>4
    <3>3. QED BY <3>1, <3>2
  <2>4. QED BY <2>1, <2>3
<1>3. \A k \in 1..i : k \in S
  <2> HIDE DEF S
  <2>1. QED BY <1>0, <1>1, <1>2, Climbs
<1>4. Sound(i)
  BY <1>0, <1>3
<1>5. QED BY <1>4

----------------------------------------------------------------------------
(* Epochs and births                                                       *)

LEMMA EpochEndIs ==
    ASSUME HistoryOK, NEW i \in 1..(Len(script) + 1)
    PROVE  /\ EpochEnd(i) \in i..(Len(script) + 1)
           /\ \A k \in i..(EpochEnd(i) - 1) : ~SchemaEndsEpoch(script[k])
           /\ EpochEnd(i) <= Len(script) => SchemaEndsEpoch(script[EpochEnd(i)])
<1>0. Len(script) \in Nat /\ i \in Nat /\ i <= Len(script) + 1
  BY ScriptIs
<1>1. CASE Ends(i) = {}
  <2>1. EpochEnd(i) = Len(script) + 1
    BY <1>1 DEF EpochEnd
  <2>2. QED BY <1>0, <1>1, <2>1 DEF Ends
<1>2. CASE Ends(i) # {}
  <2>1. Ends(i) \in SUBSET Nat
    BY <1>0 DEF Ends
  <2>2. \E j \in Ends(i) : \A k \in Ends(i) : j <= k
    BY <1>2, <2>1, LeastOf
  <2>3. EpochEnd(i) \in Ends(i) /\ \A k \in Ends(i) : EpochEnd(i) <= k
    BY <1>2, <2>2 DEF EpochEnd
  <2>4. EpochEnd(i) \in i..Len(script) /\ SchemaEndsEpoch(script[EpochEnd(i)])
    BY <2>3 DEF Ends
  <2>5. ASSUME NEW k \in i..(EpochEnd(i) - 1) PROVE ~SchemaEndsEpoch(script[k])
    <3>1. k \in i..Len(script) /\ ~(EpochEnd(i) <= k)
      BY <2>4, <1>0
    <3>2. QED BY <3>1, <2>3 DEF Ends
  <2>6. EpochEnd(i) \in i..(Len(script) + 1)
    BY <2>4, <1>0
  <2>7. QED BY <2>4, <2>5, <2>6
<1>3. QED BY <1>1, <1>2

\* A statement up to the end of an epoch is of that epoch.
LEMMA SameEpoch ==
    ASSUME HistoryOK, NEW j \in 1..(Len(script) + 1), NEW k \in j..EpochEnd(j)
    PROVE  EpochEnd(k) = EpochEnd(j)
<1> DEFINE E == EpochEnd(j)
           F == EpochEnd(k)
<1>0. Len(script) \in Nat /\ j \in Nat /\ 1 <= j
  BY ScriptIs
<1>1. /\ E \in j..(Len(script) + 1)
      /\ \A x \in j..(E - 1) : ~SchemaEndsEpoch(script[x])
      /\ E <= Len(script) => SchemaEndsEpoch(script[E])
  BY EpochEndIs
<1>2. k \in 1..(Len(script) + 1)
  BY <1>0, <1>1
<1>3. /\ F \in k..(Len(script) + 1)
      /\ \A x \in k..(F - 1) : ~SchemaEndsEpoch(script[x])
      /\ F <= Len(script) => SchemaEndsEpoch(script[F])
  BY <1>2, EpochEndIs
<1>4. j <= k /\ k <= E /\ k \in Nat
  BY <1>0, <1>1
<1> HIDE DEF E, F
<1>5. ~(F < E)
  BY <1>0, <1>1, <1>3, <1>4
<1>6. ~(E < F)
  BY <1>0, <1>1, <1>3, <1>4
<1>7. E = F
  BY <1>0, <1>1, <1>3, <1>4, <1>5, <1>6
<1>8. QED BY <1>7 DEF E, F

\* A table born at j stands from j + 1 on.
LEMMA BornStands ==
    ASSUME HistoryOK, NEW i \in 1..(Len(script) + 1), NEW j, NEW u, Born(j, u, i)
    PROVE  /\ j \in 1..Len(script) /\ j + 1 \in 1..i
           /\ StaysUnder(j + 1, i, u)
           /\ \A k \in (j + 1)..i : u \in DOMAIN history[k] /\ Born(j, u, k)
<1>0. Len(script) \in Nat /\ i \in Nat /\ i <= Len(script) + 1
  BY ScriptIs
<1>1. j \in Nat /\ 1 <= j /\ j + 1 <= i /\ j \in 1..Len(script) /\ j + 1 \in 1..i
      /\ j + 1 \in 1..(Len(script) + 1) /\ i \in (j + 1)..(Len(script) + 1)
  BY <1>0 DEF Born
<1>2. StepMeans(history[j], script[j], history[j + 1])
  BY <1>1, HistoryStep
<1>3. u \in DOMAIN history[j + 1]
  BY <1>2 DEF StepMeans, Creates, Born
<1>4. \A k \in (j + 1)..(i - 1) : ~Removes(script[k], u)
  BY DEF Born
<1>5. \A k \in (j + 1)..i : u \in DOMAIN history[k]
  BY <1>1, <1>3, <1>4, Stays
<1>6. ASSUME NEW k \in (j + 1)..i PROVE Born(j, u, k)
  <2>1. j \in 1..(k - 1) /\ \A x \in (j + 1)..(k - 1) : x \in (j + 1)..(i - 1)
    BY <1>0, <1>1
  <2>2. QED BY <2>1 DEF Born
<1>7. QED BY <1>1, <1>3, <1>4, <1>5, <1>6 DEF StaysUnder

\* The creation of a statement's table is where the table was born.
LEMMA CreationIs ==
    ASSUME HistoryOK, NEW i \in 1..Len(script), NEW j, Born(j, script[i].t, i)
    PROVE  Creation(i) = j
<1> DEFINE u == script[i].t
<1>0. Len(script) \in Nat /\ i \in Nat /\ i \in 1..(Len(script) + 1) /\ i <= Len(script)
  BY ScriptIs
<1>1. /\ j \in 1..Len(script) /\ j + 1 \in 1..i
      /\ \A k \in (j + 1)..i : u \in DOMAIN history[k]
  BY <1>0, BornStands
<1>2. j \in Made(i)
  BY <1>0, <1>1 DEF Made, Born
<1>3. ASSUME NEW k \in Made(i) PROVE k <= j
  <2>1. k \in 1..i /\ script[k].do = "CreateTable" /\ script[k].t = u
    BY DEF Made
  <2>2. SUFFICES ASSUME ~(k <= j) PROVE FALSE
    OBVIOUS
  <2>3. k \in (j + 1)..i /\ k \in 1..Len(script)
    BY <2>1, <2>2, <1>0, <1>1
  <2>4. Valid(history[k], script[k])
    BY <2>3, HistoryStep
  <2>5. QED BY <2>1, <2>3, <2>4, <1>1 DEF Valid
<1>4. Creation(i) \in Made(i) /\ \A k \in Made(i) : k <= Creation(i)
  BY <1>2, <1>3 DEF Creation
<1>5. Creation(i) \in Nat /\ Creation(i) <= j /\ j <= Creation(i) /\ j \in Nat
  BY <1>0, <1>1, <1>2, <1>3, <1>4 DEF Made
<1>6. QED BY <1>5

\* A table that stands when its epoch goes on stands, and is as old, at its end.
LEMMA BornToEpochEnd ==
    ASSUME HistoryOK, NEW i \in 1..(Len(script) + 1), NEW j, NEW u, Born(j, u, i)
    PROVE  Born(j, u, EpochEnd(i)) /\ StaysUnder(i, EpochEnd(i), u)
<1> DEFINE E == EpochEnd(i)
<1>0. Len(script) \in Nat /\ i \in Nat
  BY ScriptIs
<1>1. E \in i..(Len(script) + 1) /\ \A k \in i..(E - 1) : ~SchemaEndsEpoch(script[k])
  BY EpochEndIs
<1>2. \A k \in i..(E - 1) : ~Removes(script[k], u)
  BY <1>1 DEF SchemaEndsEpoch, Removes
<1>3. j \in 1..Len(script) /\ j + 1 \in 1..i /\ u \in DOMAIN history[i]
  <2>1. j \in 1..Len(script) /\ j + 1 \in 1..i
        /\ \A k \in (j + 1)..i : u \in DOMAIN history[k]
    BY BornStands
  <2>2. i \in (j + 1)..i
    BY <2>1, <1>0
  <2>3. QED BY <2>1, <2>2
<1> HIDE DEF E
<1>4. ASSUME NEW k \in (j + 1)..(E - 1) PROVE ~Removes(script[k], u)
  <2>1. CASE k \in (j + 1)..(i - 1)
    BY <2>1 DEF Born
  <2>2. CASE k \in i..(E - 1)
    BY <2>2, <1>2
  <2>3. QED BY <2>1, <2>2, <1>0, <1>1, <1>3
<1>5. j \in 1..(E - 1)
  BY <1>0, <1>1, <1>3
<1>6. Born(j, u, E)
  BY <1>4, <1>5 DEF Born
<1>7. QED BY <1>2, <1>3, <1>6 DEF StaysUnder, E

----------------------------------------------------------------------------
(* What an orderly script says of its wrappers                             *)

LEMMA OrderlyAt ==
    ASSUME HistoryOK, Orderly, NEW i \in 1..Len(script)
    PROVE  /\ Wrapped(i, script[i].t) = Wrapped(Creation(i), script[i].t)
           /\ Wrapped(i, script[i].t) =>
                /\ script[i].do \notin {"RenameColumn", "DropTable"}
                /\ ColumnChange(script[i]) => EpochEnd(i) = EpochEnd(Creation(i))
                /\ script[i].do = "Insert" =>
                     \A k \in (i + 1)..(EpochEnd(i) - 1) :
                         script[k].t = script[i].t => ~ColumnChange(script[k])
           /\ script[i].do \in {"DropColumn", "RenameColumn", "RenameTable"} =>
                \A k \in (i + 1)..(EpochEnd(i) - 1) :
                    ~(/\ script[k].do = "AddColumn" /\ Wrapped(k, script[k].t)
                      /\ Creation(k) < i)
<1>1. i \in DOMAIN script
  BY ScriptIs
<1>2. QED BY <1>1 DEF Orderly

\* Whether a table is taken for secured is settled where it is born.
LEMMA WrappedSinceBirth ==
    ASSUME HistoryOK, Orderly, NEW i \in 1..Len(script), NEW j, Born(j, script[i].t, i)
    PROVE  /\ Wrapped(i, script[i].t) = Wrapped(j, script[i].t)
           /\ Creation(i) = j
<1>1. Creation(i) = j
  BY CreationIs
<1>2. QED BY <1>1, OrderlyAt

\* Where a table is born its epoch goes on.
LEMMA BirthEpoch ==
    ASSUME HistoryOK, NEW i \in 1..(Len(script) + 1), NEW j, NEW u, Born(j, u, i)
    PROVE  /\ EpochEnd(j) \in (j + 1)..(Len(script) + 1)
           /\ u \in DOMAIN history[EpochEnd(j)]
           /\ Wrapped(j, u) <=> history[EpochEnd(j)][u].secured
<1>0. Len(script) \in Nat /\ j \in 1..Len(script) /\ j + 1 \in 1..i /\ i \in 1..(Len(script) + 1)
  BY ScriptIs, BornStands
<1>1. /\ EpochEnd(j) \in j..(Len(script) + 1)
      /\ EpochEnd(j) <= Len(script) => SchemaEndsEpoch(script[EpochEnd(j)])
  BY <1>0, EpochEndIs
<1>2. ~SchemaEndsEpoch(script[j])
  BY DEF Born, SchemaEndsEpoch
<1>3. EpochEnd(j) \in (j + 1)..(Len(script) + 1)
  BY <1>0, <1>1, <1>2
<1>4. j + 1 \in j..EpochEnd(j) /\ j + 1 \in 1..(Len(script) + 1) /\ j + 1 \in (j + 1)..i
  BY <1>0, <1>3
<1>5. EpochEnd(j + 1) = EpochEnd(j)
  BY <1>0, <1>4, SameEpoch
<1>6. Born(j, u, j + 1)
  BY <1>4, BornStands
<1>7. Born(j, u, EpochEnd(j))
  BY <1>4, <1>5, <1>6, BornToEpochEnd
<1>8. EpochEnd(j) \in 1..(Len(script) + 1) /\ EpochEnd(j) \in (j + 1)..EpochEnd(j)
  BY <1>0, <1>3
<1>9. u \in DOMAIN history[EpochEnd(j)]
  BY <1>7, <1>8, BornStands
<1>10. QED BY <1>3, <1>9 DEF Wrapped, TranslationTableHasRls, EpochSchema

\* Once its birth epoch is over, a wrapped table keeps the wrapper's columns.
LEMMA LateCols ==
    ASSUME HistoryOK, Orderly, NEW b \in 1..(Len(script) + 1), NEW j, NEW u, Born(j, u, b),
           Wrapped(j, u), EpochEnd(j) <= b
    PROVE  history[b][u].cols = EpochSchema(j)[u].cols
<1> DEFINE E == EpochEnd(j)
<1>0. Len(script) \in Nat /\ b \in Nat /\ b <= Len(script) + 1 /\ j \in 1..Len(script)
      /\ j + 1 \in 1..b
  BY ScriptIs, BornStands
<1>1. E \in (j + 1)..(Len(script) + 1) /\ u \in DOMAIN history[E]
  BY BirthEpoch
<1>2. E \in 1..(Len(script) + 1) /\ b \in E..(Len(script) + 1) /\ j \in 1..(Len(script) + 1)
  BY <1>0, <1>1
<1>3. ASSUME NEW k \in E..(b - 1)
      PROVE  ~Removes(script[k], u) /\ ~(script[k].t = u /\ ColumnChange(script[k]))
  <2>1. k \in (j + 1)..(b - 1) /\ k \in (j + 1)..b /\ k \in 1..Len(script)
        /\ k \in 1..(Len(script) + 1)
    BY <1>0, <1>1
  <2>2. ~Removes(script[k], u)
    BY <2>1 DEF Born
  <2>3. Born(j, u, k)
    BY <2>1, BornStands
  <2>4. SUFFICES ASSUME script[k].t = u, ColumnChange(script[k]) PROVE FALSE
    BY <2>2
  <2>5. Wrapped(k, u) /\ Creation(k) = j
    BY <2>1, <2>3, <2>4, WrappedSinceBirth
  <2>6. EpochEnd(k) = E
    BY <2>1, <2>4, <2>5, OrderlyAt
  <2>7. EpochEnd(k) \in k..(Len(script) + 1)
        /\ (EpochEnd(k) <= Len(script) => SchemaEndsEpoch(script[EpochEnd(k)]))
    BY <2>1, EpochEndIs
  <2>8. E = k /\ SchemaEndsEpoch(script[k])
    BY <2>1, <2>6, <2>7, <1>0, <1>1
  <2>9. QED BY <2>8, <2>4 DEF SchemaEndsEpoch, ColumnChange
<1>4. StaysUnder(E, b, u)
  BY <1>1, <1>3 DEF StaysUnder
<1>5. history[b][u].cols = history[E][u].cols
  BY <1>2, <1>3, <1>4, ColsStay
<1>6. QED BY <1>5 DEF EpochSchema

\* The columns of a wrapper stand whenever SQLite looks at every view.
LEMMA WrapperCovered ==
    ASSUME HistoryOK, Orderly, NEW i \in 1..Len(script), NEW j, NEW u, Born(j, u, i),
           Wrapped(j, u), script[i].do \in {"DropColumn", "RenameColumn", "RenameTable"}
    PROVE  /\ EpochSchema(j)[u].cols \subseteq history[i][u].cols
           /\ script[i].do = "DropColumn" => EpochSchema(j)[u].cols \subseteq history[i + 1][u].cols
<1> DEFINE E == EpochEnd(j)
<1>0. Len(script) \in Nat /\ i \in Nat /\ i <= Len(script) /\ i \in 1..(Len(script) + 1)
  BY ScriptIs
<1>1. j \in 1..Len(script) /\ j + 1 \in 1..i /\ E \in (j + 1)..(Len(script) + 1)
  BY <1>0, BornStands, BirthEpoch
<1>2. i \in (j + 1)..i /\ i + 1 \in 1..(Len(script) + 1)
  BY <1>0, <1>1
<1>3. u \in DOMAIN history[i]
  BY <1>0, <1>2, BornStands
<1>4. script[i].do = "DropColumn" => Born(j, u, i + 1) /\ ~Removes(script[i], u)
  <2>1. SUFFICES ASSUME script[i].do = "DropColumn" PROVE Born(j, u, i + 1) /\ ~Removes(script[i], u)
    OBVIOUS
  <2>2. ~Removes(script[i], u)
    BY <2>1 DEF Removes
  <2>3. \A k \in (j + 1)..((i + 1) - 1) : k \in (j + 1)..(i - 1) \/ k = i
    BY <1>0, <1>1
  <2>4. j \in 1..((i + 1) - 1)
    BY <1>0, <1>1
  <2>5. QED BY <2>2, <2>3, <2>4 DEF Born
<1>5. CASE E <= i
  <2>1. EpochSchema(j)[u].cols = history[i][u].cols
    BY <1>0, <1>5, LateCols
  <2>2. ASSUME script[i].do = "DropColumn" PROVE EpochSchema(j)[u].cols = history[i + 1][u].cols
    <3>1. EpochEnd(j) <= i + 1
      BY <1>0, <1>1, <1>5
    <3>2. QED BY <1>2, <1>4, <2>2, <3>1, LateCols
  <2>3. QED BY <2>1, <2>2
<1>6. CASE ~(E <= i)
  <2>1. i \in j..E /\ j \in 1..(Len(script) + 1)
    BY <1>0, <1>1, <1>6
  <2>2. EpochEnd(i) = E
    BY <2>1, SameEpoch
  <2>3. i + 1 \in 1..(Len(script) + 1) /\ E \in (i + 1)..(Len(script) + 1) /\ E \in i..(Len(script) + 1)
    BY <1>0, <1>1, <1>6
  <2>4. Born(j, u, E) /\ StaysUnder(i, E, u)
    BY <1>0, <2>2, BornToEpochEnd
  <2>5. ASSUME NEW k \in (i + 1)..(E - 1)
        PROVE  ~(script[k].t = u /\ script[k].do \in {"AddColumn", "RenameColumn"})
    <3>1. SUFFICES ASSUME script[k].t = u, script[k].do \in {"AddColumn", "RenameColumn"}
                   PROVE FALSE
      OBVIOUS
    <3>2. k \in 1..Len(script) /\ k \in (j + 1)..E /\ E \in 1..(Len(script) + 1)
      BY <1>0, <1>1
    <3>3. Born(j, u, k)
      BY <2>4, <3>2, BornStands
    <3>4. Wrapped(k, u) /\ Creation(k) = j
      BY <3>1, <3>2, <3>3, WrappedSinceBirth
    <3>5. script[k].do = "AddColumn"
      BY <3>1, <3>2, <3>4, OrderlyAt
    <3>6. k \in (i + 1)..(EpochEnd(i) - 1) /\ j < i
      BY <2>2, <1>0, <1>1
    <3>7. QED BY <3>1, <3>4, <3>5, <3>6, OrderlyAt
  <2>6. StaysUnder(i + 1, E, u)
    <3>1. i \in i..(E - 1) /\ \A k \in (i + 1)..(E - 1) : k \in i..(E - 1)
      BY <1>0, <2>3
    <3>2. ~Removes(script[i], u)
      BY <2>4, <3>1 DEF StaysUnder
    <3>3. StepMeans(history[i], script[i], history[i + 1])
      BY HistoryStep
    <3>4. u \in DOMAIN history[i + 1]
      BY <1>3, <3>2, <3>3 DEF StepMeans
    <3>5. QED BY <3>1, <3>4, <2>4 DEF StaysUnder
  <2>7. history[E][u].cols \subseteq history[i + 1][u].cols
    BY <2>3, <2>5, <2>6, ColsShrink
  <2>8. history[i + 1][u].cols \subseteq history[i][u].cols
    <3>1. i \in i..(E - 1)
      BY <1>0, <2>3
    <3>2. RowKept(script[i], history[i][u], history[i + 1][u], u)
      BY <1>0, <2>3, <2>4, <3>1, StepKeepsRow
    <3>3. CASE script[i].t = u /\ script[i].do = "RenameColumn"
      <4>1. Wrapped(i, u)
        BY <3>3, WrappedSinceBirth
      <4>2. QED BY <3>3, <4>1, OrderlyAt
    <3>4. CASE ~(script[i].t = u /\ script[i].do = "RenameColumn")
      BY <3>2, <3>4 DEF RowKept
    <3>5. QED BY <3>3, <3>4
  <2>9. QED BY <2>7, <2>8 DEF EpochSchema
<1>7. QED BY <1>5, <1>6

\* An orderly script fills a wrapped table when its columns are final.
LEMMA InsertCols ==
    ASSUME HistoryOK, Orderly, NEW i \in 1..Len(script), NEW j, NEW u, Born(j, u, i),
           Wrapped(j, u), script[i].do = "Insert", script[i].t = u
    PROVE  history[i][u].cols = EpochSchema(j)[u].cols
<1> DEFINE E == EpochEnd(j)
<1>0. Len(script) \in Nat /\ i \in Nat /\ i <= Len(script) /\ i \in 1..(Len(script) + 1)
  BY ScriptIs
<1>1. j \in 1..Len(script) /\ j + 1 \in 1..i /\ E \in (j + 1)..(Len(script) + 1)
  BY <1>0, BornStands, BirthEpoch
<1>5. CASE E <= i
  BY <1>0, <1>5, LateCols
<1>6. CASE ~(E <= i)
  <2>1. i \in j..E /\ j \in 1..(Len(script) + 1)
    BY <1>0, <1>1, <1>6
  <2>2. EpochEnd(i) = E
    BY <2>1, SameEpoch
  <2>3. E \in i..(Len(script) + 1)
    BY <1>0, <1>1, <1>6
  <2>4. StaysUnder(i, E, u)
    BY <1>0, <2>2, BornToEpochEnd
  <2>5. Wrapped(i, u)
    BY WrappedSinceBirth
  <2>6. \A k \in (i + 1)..(E - 1) : script[k].t = u => ~ColumnChange(script[k])
    BY <2>2, <2>5, OrderlyAt
  <2>7. ASSUME NEW k \in i..(E - 1) PROVE ~(script[k].t = u /\ ColumnChange(script[k]))
    <3>1. CASE k = i
      BY <3>1 DEF ColumnChange
    <3>2. CASE k # i
      <4>1. k \in (i + 1)..(E - 1)
        BY <3>2, <1>0, <2>3
      <4>2. QED BY <4>1, <2>6
    <3>3. QED BY <3>1, <3>2
  <2>8. history[E][u].cols = history[i][u].cols
    BY <1>0, <2>3, <2>4, <2>7, ColsStay
  <2>9. QED BY <2>8 DEF EpochSchema
<1>7. QED BY <1>5, <1>6

\* At the end a table is secured exactly when its creation took it for secured.
LEMMA SecuredAtLast ==
    ASSUME HistoryOK, Orderly, NEW j, NEW u, Born(j, u, Len(script) + 1)
    PROVE  history[Len(script) + 1][u].secured <=> Wrapped(j, u)
<1> DEFINE L == Len(script)
           E == EpochEnd(j)
           D == {k \in E..L : script[k].t = u /\ script[k].do \in {"Enable", "Disable"}}
<1>0. L \in Nat /\ L + 1 \in 1..(L + 1) /\ L + 1 \in Nat
  BY ScriptIs
<1>1. /\ j \in 1..L /\ E \in (j + 1)..(L + 1) /\ u \in DOMAIN history[E]
      /\ Wrapped(j, u) <=> history[E][u].secured
      /\ \A k \in (j + 1)..(L + 1) : u \in DOMAIN history[k] /\ Born(j, u, k)
      /\ StaysUnder(j + 1, L + 1, u)
  BY <1>0, BornStands, BirthEpoch
<1>2. ASSUME NEW k \in (j + 1)..(L + 1) PROVE StaysUnder(k, L + 1, u)
  <2>1. \A x \in k..((L + 1) - 1) : x \in (j + 1)..((L + 1) - 1)
    BY <1>0, <1>1
  <2>2. QED BY <1>1, <2>1 DEF StaysUnder
<1>3. CASE D = {}
  <2>1. \A k \in E..((L + 1) - 1) : ~(script[k].t = u /\ script[k].do \in {"Enable", "Disable"})
    BY <1>0, <1>1, <1>3
  <2>2. E \in 1..(L + 1) /\ L + 1 \in E..(L + 1)
    BY <1>0, <1>1
  <2>3. history[L + 1][u].secured = history[E][u].secured
    BY <1>1, <1>2, <2>1, <2>2, SecurityStays
  <2>4. QED BY <2>3, <1>1
<1>4. CASE D # {}
  <2>1. D \in SUBSET (0..L)
    BY <1>0, <1>1
  <2>2. PICK k \in D : \A x \in D : x <= k
    <3> HIDE DEF D
    <3>1. QED BY <1>0, <1>4, <2>1, GreatestOf
  <2>3. k \in E..L /\ script[k].t = u /\ script[k].do \in {"Enable", "Disable"}
    BY <2>2
  <2>4. k \in 1..L /\ k \in (j + 1)..(L + 1) /\ k \in 1..(L + 1) /\ k \in Nat
    BY <2>3, <1>0, <1>1
  <2>5. Wrapped(k, u) = Wrapped(j, u)
    <3>1. Born(j, u, k)
      BY <1>1, <2>4
    <3>2. QED BY <3>1, <2>3, <2>4, WrappedSinceBirth
  <2> DEFINE F == EpochEnd(k)
  <2>6. F \in k..(L + 1) /\ (F <= L => SchemaEndsEpoch(script[F]))
    BY <2>4, EpochEndIs
  <2>7. F \in (k + 1)..(L + 1)
    <3>1. ~SchemaEndsEpoch(script[k])
      BY <2>3 DEF SchemaEndsEpoch
    <3>2. QED BY <3>1, <2>4, <2>6, <1>0
  <2>8. u \in DOMAIN history[F] /\ F \in 1..(L + 1) /\ F \in (j + 1)..(L + 1) /\ L + 1 \in F..(L + 1)
    BY <2>4, <2>7, <1>0, <1>1
  <2>9. \A x \in F..((L + 1) - 1) : ~(script[x].t = u /\ script[x].do \in {"Enable", "Disable"})
    BY <2>2, <2>4, <2>7, <1>0, <1>1
  <2>10. history[L + 1][u].secured = history[F][u].secured
    BY <1>2, <2>8, <2>9, SecurityStays
  <2>11. Wrapped(k, u) <=> history[F][u].secured
    BY <2>8 DEF Wrapped, TranslationTableHasRls, EpochSchema
  <2>12. QED BY <2>5, <2>10, <2>11
<1>5. QED BY <1>3, <1>4

----------------------------------------------------------------------------
(* The file, name by name                                                  *)

LEMMA Names ==
    \A t, u : /\ Own(t) # Backing(u)
              /\ Own(t) = Own(u) => t = u
              /\ Backing(t) = Backing(u) => t = u
  BY DEF Own, Backing

LEMMA BornOn ==
    ASSUME HistoryOK, NEW i \in 1..Len(script), NEW j, NEW u, Born(j, u, i),
           ~Removes(script[i], u)
    PROVE  Born(j, u, i + 1)
<1>0. Len(script) \in Nat /\ i \in Nat /\ j \in Nat /\ 1 <= j /\ j < i
  BY ScriptIs DEF Born
<1>1. \A k \in (j + 1)..((i + 1) - 1) : k \in (j + 1)..(i - 1) \/ k = i
  BY <1>0
<1>2. j \in 1..((i + 1) - 1)
  BY <1>0
<1>3. QED BY <1>1, <1>2 DEF Born

\* Files f and g hold the same of name u.
SameAt(f, g, u) ==
    /\ Own(u) \in DOMAIN g.tables <=> Own(u) \in DOMAIN f.tables
    /\ Own(u) \in DOMAIN f.tables => g.tables[Own(u)] = f.tables[Own(u)]
    /\ Backing(u) \in DOMAIN g.tables <=> Backing(u) \in DOMAIN f.tables
    /\ Backing(u) \in DOMAIN f.tables => g.tables[Backing(u)] = f.tables[Backing(u)]
    /\ u \in DOMAIN g.wrappers <=> u \in DOMAIN f.wrappers
    /\ u \in DOMAIN f.wrappers => g.wrappers[u] = f.wrappers[u]

\* A statement that does not name u leaves what is said of u.
LEMMA OtherNames ==
    ASSUME HistoryOK, NEW i \in 1..Len(script), NEW f, NEW g, NEW u, At(f, i, u), SameAt(f, g, u),
           script[i].t # u, ~(script[i].do = "RenameTable" /\ script[i].d = u)
    PROVE  At(g, i + 1, u)
<1>1. StepMeans(history[i], script[i], history[i + 1])
  BY HistoryStep
<1>2. ~Removes(script[i], u) /\ ~Creates(script[i], u)
  BY DEF Removes, Creates
<1>3. u \in DOMAIN history[i + 1] <=> u \in DOMAIN history[i]
  BY <1>1, <1>2 DEF StepMeans
<1>4. CASE u \notin DOMAIN history[i]
  <2>1. Absent(g, u)
    BY <1>4 DEF At, Absent, SameAt
  <2>2. QED BY <2>1, <1>3, <1>4 DEF At
<1>5. CASE u \in DOMAIN history[i]
  <2>1. history[i + 1][u] = history[i][u]
    BY <1>1, <1>2, <1>5 DEF StepMeans, RowKept
  <2>2. Plain(g, u, history[i + 1][u]) \/ Hidden(g, u, history[i + 1][u])
    <3>1. Plain(f, u, history[i][u]) \/ Hidden(f, u, history[i][u])
      BY <1>5 DEF At
    <3>2. CASE Plain(f, u, history[i][u])
      BY <3>2, <2>1 DEF Plain, SameAt
    <3>3. CASE Hidden(f, u, history[i][u])
      BY <3>3, <2>1 DEF Hidden, SameAt
    <3>4. QED BY <3>1, <3>2, <3>3
  <2>3. u \in DOMAIN g.wrappers => u \in SecuredNames
    BY <1>5 DEF At, SameAt
  <2>4. ASSUME u \in SecuredNames
        PROVE  \E j \in 1..Len(script) : Born(j, u, i + 1) /\ WrapperIs(g, u, j)
    <3>1. PICK j \in 1..Len(script) : Born(j, u, i) /\ WrapperIs(f, u, j)
      BY <1>5, <2>4 DEF At
    <3>2. WrapperIs(g, u, j)
      BY <3>1 DEF WrapperIs, SameAt
    <3>3. Born(j, u, i + 1)
      BY <3>1, <1>2, BornOn
    <3>4. QED BY <3>2, <3>3
  <2>5. QED BY <1>3, <1>5, <2>2, <2>3, <2>4 DEF At
<1>6. QED BY <1>4, <1>5

\* The table of f's that holds the rows of u.
HolderIn(f, u) == IF u \in DOMAIN f.wrappers THEN Backing(u) ELSE Own(u)

\* g is f with another row for table x.
Edited(f, g, x, row) ==
    /\ IsFile(g) /\ g.wrappers = f.wrappers /\ DOMAIN g.tables = DOMAIN f.tables
    /\ g.tables[x] = row
    /\ \A y \in DOMAIN f.tables : y # x => g.tables[y] = f.tables[y]

LEMMA EditedIs ==
    ASSUME NEW f, IsFile(f), NEW x \in DOMAIN f.tables, NEW row \in Rows
    PROVE  Edited(f, [f EXCEPT !.tables[x] = row], x, row)
<1> DEFINE g == [f EXCEPT !.tables[x] = row]
<1>1. g = [tables |-> [f.tables EXCEPT ![x] = row], wrappers |-> f.wrappers]
  BY DEF IsFile
<1> HIDE DEF g
<1>2. g.wrappers = f.wrappers /\ g.tables = [f.tables EXCEPT ![x] = row]
      /\ g = [tables |-> g.tables, wrappers |-> g.wrappers]
  BY <1>1
<1> DEFINE T == f.tables
           U == [T EXCEPT ![x] = row]
<1>3. T = [y \in DOMAIN T |-> T[y]] /\ \A y \in DOMAIN T : T[y] \in Rows
  BY DEF IsFile
<1>4. x \in DOMAIN T /\ g.tables = U
  BY <1>2
<1> HIDE DEF T
<1>5. DOMAIN U = DOMAIN T /\ U[x] = row /\ (\A y \in DOMAIN T : y # x => U[y] = T[y])
      /\ U = [y \in DOMAIN U |-> U[y]]
  BY <1>3, <1>4
<1> HIDE DEF U
<1>6. \A y \in DOMAIN U : U[y] \in Rows
  BY <1>3, <1>5
<1>7. IsFile(g)
  <2>1. f.wrappers = [t \in DOMAIN f.wrappers |-> f.wrappers[t]] /\ DOMAIN f.wrappers \subseteq Tables
    BY DEF IsFile
  <2>2. QED BY <1>2, <1>4, <1>5, <1>6, <2>1 DEF IsFile
<1>8. Edited(f, g, x, row)
  BY <1>2, <1>4, <1>5, <1>7 DEF Edited, T
<1>9. QED BY <1>8 DEF g

\* A statement that changes the table it names, and the row that holds it alike.
LEMMA EditKeepsStep ==
    ASSUME HistoryOK, NEW i \in 1..Len(script), NEW f, NEW g, InStep(f, i), NEW row,
           script[i].t \in DOMAIN history[i],
           script[i].do \notin {"CreateTable", "DropTable", "RenameTable"},
           Edited(f, g, HolderIn(f, script[i].t), row), Like(row, history[i + 1][script[i].t])
    PROVE  InStep(g, i + 1)
<1> DEFINE t == script[i].t
           x == HolderIn(f, t)
<1>0. script[i] \in Statements /\ t \in Tables
  BY HistoryStep, StatementIs
<1>1. StepMeans(history[i], script[i], history[i + 1])
  BY HistoryStep
<1>2. t \in DOMAIN history[i + 1] /\ ~Removes(script[i], t)
  BY <1>1 DEF StepMeans, Removes
<1>3. ASSUME NEW u \in Tables, u # t PROVE At(g, i + 1, u)
  <2>1. At(f, i, u)
    BY DEF InStep
  <2>2. Own(u) # x /\ Backing(u) # x
    BY <1>3, Names DEF HolderIn
  <2>3. SameAt(f, g, u)
    BY <2>2 DEF SameAt, Edited
  <2>4. QED BY <1>3, <2>1, <2>3, OtherNames
<1>4. At(g, i + 1, t)
  <2>1. At(f, i, t)
    BY <1>0 DEF InStep
  <2>2. Plain(g, t, history[i + 1][t]) \/ Hidden(g, t, history[i + 1][t])
    <3>1. Plain(f, t, history[i][t]) \/ Hidden(f, t, history[i][t])
      BY <2>1 DEF At
    <3>2. CASE Plain(f, t, history[i][t])
      BY <3>2 DEF Plain, Edited, HolderIn
    <3>3. CASE Hidden(f, t, history[i][t])
      BY <3>3 DEF Hidden, Edited, HolderIn
    <3>4. QED BY <3>1, <3>2, <3>3
  <2>3. t \in DOMAIN g.wrappers => t \in SecuredNames
    BY <2>1 DEF At, Edited
  <2>4. ASSUME t \in SecuredNames
        PROVE  \E j \in 1..Len(script) : Born(j, t, i + 1) /\ WrapperIs(g, t, j)
    <3>1. PICK j \in 1..Len(script) : Born(j, t, i) /\ WrapperIs(f, t, j)
      BY <2>1, <2>4 DEF At
    <3>2. WrapperIs(g, t, j)
      BY <3>1 DEF WrapperIs, Edited
    <3>3. Born(j, t, i + 1)
      BY <3>1, <1>2, BornOn
    <3>4. QED BY <3>2, <3>3
  <2>5. QED BY <1>2, <2>2, <2>3, <2>4 DEF At
<1>5. IsFile(g)
  BY DEF Edited
<1>6. QED BY <1>3, <1>4, <1>5 DEF InStep

----------------------------------------------------------------------------
(* Each statement, on a file in step                                       *)

Ready(i) ==
    /\ HistoryOK /\ Orderly /\ ~RejectRenameOfSecuredTable
    /\ i \in 1..Len(script) /\ InStep(replica, i)

\* An applied statement succeeds and leaves a file in step.
Succeeds(i, emitted) == \E g : emitted = {g} /\ InStep(g, i + 1)

\* Row security the translation sees is of a name the script secures.
LEMMA WrappedIsNamed ==
    ASSUME HistoryOK, ~RejectRenameOfSecuredTable, NEW i \in 1..(Len(script) + 1), NEW u,
           Wrapped(i, u)
    PROVE  u \in SecuredNames
<1>1. EpochEnd(i) \in 1..(Len(script) + 1)
  BY EpochEndIs, ScriptIs
<1>2. u \in DOMAIN history[EpochEnd(i)] /\ history[EpochEnd(i)][u].secured
  BY DEF Wrapped, TranslationTableHasRls, EpochSchema
<1>3. QED BY <1>1, <1>2, SecuredIsNamed

\* The relation a statement is sent to holds the rows of its table.
LEMMA TargetHolds ==
    ASSUME NEW i, Ready(i), script[i].t \in DOMAIN history[i]
    PROVE  /\ Target(i, script[i].t) = HolderIn(replica, script[i].t)
           /\ Wrapped(i, script[i].t) <=> script[i].t \in DOMAIN replica.wrappers
           /\ HolderIn(replica, script[i].t) \in DOMAIN replica.tables
           /\ Like(replica.tables[HolderIn(replica, script[i].t)], history[i][script[i].t])
           /\ replica.tables[HolderIn(replica, script[i].t)] \in Rows
<1> DEFINE t == script[i].t
<1>0. HistoryOK /\ Orderly /\ ~RejectRenameOfSecuredTable /\ i \in 1..Len(script)
      /\ InStep(replica, i) /\ i \in 1..(Len(script) + 1)
  BY ScriptIs DEF Ready
<1>1. script[i] \in Statements /\ t \in Tables
  BY <1>0, HistoryStep, StatementIs
<1>2. At(replica, i, t) /\ IsFile(replica)
  BY <1>0, <1>1 DEF InStep
<1>3. Wrapped(i, t) <=> t \in DOMAIN replica.wrappers
  <2>1. CASE t \in SecuredNames
    <3>1. PICK j \in 1..Len(script) : Born(j, t, i) /\ WrapperIs(replica, t, j)
      BY <1>2, <2>1 DEF At
    <3>2. Wrapped(i, t) = Wrapped(j, t)
      BY <1>0, <3>1, WrappedSinceBirth
    <3>3. QED BY <3>1, <3>2 DEF WrapperIs
  <2>2. CASE t \notin SecuredNames
    <3>1. ~Wrapped(i, t)
      BY <1>0, <2>2, WrappedIsNamed
    <3>2. QED BY <1>2, <2>2, <3>1 DEF At
  <2>3. QED BY <2>1, <2>2
<1>4. Target(i, t) = HolderIn(replica, t)
  BY <1>3 DEF Target, HolderIn, Wrapped
<1>5. Plain(replica, t, history[i][t]) \/ Hidden(replica, t, history[i][t])
  BY <1>2 DEF At
<1>6. HolderIn(replica, t) \in DOMAIN replica.tables
      /\ Like(replica.tables[HolderIn(replica, t)], history[i][t])
  BY <1>5 DEF HolderIn, Plain, Hidden
<1>7. replica.tables[HolderIn(replica, t)] \in Rows
  BY <1>2, <1>6 DEF IsFile
<1>8. QED BY <1>3, <1>4, <1>6, <1>7

\* A wrapper of a file in step, and the table behind it.
LEMMA WrapperStands ==
    ASSUME HistoryOK, NEW i \in 1..(Len(script) + 1), NEW f, InStep(f, i),
           NEW u \in DOMAIN f.wrappers
    PROVE  /\ u \in Tables /\ u \in SecuredNames
           /\ u \in DOMAIN history[i] /\ Hidden(f, u, history[i][u])
           /\ \E j \in 1..Len(script) :
                Born(j, u, i) /\ Wrapped(j, u) /\ f.wrappers[u] = EpochSchema(j)[u].cols
<1>1. u \in Tables /\ At(f, i, u)
  BY DEF InStep, IsFile
<1>2. u \in DOMAIN history[i]
  BY <1>1 DEF At, Absent
<1>3. Hidden(f, u, history[i][u]) /\ u \in SecuredNames
  BY <1>1, <1>2 DEF At, Plain
<1>4. PICK j \in 1..Len(script) : Born(j, u, i) /\ WrapperIs(f, u, j)
  BY <1>1, <1>2, <1>3 DEF At
<1>5. QED BY <1>1, <1>2, <1>3, <1>4 DEF WrapperIs

\* Where SQLite looks at every view, every view resolves.
LEMMA ViewsResolve ==
    ASSUME NEW i, Ready(i), script[i].do \in {"DropColumn", "RenameColumn", "RenameTable"}
    PROVE  AllResolve(replica)
<1>0. HistoryOK /\ Orderly /\ i \in 1..Len(script) /\ InStep(replica, i) /\ i \in 1..(Len(script) + 1)
  BY ScriptIs DEF Ready
<1>1. SUFFICES ASSUME NEW u \in DOMAIN replica.wrappers PROVE Resolves(replica, u)
  BY DEF AllResolve
<1>2. Hidden(replica, u, history[i][u])
  BY <1>0, WrapperStands
<1>3. PICK j \in 1..Len(script) :
        Born(j, u, i) /\ Wrapped(j, u) /\ replica.wrappers[u] = EpochSchema(j)[u].cols
  BY <1>0, WrapperStands
<1>4. EpochSchema(j)[u].cols \subseteq history[i][u].cols
  BY <1>0, <1>3, WrapperCovered
<1>5. QED BY <1>2, <1>3, <1>4 DEF Resolves, Hidden, Like

LEMMA ViewsResolveAfterDrop ==
    ASSUME NEW i, Ready(i), script[i].do = "DropColumn", NEW g, InStep(g, i + 1)
    PROVE  AllResolve(g)
<1>0. HistoryOK /\ Orderly /\ i \in 1..Len(script) /\ i + 1 \in 1..(Len(script) + 1) /\ i \in Nat
  BY ScriptIs DEF Ready
<1>1. SUFFICES ASSUME NEW u \in DOMAIN g.wrappers PROVE Resolves(g, u)
  BY DEF AllResolve
<1>2. Hidden(g, u, history[i + 1][u])
  BY <1>0, WrapperStands
<1>3. PICK j \in 1..Len(script) :
        Born(j, u, i + 1) /\ Wrapped(j, u) /\ g.wrappers[u] = EpochSchema(j)[u].cols
  BY <1>0, WrapperStands
<1>4. j # i /\ j \in 1..((i + 1) - 1)
  BY <1>3 DEF Born
<1>5. i \in (j + 1)..(i + 1)
  BY <1>0, <1>4
<1>6. Born(j, u, i)
  BY <1>0, <1>3, <1>5, BornStands
<1>7. EpochSchema(j)[u].cols \subseteq history[i + 1][u].cols
  BY <1>0, <1>3, <1>6, WrapperCovered
<1>8. QED BY <1>2, <1>3, <1>7 DEF Resolves, Hidden, Like

LEMMA LeavesIs ==
    ASSUME NEW guard, guard, NEW file
    PROVE  Leaves(guard, file) = {file}
  BY DEF Leaves

\* A change of the holder's row that the server makes too.
LEMMA EditSucceeds ==
    ASSUME NEW i, Ready(i), script[i].t \in DOMAIN history[i], NEW row \in Rows,
           script[i].do \notin {"CreateTable", "DropTable", "RenameTable"},
           Like(row, history[i + 1][script[i].t])
    PROVE  InStep([replica EXCEPT !.tables[HolderIn(replica, script[i].t)] = row], i + 1)
<1> DEFINE x == HolderIn(replica, script[i].t)
           g == [replica EXCEPT !.tables[x] = row]
<1>0. HistoryOK /\ i \in 1..Len(script) /\ InStep(replica, i) /\ IsFile(replica)
  BY DEF Ready, InStep
<1>1. x \in DOMAIN replica.tables
  BY TargetHolds
<1>2. Edited(replica, g, x, row)
  <2> HIDE DEF x
  <2>1. QED BY <1>0, <1>1, EditedIs
<1> HIDE DEF g
<1>3. InStep(g, i + 1)
  BY <1>0, <1>2, EditKeepsStep
<1>4. QED BY <1>3 DEF g

LEMMA StepRow ==
    ASSUME NEW i, Ready(i), script[i].do \notin {"CreateTable", "DropTable", "RenameTable"}
    PROVE  /\ script[i].t \in DOMAIN history[i] /\ script[i] \in Statements
           /\ Valid(history[i], script[i])
           /\ RowMade(script[i], history[i][script[i].t], history[i + 1][script[i].t])
           /\ RowKept(script[i], history[i][script[i].t], history[i + 1][script[i].t], script[i].t)
<1>1. HistoryOK /\ i \in 1..Len(script)
  BY DEF Ready
<1>2. StepMeans(history[i], script[i], history[i + 1]) /\ Valid(history[i], script[i])
      /\ script[i] \in Statements
  BY <1>1, HistoryStep
<1>3. script[i].t \in DOMAIN history[i]
  BY <1>2 DEF Valid
<1>4. ~Removes(script[i], script[i].t)
  BY DEF Removes
<1>5. QED BY <1>2, <1>3, <1>4 DEF StepMeans

LEMMA AddColumnSucceeds ==
    ASSUME NEW i, Ready(i), script[i].do = "AddColumn"
    PROVE  Succeeds(i, AddColumn(i, script[i]))
<1> DEFINE s == script[i]
           x == HolderIn(replica, s.t)
           old == replica.tables[x]
           row == [old EXCEPT !.cols = @ \cup {s.c}]
           g == [replica EXCEPT !.tables[x] = row]
<1>1. /\ s.t \in DOMAIN history[i] /\ s \in Statements /\ Valid(history[i], s)
      /\ RowMade(s, history[i][s.t], history[i + 1][s.t])
  BY StepRow
<1>2. Target(i, s.t) = x /\ x \in DOMAIN replica.tables /\ Like(old, history[i][s.t]) /\ old \in Rows
  BY <1>1, TargetHolds
<1>3. s.c \notin old.cols
  BY <1>1, <1>2 DEF Valid, Like
<1>4. row \in Rows /\ Like(row, history[i + 1][s.t])
  <2>1. s.c \in Extra
    BY <1>1, StatementIs
  <2>2. old.cols \cup {s.c} \in SUBSET (Declared \cup Extra)
    BY <1>2, <2>1, RowFields
  <2>3. row \in Rows /\ row.cols = old.cols \cup {s.c} /\ row.indexed = old.indexed
        /\ row.filled = old.filled
    <3> HIDE DEF old
    <3>1. QED BY <1>2, <2>2, RowFields
  <2> HIDE DEF row
  <2>4. QED BY <2>3, <1>1, <1>2 DEF Like, RowMade
<1>5. InStep(g, i + 1)
  <2> HIDE DEF row
  <2>1. QED BY <1>1, <1>4, EditSucceeds
<1>6. AddColumn(i, s) = {g}
  <2>1. AddColumn(i, s) = Leaves(s.c \notin replica.tables[x].cols,
                    [replica EXCEPT !.tables[x].cols = @ \cup {s.c}])
    BY <1>2 DEF AddColumn
  <2>2. [replica EXCEPT !.tables[x].cols = @ \cup {s.c}] = g
    OBVIOUS
  <2>3. QED BY <2>1, <2>2, <1>3 DEF Leaves
<1>7. QED BY <1>5, <1>6 DEF Succeeds

LEMMA DropColumnSucceeds ==
    ASSUME NEW i, Ready(i), script[i].do = "DropColumn"
    PROVE  Succeeds(i, DropColumn(i, script[i]))
<1> DEFINE s == script[i]
           x == HolderIn(replica, s.t)
           old == replica.tables[x]
           row == [old EXCEPT !.cols = @ \ {s.c}]
           g == [replica EXCEPT !.tables[x] = row]
<1>1. /\ s.t \in DOMAIN history[i] /\ s \in Statements /\ Valid(history[i], s)
      /\ RowMade(s, history[i][s.t], history[i + 1][s.t])
  BY StepRow
<1>2. Target(i, s.t) = x /\ x \in DOMAIN replica.tables /\ Like(old, history[i][s.t]) /\ old \in Rows
  BY <1>1, TargetHolds
<1>3. s.c \in old.cols
  BY <1>1, <1>2 DEF Valid, Like
<1>4. row \in Rows /\ Like(row, history[i + 1][s.t])
  <2>2. old.cols \ {s.c} \in SUBSET (Declared \cup Extra)
    BY <1>2, RowFields
  <2>3. row \in Rows /\ row.cols = old.cols \ {s.c} /\ row.indexed = old.indexed
        /\ row.filled = old.filled
    <3> HIDE DEF old
    <3>1. QED BY <1>2, <2>2, RowFields
  <2> HIDE DEF row
  <2>4. QED BY <2>3, <1>1, <1>2 DEF Like, RowMade
<1>5. InStep(g, i + 1)
  <2> HIDE DEF row
  <2>1. QED BY <1>1, <1>4, EditSucceeds
<1>6. AllResolve(replica) /\ AllResolve(g)
  <2> HIDE DEF g
  <2>1. QED BY <1>5, ViewsResolve, ViewsResolveAfterDrop
<1>7. DropColumn(i, s) = {g}
  <2>1. [replica EXCEPT !.tables[x].cols = @ \ {s.c}] = g
    OBVIOUS
  <2>2. DropColumn(i, s) = Leaves(s.c \in replica.tables[x].cols /\ AllResolve(replica)
                                  /\ AllResolve([replica EXCEPT !.tables[x].cols = @ \ {s.c}]),
                                  [replica EXCEPT !.tables[x].cols = @ \ {s.c}])
    BY <1>2 DEF DropColumn
  <2> HIDE DEF g
  <2>3. QED BY <2>1, <2>2, <1>3, <1>6 DEF Leaves
<1>8. QED BY <1>5, <1>7 DEF Succeeds

LEMMA RenameColumnSucceeds ==
    ASSUME NEW i, Ready(i), script[i].do = "RenameColumn"
    PROVE  Succeeds(i, RenameColumn(i, script[i]))
<1> DEFINE s == script[i]
           x == HolderIn(replica, s.t)
           old == replica.tables[x]
           row == [old EXCEPT !.cols = Renamed(@, s.c, s.d)]
           g == [replica EXCEPT !.tables[x] = row]
<1>0. HistoryOK /\ Orderly /\ i \in 1..Len(script) /\ IsFile(replica)
  BY DEF Ready, InStep
<1>1. /\ s.t \in DOMAIN history[i] /\ s \in Statements /\ Valid(history[i], s)
      /\ RowMade(s, history[i][s.t], history[i + 1][s.t])
  BY StepRow
<1>2. /\ Target(i, s.t) = x /\ x \in DOMAIN replica.tables /\ Like(old, history[i][s.t])
      /\ old \in Rows /\ (Wrapped(i, s.t) <=> s.t \in DOMAIN replica.wrappers)
  BY <1>1, TargetHolds
<1>3. s.c \in old.cols /\ s.d \notin old.cols
  BY <1>1, <1>2 DEF Valid, Like
<1>4. row \in Rows /\ Like(row, history[i + 1][s.t])
  <2>1. s.d \in Extra
    BY <1>1, StatementIs
  <2>2. Renamed(old.cols, s.c, s.d) \in SUBSET (Declared \cup Extra)
    BY <1>2, <2>1, RowFields DEF Renamed
  <2>3. row \in Rows /\ row.cols = Renamed(old.cols, s.c, s.d) /\ row.indexed = old.indexed
        /\ row.filled = old.filled
    <3> HIDE DEF old
    <3>1. QED BY <1>2, <2>2, RowFields
  <2> HIDE DEF row
  <2>4. QED BY <2>3, <1>1, <1>2 DEF Like, RowMade
<1>5. InStep(g, i + 1)
  <2> HIDE DEF row
  <2>1. QED BY <1>1, <1>4, EditSucceeds
<1>6. AllResolve(replica)
  BY ViewsResolve
<1>7. x = Own(s.t)
  <2>1. ~Wrapped(i, s.t)
    BY <1>0, OrderlyAt
  <2>2. QED BY <2>1, <1>2 DEF HolderIn
<1>8. [w \in DOMAIN replica.wrappers |->
         IF Backing(w) = x THEN Renamed(replica.wrappers[w], s.c, s.d) ELSE replica.wrappers[w]]
      = replica.wrappers
  <2>1. \A w : Backing(w) # x
    BY <1>7, Names
  <2>2. replica.wrappers = [w \in DOMAIN replica.wrappers |-> replica.wrappers[w]]
    BY <1>0 DEF IsFile
  <2> HIDE DEF x
  <2>3. QED BY <2>1, <2>2
<1>9. RenameColumn(i, s) = {g}
  <2>1. [replica.tables EXCEPT ![x].cols = Renamed(@, s.c, s.d)] = [replica.tables EXCEPT ![x] = row]
    OBVIOUS
  <2>2. RenameColumn(i, s) =
          Leaves(/\ s.c \in replica.tables[x].cols /\ s.d \notin replica.tables[x].cols
                 /\ AllResolve(replica),
                 [tables |-> [replica.tables EXCEPT ![x].cols = Renamed(@, s.c, s.d)],
                  wrappers |-> [w \in DOMAIN replica.wrappers |->
                      IF Backing(w) = x THEN Renamed(replica.wrappers[w], s.c, s.d)
                      ELSE replica.wrappers[w]]])
    BY <1>2 DEF RenameColumn
  <2>3. g = [tables |-> [replica.tables EXCEPT ![x] = row], wrappers |-> replica.wrappers]
    <3>1. replica = [tables |-> replica.tables, wrappers |-> replica.wrappers]
      BY <1>0 DEF IsFile
    <3> HIDE DEF row, x
    <3>2. QED BY <3>1
  <2>4. [tables |-> [replica.tables EXCEPT ![x].cols = Renamed(@, s.c, s.d)],
         wrappers |-> [w \in DOMAIN replica.wrappers |->
             IF Backing(w) = x THEN Renamed(replica.wrappers[w], s.c, s.d)
             ELSE replica.wrappers[w]]] = g
    BY <2>1, <2>3, <1>8
  <2> HIDE DEF g
  <2>5. QED BY <2>2, <2>4, <1>3, <1>6 DEF Leaves
<1>10. QED BY <1>5, <1>9 DEF Succeeds

LEMMA CreateIndexSucceeds ==
    ASSUME NEW i, Ready(i), script[i].do = "CreateIndex"
    PROVE  Succeeds(i, CreateIndex(i, script[i]))
<1> DEFINE s == script[i]
           x == HolderIn(replica, s.t)
           old == replica.tables[x]
           row == [old EXCEPT !.indexed = TRUE]
           g == [replica EXCEPT !.tables[x] = row]
<1>1. /\ s.t \in DOMAIN history[i]
      /\ RowMade(s, history[i][s.t], history[i + 1][s.t])
      /\ RowKept(s, history[i][s.t], history[i + 1][s.t], s.t)
  BY StepRow
<1>2. Target(i, s.t) = x /\ x \in DOMAIN replica.tables /\ Like(old, history[i][s.t]) /\ old \in Rows
  BY <1>1, TargetHolds
<1>4. row \in Rows /\ Like(row, history[i + 1][s.t])
  <2>3. row \in Rows /\ row.cols = old.cols /\ row.indexed = TRUE /\ row.filled = old.filled
    <3> HIDE DEF old
    <3>1. QED BY <1>2, RowFields
  <2> HIDE DEF row
  <2>4. QED BY <2>3, <1>1, <1>2 DEF Like, RowMade, RowKept, ColumnChange
<1>5. InStep(g, i + 1)
  <2> HIDE DEF row
  <2>1. QED BY <1>1, <1>4, EditSucceeds
<1>6. CreateIndex(i, s) = {g}
  BY <1>2 DEF CreateIndex, OnTarget
<1>7. QED BY <1>5, <1>6 DEF Succeeds

LEMMA TruncateSucceeds ==
    ASSUME NEW i, Ready(i), script[i].do = "Truncate"
    PROVE  Succeeds(i, Truncate(i, script[i]))
<1> DEFINE s == script[i]
           x == HolderIn(replica, s.t)
           old == replica.tables[x]
           row == [old EXCEPT !.filled = FALSE]
           g == [replica EXCEPT !.tables[x] = row]
<1>1. /\ s.t \in DOMAIN history[i]
      /\ RowMade(s, history[i][s.t], history[i + 1][s.t])
      /\ RowKept(s, history[i][s.t], history[i + 1][s.t], s.t)
  BY StepRow
<1>2. Target(i, s.t) = x /\ x \in DOMAIN replica.tables /\ Like(old, history[i][s.t]) /\ old \in Rows
  BY <1>1, TargetHolds
<1>4. row \in Rows /\ Like(row, history[i + 1][s.t])
  <2>3. row \in Rows /\ row.cols = old.cols /\ row.indexed = old.indexed /\ row.filled = FALSE
    <3> HIDE DEF old
    <3>1. QED BY <1>2, RowFields
  <2> HIDE DEF row
  <2>4. QED BY <2>3, <1>1, <1>2 DEF Like, RowMade, RowKept, ColumnChange
<1>5. InStep(g, i + 1)
  <2> HIDE DEF row
  <2>1. QED BY <1>1, <1>4, EditSucceeds
<1>6. Truncate(i, s) = {g}
  BY <1>2 DEF Truncate, OnTarget
<1>7. QED BY <1>5, <1>6 DEF Succeeds

LEMMA InsertSucceeds ==
    ASSUME NEW i, Ready(i), script[i].do = "Insert"
    PROVE  Succeeds(i, Insert(i, script[i]))
<1> DEFINE s == script[i]
           x == HolderIn(replica, s.t)
           old == replica.tables[x]
           row == [old EXCEPT !.filled = TRUE]
           g == [replica EXCEPT !.tables[x] = row]
<1>0. HistoryOK /\ Orderly /\ i \in 1..Len(script) /\ InStep(replica, i) /\ i \in 1..(Len(script) + 1)
  BY ScriptIs DEF Ready
<1>1. /\ s.t \in DOMAIN history[i]
      /\ RowMade(s, history[i][s.t], history[i + 1][s.t])
      /\ RowKept(s, history[i][s.t], history[i + 1][s.t], s.t)
  BY StepRow
<1>2. x \in DOMAIN replica.tables /\ Like(old, history[i][s.t]) /\ old \in Rows
  BY <1>1, TargetHolds
<1>4. row \in Rows /\ Like(row, history[i + 1][s.t])
  <2>3. row \in Rows /\ row.cols = old.cols /\ row.indexed = old.indexed /\ row.filled = TRUE
    <3> HIDE DEF old
    <3>1. QED BY <1>2, RowFields
  <2> HIDE DEF row
  <2>4. QED BY <2>3, <1>1, <1>2 DEF Like, RowMade, RowKept, ColumnChange
<1>5. InStep(g, i + 1)
  <2> HIDE DEF row
  <2>1. QED BY <1>1, <1>4, EditSucceeds
<1>6. [replica EXCEPT !.tables[x].filled = TRUE] = g
  OBVIOUS
<1>7. Insert(i, s) = {g}
  <2>1. CASE s.t \in DOMAIN replica.wrappers
    <3>1. x = Backing(s.t)
      BY <2>1 DEF HolderIn
    <3>2. PICK j \in 1..Len(script) :
            Born(j, s.t, i) /\ Wrapped(j, s.t) /\ replica.wrappers[s.t] = EpochSchema(j)[s.t].cols
      BY <1>0, <2>1, WrapperStands
    <3>3. history[i][s.t].cols = replica.wrappers[s.t]
      BY <1>0, <3>2, InsertCols
    <3>4. Resolves(replica, s.t)
      BY <1>2, <3>1, <3>3 DEF Resolves, Like
    <3>5. Insert(i, s) = Leaves(history[i][s.t].cols \subseteq replica.wrappers[s.t],
                                [replica EXCEPT !.tables[x].filled = TRUE])
      BY <2>1, <3>1, <3>4 DEF Insert
    <3> HIDE DEF g
    <3>6. QED BY <1>6, <3>3, <3>5 DEF Leaves
  <2>2. CASE s.t \notin DOMAIN replica.wrappers
    <3>1. x = Own(s.t)
      BY <2>2 DEF HolderIn
    <3>2. history[i][s.t].cols = replica.tables[x].cols
      BY <1>2 DEF Like
    <3>3. Insert(i, s) = Leaves(history[i][s.t].cols \subseteq replica.tables[x].cols,
                                [replica EXCEPT !.tables[x].filled = TRUE])
      BY <1>2, <2>2, <3>1 DEF Insert
    <3> HIDE DEF g
    <3>4. QED BY <1>6, <3>2, <3>3 DEF Leaves
  <2>3. QED BY <2>1, <2>2
<1>8. QED BY <1>5, <1>7 DEF Succeeds

\* ENABLE and DISABLE leave the file as it is.
LEMMA SwitchSucceeds ==
    ASSUME NEW i, Ready(i), script[i].do \in {"Enable", "Disable"}
    PROVE  Succeeds(i, {replica})
<1> DEFINE s == script[i]
           x == HolderIn(replica, s.t)
           old == replica.tables[x]
<1>0. HistoryOK /\ i \in 1..Len(script) /\ InStep(replica, i) /\ IsFile(replica)
  BY DEF Ready, InStep
<1>1. /\ s.t \in DOMAIN history[i]
      /\ RowMade(s, history[i][s.t], history[i + 1][s.t])
      /\ RowKept(s, history[i][s.t], history[i + 1][s.t], s.t)
  BY StepRow
<1>2. x \in DOMAIN replica.tables /\ Like(old, history[i][s.t])
  BY <1>1, TargetHolds
<1>3. Like(old, history[i + 1][s.t])
  BY <1>1, <1>2 DEF Like, RowMade, RowKept, ColumnChange
<1>4. Edited(replica, replica, x, old)
  BY <1>0 DEF Edited
<1>5. InStep(replica, i + 1)
  <2> HIDE DEF old
  <2>1. QED BY <1>0, <1>1, <1>3, <1>4, EditKeepsStep
<1>6. QED BY <1>5 DEF Succeeds

\* The tables of a file.
TablesOf(T) == T = [x \in DOMAIN T |-> T[x]] /\ \A x \in DOMAIN T : T[x] \in Rows

\* A statement that creates its table: nothing stood under the name before.
LEMMA CreateTableSucceeds ==
    ASSUME NEW i, Ready(i), script[i].do = "CreateTable"
    PROVE  Succeeds(i, CreateTable(i, script[i]))
<1> DEFINE s == script[i]
           t == s.t
           T == replica.tables
           W == replica.wrappers
<1>0. HistoryOK /\ Orderly /\ ~RejectRenameOfSecuredTable /\ i \in 1..Len(script)
      /\ InStep(replica, i) /\ IsFile(replica) /\ i \in 1..(Len(script) + 1) /\ i \in Nat
  BY ScriptIs DEF Ready, InStep
<1>1. StepMeans(history[i], s, history[i + 1]) /\ Valid(history[i], s) /\ s \in Statements /\ t \in Tables
  BY <1>0, HistoryStep, StatementIs
<1>2. t \notin DOMAIN history[i] /\ t \in DOMAIN history[i + 1] /\ history[i + 1][t] = NewTable
  BY <1>1 DEF Valid, StepMeans, Creates
<1>3. Absent(replica, t)
  <2>1. At(replica, i, t)
    BY <1>0, <1>1 DEF InStep
  <2>2. QED BY <2>1, <1>2 DEF At
<1>4. TablesOf(T) /\ W = [u \in DOMAIN W |-> W[u]] /\ DOMAIN W \subseteq Tables
      /\ replica = [tables |-> T, wrappers |-> W]
  BY <1>0 DEF IsFile, TablesOf
<1>5. Like(NewTable, history[i + 1][t]) /\ NewTable \in Rows
  BY <1>2, NewTableIs DEF Like
<1>6. Born(i, t, i + 1)
  <2>1. i \in 1..((i + 1) - 1) /\ \A k \in (i + 1)..((i + 1) - 1) : FALSE
    BY <1>0
  <2>2. QED BY <2>1 DEF Born
<1>7. ASSUME NEW g, IsFile(g), \A u \in Tables : u # t => SameAt(replica, g, u), At(g, i + 1, t)
      PROVE  InStep(g, i + 1)
  <2>1. ASSUME NEW u \in Tables, u # t PROVE At(g, i + 1, u)
    <3>1. At(replica, i, u) /\ SameAt(replica, g, u)
      BY <1>0, <1>7, <2>1 DEF InStep
    <3>2. QED BY <1>0, <2>1, <3>1, OtherNames
  <2>2. QED BY <1>7, <2>1 DEF InStep
<1>8. CASE TranslationTableHasRls(i, t)
  <2> DEFINE x == Backing(t)
             U == Put(T, x, NewTable)
             cols == EpochSchema(i)[t].cols
             V == Put(W, t, cols)
             g == [tables |-> U, wrappers |-> V]
  <2>1. TablesOf(U) /\ DOMAIN U = DOMAIN T \cup {x} /\ U[x] = NewTable
        /\ \A y \in DOMAIN T : y # x => U[y] = T[y]
    <3> HIDE DEF T, x
    <3>1. QED BY <1>4, <1>5 DEF Put, TablesOf
  <2>2. DOMAIN V = DOMAIN W \cup {t} /\ V[t] = cols /\ V = [u \in DOMAIN V |-> V[u]]
        /\ \A u \in DOMAIN W : u # t => V[u] = W[u]
    <3> HIDE DEF W, t, cols
    <3>1. QED BY DEF Put
  <2>3. CreateTable(i, s) = {g}
    BY <1>3, <1>8 DEF CreateTable, Leaves, Free, Absent
  <2>4. g.tables = U /\ g.wrappers = V /\ g = [tables |-> g.tables, wrappers |-> g.wrappers]
    OBVIOUS
  <2> HIDE DEF g, U, V, cols
  <2>5. IsFile(g)
    BY <1>1, <1>4, <2>1, <2>2, <2>4 DEF IsFile, TablesOf
  <2>6. ASSUME NEW u \in Tables, u # t PROVE SameAt(replica, g, u)
    <3>1. Own(u) # x /\ Backing(u) # x
      BY <2>6, Names
    <3>2. QED BY <2>1, <2>2, <2>4, <2>6, <3>1 DEF SameAt
  <2>7. At(g, i + 1, t)
    <3>1. Hidden(g, t, history[i + 1][t])
      <4>1. Own(t) # x
        BY Names
      <4>2. QED BY <1>3, <1>5, <2>1, <2>2, <2>4, <4>1 DEF Hidden, Absent
    <3>2. t \in SecuredNames
      BY <1>0, <1>8, WrappedIsNamed DEF Wrapped
    <3>3. WrapperIs(g, t, i)
      BY <1>8, <2>2, <2>4 DEF WrapperIs, Wrapped, cols
    <3>4. \E j \in 1..Len(script) : Born(j, t, i + 1) /\ WrapperIs(g, t, j)
      BY <1>0, <1>6, <3>3
    <3>5. QED BY <1>2, <3>1, <3>2, <3>4 DEF At
  <2>8. InStep(g, i + 1)
    BY <1>7, <2>5, <2>6, <2>7
  <2>9. QED BY <2>3, <2>8 DEF Succeeds
<1>9. CASE ~TranslationTableHasRls(i, t)
  <2> DEFINE x == Own(t)
             U == Put(T, x, NewTable)
             g == [replica EXCEPT !.tables = U]
  <2>1. TablesOf(U) /\ DOMAIN U = DOMAIN T \cup {x} /\ U[x] = NewTable
        /\ \A y \in DOMAIN T : y # x => U[y] = T[y]
    <3> HIDE DEF T, x
    <3>1. QED BY <1>4, <1>5 DEF Put, TablesOf
  <2>3. CreateTable(i, s) = {g}
    BY <1>3, <1>9 DEF CreateTable, Leaves, Free, Absent
  <2>4. g.tables = U /\ g.wrappers = W /\ g = [tables |-> g.tables, wrappers |-> g.wrappers]
    <3> HIDE DEF U
    <3>1. QED BY <1>4
  <2> HIDE DEF g, U
  <2>5. IsFile(g)
    BY <1>4, <2>1, <2>4 DEF IsFile, TablesOf
  <2>6. ASSUME NEW u \in Tables, u # t PROVE SameAt(replica, g, u)
    <3>1. Own(u) # x /\ Backing(u) # x
      BY <2>6, Names
    <3>2. QED BY <2>1, <2>4, <2>6, <3>1 DEF SameAt
  <2>7. At(g, i + 1, t)
    <3>1. Plain(g, t, history[i + 1][t])
      <4>1. Backing(t) # x
        BY Names
      <4>2. QED BY <1>3, <1>5, <2>1, <2>4, <4>1 DEF Plain, Absent
    <3>2. t \notin DOMAIN g.wrappers
      BY <1>3, <2>4 DEF Absent
    <3>3. WrapperIs(g, t, i)
      BY <1>9, <3>2 DEF WrapperIs, Wrapped
    <3>4. \E j \in 1..Len(script) : Born(j, t, i + 1) /\ WrapperIs(g, t, j)
      BY <1>0, <1>6, <3>3
    <3>5. QED BY <1>2, <3>1, <3>2, <3>4 DEF At
  <2>8. InStep(g, i + 1)
    BY <1>7, <2>5, <2>6, <2>7
  <2>9. QED BY <2>3, <2>8 DEF Succeeds
<1>10. QED BY <1>8, <1>9

\* DROP TABLE of a table without a wrapper.
LEMMA DropTableSucceeds ==
    ASSUME NEW i, Ready(i), script[i].do = "DropTable"
    PROVE  Succeeds(i, DropTable(i, script[i]))
<1> DEFINE s == script[i]
           t == s.t
           T == replica.tables
           x == Own(t)
           U == Without(T, x)
           g == [replica EXCEPT !.tables = U]
<1>0. HistoryOK /\ Orderly /\ i \in 1..Len(script) /\ InStep(replica, i) /\ IsFile(replica)
  BY DEF Ready, InStep
<1>1. StepMeans(history[i], s, history[i + 1]) /\ Valid(history[i], s) /\ s \in Statements /\ t \in Tables
  BY <1>0, HistoryStep, StatementIs
<1>2. t \in DOMAIN history[i] /\ t \notin DOMAIN history[i + 1]
  BY <1>1 DEF Valid, StepMeans, Creates, Removes
<1>3. t \notin DOMAIN replica.wrappers
  <2>1. ~Wrapped(i, t)
    BY <1>0, OrderlyAt
  <2>2. QED BY <1>2, <2>1, TargetHolds
<1>4. Own(t) \in DOMAIN T /\ Backing(t) \notin DOMAIN T
  <2>1. At(replica, i, t)
    BY <1>0, <1>1 DEF InStep
  <2>2. Plain(replica, t, history[i][t])
    BY <2>1, <1>2, <1>3 DEF At, Hidden
  <2>3. QED BY <2>2 DEF Plain
<1>5. TablesOf(T) /\ replica = [tables |-> T, wrappers |-> replica.wrappers]
  BY <1>0 DEF IsFile, TablesOf
<1>6. TablesOf(U) /\ DOMAIN U = DOMAIN T \ {x} /\ \A y \in DOMAIN T \ {x} : U[y] = T[y]
  <2> HIDE DEF T, x
  <2>1. QED BY <1>5 DEF Without, TablesOf
<1>7. DropTable(i, s) = {g}
  BY <1>4 DEF DropTable, Leaves
<1>8. g.tables = U /\ g.wrappers = replica.wrappers /\ g = [tables |-> g.tables, wrappers |-> g.wrappers]
  <2> HIDE DEF U
  <2>1. QED BY <1>5
<1> HIDE DEF g, U
<1>9. IsFile(g)
  BY <1>0, <1>6, <1>8 DEF IsFile, TablesOf
<1>10. ASSUME NEW u \in Tables PROVE At(g, i + 1, u)
  <2>1. CASE u = t
    <3>1. Absent(g, t)
      BY <1>3, <1>4, <1>6, <1>8 DEF Absent
    <3>2. QED BY <2>1, <3>1, <1>2 DEF At
  <2>2. CASE u # t
    <3>1. Own(u) # x /\ Backing(u) # x
      BY <2>2, Names
    <3>2. SameAt(replica, g, u)
      BY <1>6, <1>8, <3>1 DEF SameAt
    <3>3. At(replica, i, u)
      BY <1>0 DEF InStep
    <3>4. QED BY <1>0, <2>2, <3>2, <3>3, OtherNames
  <2>3. QED BY <2>1, <2>2
<1>11. InStep(g, i + 1)
  BY <1>9, <1>10 DEF InStep
<1>12. QED BY <1>7, <1>11 DEF Succeeds

\* RENAME of a table under a name where nothing stands.
LEMMA RenameTableSucceeds ==
    ASSUME NEW i, Ready(i), script[i].do = "RenameTable"
    PROVE  Succeeds(i, RenameTable(i, script[i]))
<1> DEFINE s == script[i]
           t == s.t
           d == s.d
           T == replica.tables
           x == Own(t)
           y == Own(d)
           U == Move(T, x, y)
           g == [replica EXCEPT !.tables = U]
<1>0. HistoryOK /\ Orderly /\ ~RejectRenameOfSecuredTable /\ i \in 1..Len(script)
      /\ InStep(replica, i) /\ IsFile(replica) /\ DOMAIN script = 1..Len(script)
  BY ScriptIs DEF Ready, InStep
<1>1. StepMeans(history[i], s, history[i + 1]) /\ Valid(history[i], s) /\ s \in Statements
      /\ t \in Tables /\ d \in Tables
  BY <1>0, HistoryStep, StatementIs
<1>2. t \in DOMAIN history[i] /\ d \notin DOMAIN history[i] /\ t # d
  BY <1>1 DEF Valid
<1>3. t \notin DOMAIN history[i + 1] /\ d \in DOMAIN history[i + 1] /\ history[i + 1][d] = history[i][t]
  BY <1>1, <1>2 DEF StepMeans, Creates, Removes
<1>4. t \notin SecuredNames /\ d \notin SecuredNames
  BY <1>0 DEF RejectRenameOfSecuredTable
<1>5. At(replica, i, t) /\ At(replica, i, d)
  BY <1>0, <1>1 DEF InStep
<1>6. Plain(replica, t, history[i][t]) /\ Absent(replica, d)
  BY <1>2, <1>4, <1>5 DEF At, Hidden
<1>7. TablesOf(T) /\ replica = [tables |-> T, wrappers |-> replica.wrappers] /\ x \in DOMAIN T
  BY <1>0, <1>6 DEF IsFile, TablesOf, Plain
<1>8. TablesOf(U) /\ DOMAIN U = (DOMAIN T \ {x}) \cup {y} /\ U[y] = T[x]
      /\ \A z \in DOMAIN T \ {x, y} : U[z] = T[z]
  <2> HIDE DEF T, x, y
  <2>1. QED BY <1>7 DEF Move, Put, Without, TablesOf
<1>9. RenameTable(i, s) = {g}
  <2>1. AllResolve(replica)
    BY ViewsResolve
  <2>2. Free(d)
    BY <1>6 DEF Free, Absent
  <2>3. QED BY <1>7, <2>1, <2>2 DEF RenameTable, Leaves
<1>10. g.tables = U /\ g.wrappers = replica.wrappers /\ g = [tables |-> g.tables, wrappers |-> g.wrappers]
  <2> HIDE DEF U
  <2>1. QED BY <1>7
<1> HIDE DEF g, U
<1>11. IsFile(g)
  BY <1>0, <1>8, <1>10 DEF IsFile, TablesOf
<1>12. Own(t) # Own(d) /\ Backing(t) # Own(d) /\ Backing(d) # Own(d) /\ Backing(t) # Own(t)
       /\ Backing(d) # Own(t)
  BY <1>2, Names
<1>13. ASSUME NEW u \in Tables PROVE At(g, i + 1, u)
  <2>1. CASE u = t
    <3>1. Absent(g, t)
      BY <1>6, <1>8, <1>10, <1>12 DEF Absent, Plain
    <3>2. QED BY <2>1, <3>1, <1>3 DEF At
  <2>2. CASE u = d
    <3>1. Plain(g, d, history[i + 1][d])
      BY <1>3, <1>6, <1>8, <1>10, <1>12 DEF Absent, Plain
    <3>2. d \notin DOMAIN g.wrappers
      BY <3>1 DEF Plain
    <3>3. QED BY <2>2, <3>1, <3>2, <1>3, <1>4 DEF At
  <2>3. CASE u # t /\ u # d
    <3>1. Own(u) # x /\ Backing(u) # x /\ Own(u) # y /\ Backing(u) # y
      BY <2>3, Names
    <3>2. SameAt(replica, g, u)
      BY <1>8, <1>10, <3>1 DEF SameAt
    <3>3. At(replica, i, u)
      BY <1>0 DEF InStep
    <3>4. QED BY <1>0, <2>3, <3>2, <3>3, OtherNames
  <2>4. QED BY <2>1, <2>2, <2>3
<1>14. InStep(g, i + 1)
  BY <1>11, <1>13 DEF InStep
<1>15. QED BY <1>9, <1>14 DEF Succeeds

----------------------------------------------------------------------------
(* The theorem                                                             *)

LEMMA EmitSucceeds ==
    ASSUME NEW i, Ready(i)
    PROVE  Succeeds(i, Emitted(i, script[i]))
<1>1. script[i].do \in Kinds
  BY HistoryStep, StatementIs DEF Ready
<1>2. CASE script[i].do = "CreateTable"
  BY <1>2, CreateTableSucceeds DEF Emitted
<1>3. CASE script[i].do = "AddColumn"
  BY <1>3, AddColumnSucceeds DEF Emitted
<1>4. CASE script[i].do = "DropColumn"
  BY <1>4, DropColumnSucceeds DEF Emitted
<1>5. CASE script[i].do = "RenameColumn"
  BY <1>5, RenameColumnSucceeds DEF Emitted
<1>6. CASE script[i].do = "RenameTable"
  BY <1>6, RenameTableSucceeds DEF Emitted
<1>7. CASE script[i].do = "DropTable"
  BY <1>7, DropTableSucceeds DEF Emitted
<1>8. CASE script[i].do = "CreateIndex"
  BY <1>8, CreateIndexSucceeds DEF Emitted
<1>9. CASE script[i].do = "Truncate"
  BY <1>9, TruncateSucceeds DEF Emitted
<1>10. CASE script[i].do = "Insert"
  BY <1>10, InsertSucceeds DEF Emitted
<1>11. CASE script[i].do \in {"Enable", "Disable"}
  BY <1>11, SwitchSucceeds DEF Emitted
<1>12. QED
  BY <1>1, <1>2, <1>3, <1>4, <1>5, <1>6, <1>7, <1>8, <1>9, <1>10, <1>11 DEF Kinds

\* What is said of the script alone stays when script and server do.
LEMMA SameScript ==
    ASSUME script' = script, history' = history
    PROVE  /\ HistoryOK' <=> HistoryOK
           /\ RejectRenameOfSecuredTable' <=> RejectRenameOfSecuredTable
           /\ Orderly' <=> Orderly
<1>1. HistoryOK' <=> HistoryOK
  BY DEF HistoryOK
<1>2. RejectRenameOfSecuredTable' <=> RejectRenameOfSecuredTable
  BY DEF RejectRenameOfSecuredTable, SecuredNames
<1>3. Orderly' <=> Orderly
  BY DEF Orderly, Wrapped, TranslationTableHasRls, EpochSchema, EpochEnd, Ends, Creation, Made
<1>4. QED BY <1>1, <1>2, <1>3

LEMMA SameStep ==
    ASSUME script' = script, history' = history
    PROVE  InStep(replica, applied + 1)' <=> InStep(replica', applied' + 1)
  BY DEF InStep, At, SecuredNames, Born, WrapperIs, Wrapped, TranslationTableHasRls, EpochSchema,
         EpochEnd, Ends

\* The empty file is in step with the empty server.
LEMMA EmptyInStep ==
    ASSUME HistoryOK, replica = [tables |-> << >>, wrappers |-> << >>]
    PROVE  InStep(replica, 1)
<1>1. DOMAIN replica.tables = {} /\ DOMAIN replica.wrappers = {}
  OBVIOUS
<1>2. IsFile(replica)
  BY DEF IsFile
<1>3. \A u \in Tables : Absent(replica, u)
  BY <1>1 DEF Absent
<1>4. QED BY <1>2, <1>3 DEF InStep, At, HistoryOK

LEMMA EpochInvInit == EpochInit => EpochInv
<1>1. SUFFICES ASSUME EpochInit PROVE EpochInv
  OBVIOUS
<1>2. script = << >> /\ Len(script) = 0 /\ Len(history) = 1 /\ history[1] = << >>
  BY <1>1 DEF EpochInit
<1>3. << >> \in Schemas /\ IsSchema(<< >>) /\ DOMAIN << >> = {}
  <2>1. << >> \in [{} -> Rows]
    OBVIOUS
  <2>2. QED BY <2>1 DEF Schemas, IsSchema
<1>4. HistoryOK
  BY <1>1, <1>2, <1>3 DEF HistoryOK, EpochInit
<1>5. QED BY <1>1, <1>2, <1>4 DEF EpochInv, EpochInit

LEMMA WriteKeeps ==
    ASSUME EpochInv, NEW s \in Statements, Write(s)
    PROVE  EpochInv'
<1> DEFINE L == Len(script)
           h == history[L + 1]
           g == After(h, s)
<1>1. HistoryOK /\ L \in Nat /\ script \in Seq(Statements) /\ history \in Seq(Schemas)
      /\ Len(history) = L + 1
  BY ScriptIs DEF EpochInv, HistoryOK
<1>2. script' = Append(script, s) /\ history' = Append(history, g) /\ Valid(h, s)
      /\ outcome = "writing" /\ UNCHANGED <<applied, replica, outcome>>
  BY <1>1 DEF Write, Server
<1>3. IsSchema(h) /\ L + 1 \in 1..(L + 1)
  BY <1>1, ScriptIs
<1>4. IsSchema(g)
  BY <1>2, <1>3, StepOf DEF StepMeans
<1>5. g \in Schemas
  BY <1>4 DEF IsSchema, Schemas
<1> HIDE DEF g
<1>6. /\ script' \in Seq(Statements) /\ Len(script') = L + 1
      /\ \A k \in 1..L : script'[k] = script[k]
      /\ script'[L + 1] = s
  BY <1>1, <1>2
<1>7. /\ history' \in Seq(Schemas) /\ Len(history') = L + 2
      /\ \A k \in 1..(L + 1) : history'[k] = history[k]
      /\ history'[L + 2] = g
  BY <1>1, <1>2, <1>5
<1>8. ASSUME NEW k \in 1..((L + 1) + 1) PROVE IsSchema(history'[k])
  <2>1. CASE k = L + 2
    BY <2>1, <1>4, <1>7
  <2>2. CASE k # L + 2
    <3>1. k \in 1..(L + 1)
      BY <1>1, <2>2
    <3>2. QED BY <3>1, <1>1, <1>7, ScriptIs
  <2>3. QED BY <2>1, <2>2
<1>9. ASSUME NEW k \in 1..(L + 1)
      PROVE  Valid(history'[k], script'[k]) /\ history'[k + 1] = After(history'[k], script'[k])
  <2>1. CASE k = L + 1
    <3>1. history'[k] = h /\ script'[k] = s /\ history'[k + 1] = g
      BY <2>1, <1>1, <1>3, <1>6, <1>7
    <3>2. QED BY <3>1, <1>2 DEF g
  <2>2. CASE k # L + 1
    <3>1. k \in 1..L /\ k \in 1..(L + 1) /\ k + 1 \in 1..(L + 1)
      BY <1>1, <2>2
    <3>2. history'[k] = history[k] /\ script'[k] = script[k] /\ history'[k + 1] = history[k + 1]
      BY <3>1, <1>6, <1>7
    <3>3. Valid(history[k], script[k]) /\ history[k + 1] = After(history[k], script[k])
      BY <1>1, <3>1 DEF HistoryOK
    <3>4. QED BY <3>2, <3>3
  <2>3. QED BY <2>1, <2>2
<1>10. DOMAIN history'[1] = {}
  <2>1. 1 \in 1..(L + 1)
    BY <1>1
  <2>2. QED BY <2>1, <1>1, <1>7 DEF HistoryOK
<1>11. HistoryOK'
  BY <1>1, <1>6, <1>7, <1>8, <1>9, <1>10 DEF HistoryOK
<1>12. applied' \in 0..Len(script') /\ applied' = 0
       /\ replica' = [tables |-> << >>, wrappers |-> << >>]
  BY <1>1, <1>2, <1>6 DEF EpochInv
<1>13. QED BY <1>2, <1>11, <1>12 DEF EpochInv

LEMMA PrepareKeeps ==
    ASSUME EpochInv, Prepare
    PROVE  EpochInv'
<1>1. script' = script /\ history' = history /\ applied' = applied /\ replica' = replica
      /\ outcome = "writing" /\ applied = 0 /\ HistoryOK
      /\ replica = [tables |-> << >>, wrappers |-> << >>]
      /\ applied \in 0..Len(script)
  BY DEF EpochInv, Prepare
<1>2. HistoryOK' /\ (RejectRenameOfSecuredTable' <=> RejectRenameOfSecuredTable)
  BY <1>1, SameScript
<1>3. InStep(replica, applied + 1)
  BY <1>1, EmptyInStep
<1>4. InStep(replica, applied + 1)'
  BY <1>1, <1>3, SameStep
<1>5. outcome' \in {"refused", "applying"} /\ (outcome' = "applying" => ~RejectRenameOfSecuredTable)
  BY DEF Prepare
<1>6. QED BY <1>1, <1>2, <1>4, <1>5 DEF EpochInv

LEMMA ApplyKeeps ==
    ASSUME EpochInv, Apply
    PROVE  EpochInv'
<1> DEFINE i == applied + 1
<1>1. script' = script /\ history' = history /\ applied' = i /\ outcome = "applying"
      /\ replica' \in Emitted(i, script[i]) /\ applied \in 0..Len(script) /\ applied < Len(script)
      /\ HistoryOK /\ ~RejectRenameOfSecuredTable
      /\ outcome' = IF i = Len(script) THEN "done" ELSE "applying"
  BY DEF EpochInv, Apply
<1>0. Len(script) \in Nat
  BY <1>1, ScriptIs
<1>2. i \in 1..Len(script) /\ i \in 0..Len(script)
  BY <1>0, <1>1
<1>3. HistoryOK' /\ ~RejectRenameOfSecuredTable' /\ (Orderly' <=> Orderly)
  BY <1>1, SameScript
<1>4. ASSUME Orderly PROVE InStep(replica, applied + 1)'
  <2>1. Ready(i)
    BY <1>1, <1>2, <1>4 DEF Ready, EpochInv
  <2>2. PICK g : Emitted(i, script[i]) = {g} /\ InStep(g, i + 1)
    BY <2>1, EmitSucceeds DEF Succeeds
  <2>3. InStep(replica', applied' + 1)
    BY <1>1, <2>2
  <2>4. QED BY <1>1, <2>3, SameStep
<1>5. applied' \in 0..Len(script') /\ (outcome' = "done" => applied' = Len(script'))
      /\ outcome' \in {"applying", "done"}
  BY <1>1, <1>2
<1>6. QED BY <1>3, <1>4, <1>5 DEF EpochInv

LEMMA FailKeeps ==
    ASSUME EpochInv, Fail
    PROVE  EpochInv'
<1> DEFINE i == applied + 1
<1>1. script' = script /\ history' = history /\ applied' = applied /\ outcome = "applying"
      /\ Emitted(i, script[i]) = {} /\ applied \in 0..Len(script) /\ applied < Len(script)
      /\ HistoryOK /\ ~RejectRenameOfSecuredTable /\ outcome' = "failed"
  BY DEF EpochInv, Fail
<1>2. i \in 1..Len(script) /\ Len(script) \in Nat
  BY <1>1, ScriptIs
<1>3. HistoryOK' /\ (Orderly' <=> Orderly)
  BY <1>1, SameScript
<1>4. ~Orderly
  <2>1. SUFFICES ASSUME Orderly PROVE FALSE
    OBVIOUS
  <2>2. Ready(i)
    BY <1>1, <1>2, <2>1 DEF Ready, EpochInv
  <2>3. QED BY <2>2, <1>1, EmitSucceeds DEF Succeeds
<1>5. QED BY <1>1, <1>3, <1>4 DEF EpochInv

LEMMA StutterKeeps ==
    ASSUME EpochInv, UNCHANGED epochVars
    PROVE  EpochInv'
<1>1. script' = script /\ history' = history /\ applied' = applied /\ outcome' = outcome
      /\ replica' = replica
  BY DEF epochVars
<1>2. /\ HistoryOK' <=> HistoryOK
      /\ Orderly' <=> Orderly
      /\ RejectRenameOfSecuredTable' <=> RejectRenameOfSecuredTable
  BY <1>1, SameScript
<1>3. InStep(replica, applied + 1)' <=> InStep(replica, applied + 1)
  BY <1>1, SameStep
<1>4. QED BY <1>1, <1>2, <1>3 DEF EpochInv

\* At the end a file in step shows what the server has.
LEMMA EndReproduces == EpochInv => OrderlyScriptIsReproduced
<1> DEFINE L == Len(script)
<1>1. SUFFICES ASSUME EpochInv, outcome = "done", Orderly
      PROVE  /\ Present = DOMAIN Server
             /\ \A t \in DOMAIN Server :
                  /\ Shown(t) = Server[t].cols
                  /\ replica.tables[Holder(t)].cols = Server[t].cols
                  /\ replica.tables[Holder(t)].indexed = Server[t].indexed
                  /\ replica.tables[Holder(t)].filled = Server[t].filled
                  /\ (t \in DOMAIN replica.wrappers) = Server[t].secured
  BY DEF OrderlyScriptIsReproduced, EpochInv
<1>2. HistoryOK /\ ~RejectRenameOfSecuredTable /\ InStep(replica, L + 1) /\ L \in Nat
      /\ L + 1 \in 1..(L + 1) /\ Server = history[L + 1] /\ IsSchema(Server)
  <2>1. HistoryOK /\ ~RejectRenameOfSecuredTable /\ InStep(replica, L + 1) /\ Len(history) = L + 1
    BY <1>1 DEF EpochInv, HistoryOK
  <2>2. L \in Nat /\ L + 1 \in 1..(L + 1)
    BY <2>1, ScriptIs
  <2>3. QED BY <2>1, <2>2, ScriptIs DEF Server
<1>3. DOMAIN Server \subseteq Tables /\ \A t \in DOMAIN Server : Server[t] \in Rows
  BY <1>2 DEF IsSchema
<1>4. \A t \in Tables : At(replica, L + 1, t)
  BY <1>2 DEF InStep
<1>5. Present = DOMAIN Server
  <2>1. ASSUME NEW t \in Tables, t \notin DOMAIN Server PROVE Free(t)
    BY <1>2, <1>4, <2>1 DEF At, Absent, Free
  <2>2. ASSUME NEW t \in DOMAIN Server PROVE ~Free(t)
    BY <1>2, <1>3, <1>4 DEF At, Plain, Hidden, Free
  <2>3. QED BY <1>3, <2>1, <2>2 DEF Present
<1>6. ASSUME NEW t \in DOMAIN Server
      PROVE  /\ Shown(t) = Server[t].cols
             /\ replica.tables[Holder(t)].cols = Server[t].cols
             /\ replica.tables[Holder(t)].indexed = Server[t].indexed
             /\ replica.tables[Holder(t)].filled = Server[t].filled
             /\ (t \in DOMAIN replica.wrappers) = Server[t].secured
  <2>1. At(replica, L + 1, t) /\ Server[t].secured \in BOOLEAN
    BY <1>3, <1>4, RowFields
  <2>2. Plain(replica, t, Server[t]) \/ Hidden(replica, t, Server[t])
    BY <2>1, <1>2 DEF At
  <2>3. Like(replica.tables[Holder(t)], Server[t])
    BY <2>2 DEF Holder, Plain, Hidden
  <2>4. Shown(t) = Server[t].cols
    <3>1. CASE t \in DOMAIN replica.wrappers
      <4>1. PICK j \in 1..L :
              Born(j, t, L + 1) /\ Wrapped(j, t) /\ replica.wrappers[t] = EpochSchema(j)[t].cols
        BY <1>2, <3>1, WrapperStands
      <4>2. EpochEnd(j) <= L + 1
        BY <1>2, <4>1, BirthEpoch
      <4>3. history[L + 1][t].cols = EpochSchema(j)[t].cols
        BY <1>1, <1>2, <4>1, <4>2, LateCols
      <4>4. QED BY <1>2, <3>1, <4>1, <4>3 DEF Shown
    <3>2. CASE t \notin DOMAIN replica.wrappers
      BY <2>3, <3>2 DEF Shown, Holder, Like
    <3>3. QED BY <3>1, <3>2
  <2>5. t \in DOMAIN replica.wrappers <=> Server[t].secured
    <3>1. CASE t \in SecuredNames
      <4>1. PICK j \in 1..L : Born(j, t, L + 1) /\ WrapperIs(replica, t, j)
        BY <1>2, <2>1, <3>1 DEF At
      <4>2. history[L + 1][t].secured <=> Wrapped(j, t)
        BY <1>1, <1>2, <4>1, SecuredAtLast
      <4>3. QED BY <1>2, <4>1, <4>2 DEF WrapperIs
    <3>2. CASE t \notin SecuredNames
      <4>1. t \notin DOMAIN replica.wrappers
        BY <1>2, <2>1, <3>2 DEF At
      <4>2. ~Server[t].secured
        BY <1>2, <3>2, SecuredIsNamed
      <4>3. QED BY <4>1, <4>2
    <3>3. QED BY <3>1, <3>2
  <2>6. (t \in DOMAIN replica.wrappers) = Server[t].secured
    BY <2>1, <2>5
  <2>7. QED BY <2>3, <2>4, <2>6 DEF Like
<1>7. QED BY <1>5, <1>6

\* Every accepted orderly script is applied to the end and leaves what the
\* server has, for any tables, columns and length (pg2sqlite.rs:
\* prepare_schema; statement.rs: translate_alter_table).
THEOREM ScriptsAreReproduced == EpochSpec => []OrderlyScriptIsReproduced
<1>1. EpochInv /\ [EpochNext]_epochVars => EpochInv'
  BY WriteKeeps, PrepareKeeps, ApplyKeeps, FailKeeps, StutterKeeps DEF EpochNext
<1>2. QED BY <1>1, EpochInvInit, EndReproduces, PTL DEF EpochSpec
=============================================================================
