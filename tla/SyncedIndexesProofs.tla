------------------------ MODULE SyncedIndexesProofs ------------------------
(***************************************************************************)
(* The shadow tables follow their table, for any keys, words and vectors,  *)
(* after any number of statements.                                         *)
(***************************************************************************)
EXTENDS SyncedIndexes, TLAPS

\* The postings and the vectors as facts about one pair.
Posted(k, t) ==
    k \in DOMAIN rows /\ t \in rows[k].body /\ Covered(Entry(k, rows[k]))

PostingsExact ==
    /\ fts \subseteq Keys \X Tokens
    /\ index # "none" => \A k \in Keys, t \in Tokens : <<k, t>> \in fts <=> Posted(k, t)

Vectored(k, v) == dimensions /\ k \in DOMAIN rows /\ rows[k].vec = v

VectorsExact ==
    /\ vec0 \subseteq Keys \X Vectors
    /\ \A k \in Keys, v \in Vectors : <<k, v>> \in vec0 <=> Vectored(k, v)

\* A statement leaves the table a table (create_index.rs and vector.rs change
\* shadow tables only).
LEMMA SyncTypeStep ==
    ASSUME SyncTypeOK, [SyncNext]_indexVars
    PROVE  SyncTypeOK'
<1>1. CASE UNCHANGED indexVars
  BY <1>1 DEF SyncTypeOK, indexVars
<1>2. ASSUME NEW kind \in {"whole", "partial"}, CreateIndex(kind) PROVE SyncTypeOK'
  BY <1>2 DEF SyncTypeOK, CreateIndex
<1>3. ASSUME NEW key \in Keys, NEW row \in Rows, InsertRow(key, row) PROVE SyncTypeOK'
  BY <1>3 DEF SyncTypeOK, InsertRow, With
<1>4. ASSUME NEW key \in Keys, DeleteRow(key) PROVE SyncTypeOK'
  BY <1>4 DEF SyncTypeOK, DeleteRow, Without
<1>5. ASSUME NEW key \in Keys, NEW newKey \in Keys, NEW row \in Rows, NEW set,
             UpdateRow(key, newKey, row, set)
      PROVE  SyncTypeOK'
  BY <1>5 DEF SyncTypeOK, UpdateRow
<1> QED
  BY <1>1, <1>2, <1>3, <1>4, <1>5 DEF SyncNext, Load, Change

LEMMA SyncTypeInit == SyncInit => SyncTypeOK
  BY DEF SyncInit, SyncTypeOK

----------------------------------------------------------------------------
(* Vectors                                                                 *)

\* Every statement keeps the vec0 table in step: an update of the vector or of
\* the key replaces the row, any other leaves both as they were.
LEMMA VectorsStep ==
    ASSUME SyncTypeOK, VectorsExact, [SyncNext]_indexVars
    PROVE  VectorsExact'
<1> USE VectorsAssumption
<1>1. CASE UNCHANGED indexVars
  BY <1>1 DEF VectorsExact, Vectored, indexVars
<1>2. ASSUME NEW kind \in {"whole", "partial"}, CreateIndex(kind) PROVE VectorsExact'
  BY <1>2 DEF VectorsExact, Vectored, CreateIndex
<1>3. ASSUME NEW key \in Keys, NEW row \in Rows, InsertRow(key, row) PROVE VectorsExact'
  <2>1. /\ DOMAIN rows' = DOMAIN rows \cup {key}
        /\ rows'[key] = row
        /\ \A k \in DOMAIN rows : k # key /\ rows'[k] = rows[k]
    BY <1>3 DEF InsertRow, With
  <2>2. /\ dimensions' = dimensions
        /\ vec0' = IF dimensions /\ row.vec # NoVector THEN vec0 \cup {<<key, row.vec>>} ELSE vec0
    BY <1>3 DEF InsertRow, VecOnInsert, VecInsert, Entry
  <2>3. row.vec \in Vectors \cup {NoVector}
    BY DEF Rows
  <2> QED
    BY <2>1, <2>2, <2>3 DEF VectorsExact, Vectored, SyncTypeOK
<1>4. ASSUME NEW key \in Keys, DeleteRow(key) PROVE VectorsExact'
  <2>1. /\ DOMAIN rows' = DOMAIN rows \ {key}
        /\ \A k \in DOMAIN rows : k # key => rows'[k] = rows[k]
    BY <1>4 DEF DeleteRow, Without
  <2>2. /\ dimensions' = dimensions
        /\ vec0' = IF dimensions THEN {v \in vec0 : v[1] # key} ELSE vec0
    BY <1>4 DEF DeleteRow, VecOnDelete, VecDelete, Entry
  <2> QED
    BY <2>1, <2>2 DEF VectorsExact, Vectored, SyncTypeOK
<1>5. ASSUME NEW key \in Keys, NEW newKey \in Keys, NEW row \in Rows, NEW set,
             UpdateRow(key, newKey, row, set)
      PROVE  VectorsExact'
  <2>1. /\ DOMAIN rows' = (DOMAIN rows \ {key}) \cup {newKey}
        /\ rows'[newKey] = row
        /\ \A k \in DOMAIN rows' : k # newKey => rows'[k] = rows[k]
        /\ key \in DOMAIN rows
        /\ newKey = key \/ newKey \notin DOMAIN rows
    BY <1>5 DEF UpdateRow
  <2>2. dimensions' = dimensions
    BY <1>5 DEF UpdateRow
  <2>3. row.vec \in Vectors \cup {NoVector}
    BY DEF Rows
  <2>4. CASE set \cap {"vec", "id"} # {} /\ dimensions
    <3>1. vec0' = LET kept == {v \in vec0 : v[1] # key}
                  IN  IF row.vec = NoVector THEN kept ELSE kept \cup {<<newKey, row.vec>>}
      BY <1>5, <2>4 DEF UpdateRow, VecOnUpdate, VecInsert, VecDelete, Entry
    <3> QED
      BY <2>1, <2>2, <2>3, <2>4, <3>1 DEF VectorsExact, Vectored, SyncTypeOK
  <2>5. CASE set \cap {"vec", "id"} = {}
    <3>1. newKey = key /\ row.vec = rows[key].vec
      BY <1>5, <2>5 DEF UpdateRow, Columns
    <3>2. vec0' = vec0
      BY <1>5, <2>5 DEF UpdateRow, VecOnUpdate
    <3> QED
      BY <2>1, <2>2, <3>1, <3>2 DEF VectorsExact, Vectored, SyncTypeOK
  <2>6. CASE ~dimensions
    <3>1. vec0' = vec0
      BY <1>5, <2>6 DEF UpdateRow, VecOnUpdate
    <3> QED
      BY <2>2, <2>6, <3>1 DEF VectorsExact, Vectored
  <2> QED
    BY <2>4, <2>5, <2>6 DEF SyncTypeOK
<1> QED
  BY <1>1, <1>2, <1>3, <1>4, <1>5 DEF SyncNext, Load, Change

LEMMA VectorsInit == SyncInit => VectorsExact
  BY DEF SyncInit, VectorsExact, Vectored

LEMMA VectorsAnswer ==
    ASSUME VectorsExact
    PROVE  VectorIndexIsExact
<1>1. CASE dimensions
  BY <1>1 DEF VectorsExact, Vectored, VectorIndexIsExact
<1>2. CASE ~dimensions
  <2>1. vec0 = {}
    BY <1>2 DEF VectorsExact, Vectored
  <2> QED
    BY <1>2, <2>1 DEF VectorIndexIsExact
<1> QED
  BY <1>1, <1>2

\* For any keys and vectors, the vec0 table holds the vector of every row that
\* has one, under its present key (vector.rs: create_vec0_triggers).
THEOREM VectorIndexAlwaysExact == SyncSpec => []VectorIndexIsExact
<1>1. SyncInit => SyncTypeOK /\ VectorsExact
  BY SyncTypeInit, VectorsInit
<1>2. SyncTypeOK /\ VectorsExact /\ [SyncNext]_indexVars => (SyncTypeOK /\ VectorsExact)'
  BY SyncTypeStep, VectorsStep
<1>3. SyncTypeOK /\ VectorsExact => VectorIndexIsExact
  BY VectorsAnswer
<1> QED
  BY <1>1, <1>2, <1>3, PTL DEF SyncSpec

----------------------------------------------------------------------------
(* Words                                                                   *)

\* What the index covers of a row depends on its flag alone.
CoveredFlag(kind, flag) == kind = "whole" \/ (kind = "partial" /\ flag = "true")

\* Every statement keeps the postings in step, if an UPDATE leaves no word in a
\* partially indexed document: the split triggers add before they remove.
LEMMA PostingsStep ==
    ASSUME ~Overlapping, SyncTypeOK, PostingsExact, [SyncNext]_indexVars
    PROVE  PostingsExact'
<1>a. /\ fts \subseteq Keys \X Tokens
      /\ index # "none" =>
            \A k \in Keys, t \in Tokens :
                <<k, t>> \in fts <=> /\ k \in DOMAIN rows /\ t \in rows[k].body
                                    /\ CoveredFlag(index, rows[k].flag)
  BY DEF PostingsExact, Posted, Covered, Entry, CoveredFlag
<1>b. SUFFICES
        /\ fts' \subseteq Keys \X Tokens
        /\ index' # "none" =>
              \A k \in Keys, t \in Tokens :
                  <<k, t>> \in fts' <=> /\ k \in DOMAIN rows' /\ t \in rows'[k].body
                                       /\ CoveredFlag(index', rows'[k].flag)
  BY DEF PostingsExact, Posted, Covered, Entry, CoveredFlag
<1>1. CASE UNCHANGED indexVars
  BY <1>a, <1>1 DEF indexVars
<1>2. ASSUME NEW kind \in {"whole", "partial"}, CreateIndex(kind)
      PROVE  /\ fts' \subseteq Keys \X Tokens
             /\ \A k \in Keys, t \in Tokens :
                  <<k, t>> \in fts' <=> /\ k \in DOMAIN rows' /\ t \in rows'[k].body
                                       /\ CoveredFlag(index', rows'[k].flag)
  BY <1>2 DEF CreateIndex, CoveredFlag, SyncTypeOK
<1>3. ASSUME NEW key \in Keys, NEW row \in Rows, InsertRow(key, row)
      PROVE  /\ fts' \subseteq Keys \X Tokens
             /\ index' # "none" =>
                  \A k \in Keys, t \in Tokens :
                      <<k, t>> \in fts' <=> /\ k \in DOMAIN rows' /\ t \in rows'[k].body
                                           /\ CoveredFlag(index', rows'[k].flag)
  <2>1. /\ DOMAIN rows' = DOMAIN rows \cup {key}
        /\ rows'[key] = row
        /\ \A k \in DOMAIN rows : k # key /\ rows'[k] = rows[k]
    BY <1>3 DEF InsertRow, With
  <2>2. /\ index' = index
        /\ fts' = IF CoveredFlag(index, row.flag) THEN fts \cup {<<key, t>> : t \in row.body} ELSE fts
    BY <1>3 DEF InsertRow, FtsOnInsert, FtsInsert, Covered, CoveredFlag, Entry
  <2>3. row.body \subseteq Tokens
    BY DEF Rows
  <2> QED
    BY <1>a, <2>1, <2>2, <2>3 DEF SyncTypeOK
<1>4. ASSUME NEW key \in Keys, DeleteRow(key)
      PROVE  /\ fts' \subseteq Keys \X Tokens
             /\ index' # "none" =>
                  \A k \in Keys, t \in Tokens :
                      <<k, t>> \in fts' <=> /\ k \in DOMAIN rows' /\ t \in rows'[k].body
                                           /\ CoveredFlag(index', rows'[k].flag)
  <2>1. /\ DOMAIN rows' = DOMAIN rows \ {key}
        /\ \A k \in DOMAIN rows : k # key => rows'[k] = rows[k]
        /\ key \in DOMAIN rows
    BY <1>4 DEF DeleteRow, Without
  <2>2. /\ index' = index
        /\ fts' = IF CoveredFlag(index, rows[key].flag)
                  THEN fts \ {<<key, t>> : t \in rows[key].body} ELSE fts
    BY <1>4 DEF DeleteRow, FtsOnDelete, FtsDelete, Covered, CoveredFlag, Entry
  <2> QED
    BY <1>a, <2>1, <2>2 DEF SyncTypeOK
<1>5. ASSUME NEW key \in Keys, NEW newKey \in Keys, NEW row \in Rows, NEW set,
             UpdateRow(key, newKey, row, set)
      PROVE  /\ fts' \subseteq Keys \X Tokens
             /\ index' # "none" =>
                  \A k \in Keys, t \in Tokens :
                      <<k, t>> \in fts' <=> /\ k \in DOMAIN rows' /\ t \in rows'[k].body
                                           /\ CoveredFlag(index', rows'[k].flag)
  <2> DEFINE gone == {<<key, t>> : t \in rows[key].body}
             come == {<<newKey, t>> : t \in row.body}
             was  == CoveredFlag(index, rows[key].flag)
             is   == CoveredFlag(index, row.flag)
  <2>1. /\ DOMAIN rows' = (DOMAIN rows \ {key}) \cup {newKey}
        /\ rows'[newKey] = row
        /\ \A k \in DOMAIN rows' : k # newKey => rows'[k] = rows[k]
        /\ key \in DOMAIN rows
        /\ newKey = key \/ newKey \notin DOMAIN rows
        /\ index' = index
    BY <1>5 DEF UpdateRow
  <2>2. row.body \subseteq Tokens
    BY DEF Rows
  <2>3. CASE index # "partial"
    <3>1. fts' = IF is THEN (fts \ gone) \cup come ELSE fts
      BY <1>5, <2>3 DEF UpdateRow, FtsOnUpdate, FtsInsert, FtsDelete, Covered, CoveredFlag, Entry
    <3> QED
      BY <1>a, <2>1, <2>2, <2>3, <3>1 DEF SyncTypeOK, CoveredFlag
  <2>4. CASE index = "partial"
    <3>1. fts' = LET added == IF is THEN fts \cup come ELSE fts
                 IN  IF was THEN added \ gone ELSE added
      BY <1>5, <2>4 DEF UpdateRow, FtsOnUpdate, FtsInsert, FtsDelete, Covered, CoveredFlag, Entry
    <3>2. was /\ is /\ newKey = key => rows[key].body \cap row.body = {}
      BY <1>5, <2>4 DEF UpdateRow, KeepsWords, Covered, CoveredFlag, Entry
    <3>3. fts' \subseteq Keys \X Tokens
      BY <1>a, <2>2, <3>1
    <3>4. ASSUME NEW k \in Keys, NEW t \in Tokens
          PROVE  <<k, t>> \in fts' <=> /\ k \in DOMAIN rows' /\ t \in rows'[k].body
                                      /\ CoveredFlag(index', rows'[k].flag)
      <4>1. <<k, t>> \in gone <=> k = key /\ t \in rows[key].body
        OBVIOUS
      <4>2. <<k, t>> \in come <=> k = newKey /\ t \in row.body
        OBVIOUS
      <4> QED
        BY <1>a, <2>1, <2>4, <3>1, <3>2, <4>1, <4>2 DEF SyncTypeOK
    <3> QED
      BY <3>3, <3>4
  <2> QED
    BY <2>3, <2>4
<1> QED
  BY <1>b, <1>1, <1>2, <1>3, <1>4, <1>5 DEF SyncNext, Load, Change

LEMMA PostingsInit == SyncInit => PostingsExact
  BY DEF SyncInit, PostingsExact

LEMMA PostingsAnswer ==
    ASSUME PostingsExact
    PROVE  FullTextIndexIsExact
<1>1. ASSUME index # "none" PROVE FullTextIndexIsExact
  BY <1>1 DEF PostingsExact, Posted, FullTextIndexIsExact
<1> QED
  BY <1>1 DEF FullTextIndexIsExact

\* For any keys and words, as long as no UPDATE leaves a word in a partially
\* indexed document, the FTS5 table holds the words of the covered rows and no
\* others (create_index.rs: create_fts5_triggers, and the backfill).
THEOREM FullTextIndexAlwaysExact ==
    ASSUME ~Overlapping
    PROVE  SyncSpec => []FullTextIndexIsExact
<1>1. SyncInit => SyncTypeOK /\ PostingsExact
  BY SyncTypeInit, PostingsInit
<1>2. SyncTypeOK /\ PostingsExact /\ [SyncNext]_indexVars => (SyncTypeOK /\ PostingsExact)'
  BY SyncTypeStep, PostingsStep
<1>3. SyncTypeOK /\ PostingsExact => FullTextIndexIsExact
  BY PostingsAnswer
<1> QED
  BY <1>1, <1>2, <1>3, PTL DEF SyncSpec
=============================================================================
