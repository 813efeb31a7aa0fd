--------------------------- MODULE SyncedIndexes ---------------------------
(***************************************************************************)
(* The shadow tables that stand for PostgreSQL's indexes on text and on    *)
(* vectors.                                                                *)
(*                                                                         *)
(* A GIN index over to_tsvector becomes an FTS5 table in external content  *)
(* mode (create_index.rs) and a vector column becomes a vec0 table         *)
(* (vector.rs).  Neither follows its table by itself: AFTER triggers on    *)
(* the table copy every change, so the shadow is right only if each        *)
(* statement's triggers undo exactly what an earlier one did.              *)
(***************************************************************************)
EXTENDS Naturals

CONSTANTS
    Keys,         \* values of the integer primary key
    Tokens,       \* words; a document is the set of its words
    Vectors,      \* values of the vector column besides NULL
    Overlapping   \* may an UPDATE leave words in a partially indexed document?

VARIABLES
    rows,         \* the table: key -> [body, flag, vec]
    dimensions,   \* was the vector column declared with a dimension count?
    index,        \* the full-text index: "none", "whole" or "partial"
    fts,          \* postings of the FTS5 table
    vec0          \* rows of the vec0 table

indexVars == <<rows, dimensions, index, fts, vec0>>

NoVector == "null"

ASSUME VectorsAssumption == NoVector \notin Vectors

Truth == {"true", "false", "unknown"}
Rows == [body : SUBSET Tokens, flag : Truth, vec : Vectors \cup {NoVector}]
Columns == {"id", "body", "flag", "vec"}

Entry(key, row) == [key |-> key, body |-> row.body, flag |-> row.flag, vec |-> row.vec]

\* The index predicate is the row's flag; a WHEN or a WHERE wants it true.
Covered(entry) == index = "whole" \/ (index = "partial" /\ entry.flag = "true")

----------------------------------------------------------------------------
(* Statements of the sync triggers                                         *)

\* INSERT INTO t_fts(rowid, ...): adds the document's postings.
FtsInsert(postings, new) == postings \cup {<<new.key, t>> : t \in new.body}

\* INSERT INTO t_fts(t_fts, rowid, ...) VALUES('delete', ...): removes the
\* postings of the document it is told the row had.
FtsDelete(postings, old) == postings \ {<<old.key, t>> : t \in old.body}

\* The INSERT and the DELETE trigger, each with the predicate on its row.
FtsOnInsert(new) == IF Covered(new) THEN FtsInsert(fts, new) ELSE fts
FtsOnDelete(old) == IF Covered(old) THEN FtsDelete(fts, old) ELSE fts

\* Fault: the split triggers share the condition of the new row.
FtsOnUpdateOneGuard(old, new) ==
    IF Covered(new) THEN FtsInsert(FtsDelete(fts, old), new) ELSE fts

\* Without a predicate one trigger does both halves in order.  With one there
\* are two triggers, ..._au_delete and then ..._au_insert, each with its own
\* WHEN; SQLite fires the newest first, so the new words are added before the
\* old ones are removed.
FtsOnUpdate(old, new) ==
    IF index # "partial"
    THEN IF Covered(new) THEN FtsInsert(FtsDelete(fts, old), new) ELSE fts
    ELSE LET added == IF Covered(new) THEN FtsInsert(fts, new) ELSE fts
         IN  IF Covered(old) THEN FtsDelete(added, old) ELSE added

\* INSERT INTO t_vec SELECT NEW.id, NEW.v WHERE NEW.v IS NOT NULL.
VecInsert(table, new) ==
    IF new.vec = NoVector THEN table ELSE table \cup {<<new.key, new.vec>>}
VecDelete(table, key) == {v \in table : v[1] # key}

\* The triggers exist only for a column with dimensions.
VecOnInsert(new) == IF dimensions THEN VecInsert(vec0, new) ELSE vec0
VecOnDelete(old) == IF dimensions THEN VecDelete(vec0, old.key) ELSE vec0

\* Fault: the update trigger watches the vector column only.
VecOnUpdateOfVector(old, new, set) ==
    IF dimensions /\ "vec" \in set
    THEN VecInsert(VecDelete(vec0, old.key), new)
    ELSE vec0

\* AFTER UPDATE OF v, id: delete the old key's row, insert the new row.
VecOnUpdate(old, new, set) ==
    IF dimensions /\ set \cap {"vec", "id"} # {}
    THEN VecInsert(VecDelete(vec0, old.key), new)
    ELSE vec0

----------------------------------------------------------------------------
(* Statements of the program                                               *)

SyncInit ==
    /\ rows = << >>
    /\ dimensions \in BOOLEAN
    /\ index = "none"
    /\ fts = {}
    /\ vec0 = {}

With(key, row) == [k \in DOMAIN rows \cup {key} |-> IF k = key THEN row ELSE rows[k]]
Without(key) == [k \in DOMAIN rows \ {key} |-> rows[k]]

\* The virtual table, its triggers and the backfill of the rows it covers.
CreateIndex(kind) ==
    /\ index = "none"
    /\ index' = kind
    /\ fts' = {p \in (DOMAIN rows) \X Tokens :
                 /\ p[2] \in rows[p[1]].body
                 /\ kind = "whole" \/ rows[p[1]].flag = "true"}
    /\ UNCHANGED <<rows, dimensions, vec0>>

InsertRow(key, row) ==
    /\ key \notin DOMAIN rows
    /\ rows' = With(key, row)
    /\ fts' = FtsOnInsert(Entry(key, row))
    /\ vec0' = VecOnInsert(Entry(key, row))
    /\ UNCHANGED <<dimensions, index>>

\* DELETE of one row, and of every row: each row fires its triggers.
DeleteRow(key) ==
    /\ key \in DOMAIN rows
    /\ rows' = Without(key)
    /\ fts' = FtsOnDelete(Entry(key, rows[key]))
    /\ vec0' = VecOnDelete(Entry(key, rows[key]))
    /\ UNCHANGED <<dimensions, index>>

\* An UPDATE that leaves words where they are in a partially indexed row.
KeepsWords(old, new) ==
    /\ index = "partial" /\ Covered(old) /\ Covered(new)
    /\ old.key = new.key /\ old.body \cap new.body # {}

\* UPDATE of the columns in set, the primary key among them.
UpdateRow(key, newKey, row, set) ==
    LET old == Entry(key, rows[key])
        new == Entry(newKey, row)
    IN  /\ key \in DOMAIN rows
        /\ newKey = key \/ newKey \notin DOMAIN rows
        /\ \A c \in Columns \ set : (IF c = "id" THEN newKey = key ELSE row[c] = rows[key][c])
        /\ Overlapping \/ ~KeepsWords(old, new)
        /\ rows' = [k \in (DOMAIN rows \ {key}) \cup {newKey} |-> IF k = newKey THEN row ELSE rows[k]]
        /\ fts' = FtsOnUpdate(old, new)
        /\ vec0' = VecOnUpdate(old, new, set)
        /\ UNCHANGED <<dimensions, index>>

Load(key) == \E row \in Rows : InsertRow(key, row)

\* An upsert is an UPDATE of the row it meets, with UPDATE's triggers.
Change(key) ==
    \E newKey \in Keys, row \in Rows, set \in {{"body"}, {"vec"}, {"flag"}, {"id"}, {"body", "flag"}} :
        UpdateRow(key, newKey, row, set)

SyncNext == \/ \E kind \in {"whole", "partial"} : CreateIndex(kind)
            \/ \E key \in Keys : Load(key) \/ DeleteRow(key) \/ Change(key)

SyncSpec == SyncInit /\ [][SyncNext]_indexVars

----------------------------------------------------------------------------
(* What a search is answered from                                          *)

SyncTypeOK ==
    /\ DOMAIN rows \subseteq Keys
    /\ \A k \in DOMAIN rows : rows[k] \in Rows
    /\ dimensions \in BOOLEAN
    /\ index \in {"none", "whole", "partial"}

\* The full-text table holds the words of the rows the index covers and no
\* others (create_index.rs: create_fts5_triggers and the backfill), whatever
\* statements ran before and after the index was made: a posting left behind
\* answers a search with a row that no longer has the word, and a missing one
\* hides a row the server finds.
FullTextIndexIsExact ==
    index # "none" =>
        fts = {p \in Keys \X Tokens :
                 /\ p[1] \in DOMAIN rows
                 /\ p[2] \in rows[p[1]].body
                 /\ Covered(Entry(p[1], rows[p[1]]))}

\* The vec0 table holds the vector of every row that has one, under the row's
\* present key (vector.rs: create_vec0_triggers).
VectorIndexIsExact ==
    vec0 = IF dimensions
           THEN {p \in Keys \X Vectors : p[1] \in DOMAIN rows /\ rows[p[1]].vec = p[2]}
           ELSE {}
=============================================================================
