--------------------------- MODULE SqliteConnection ---------------------------
(***************************************************************************)
(* A SQLite connection, as far as the emitted statements of a batch use    *)
(* one: the relations it can name, its triggers and indexes, and the rows  *)
(* of its TEMP tables.  SQLite is external; the model follows what         *)
(* history/effects.rs, history/rebind and impls/emitted_namespace.rs say   *)
(* of it: view and trigger bodies are resolved by name when they run,      *)
(* dropping a relation drops its triggers and indexes, RENAME TO rewrites  *)
(* every definition that names the table, and a trigger does not fire      *)
(* itself again.                                                           *)
(*                                                                         *)
(* Rows are abstracted to their provenance.  The content of a TEMP table   *)
(* is the sequence of writes made to it, each with the content of every    *)
(* relation the write read; the content of a stored table is one opaque    *)
(* value, so two contents are equal exactly when the same writes ran on    *)
(* the same rows while the database file stayed as it is.                  *)
(*                                                                         *)
(* Statements, by op:                                                      *)
(*   CreateTable   name, temp, guarded, reads  (reads: the query of AS)    *)
(*   CreateView    name, temp, bases                                       *)
(*   CreateTrigger name, on, events, body      (body: one Write)           *)
(*   CreateIndex   name, on                                                *)
(*   Drop, DropTrigger, DropIndex   name, guarded                          *)
(*   Rename        name, to                                                *)
(*   Write         target, events, actual, reads                           *)
(*                                                                         *)
(* events are the row events the text of a statement covers, actual the    *)
(* one its rows raise: an upsert covers two and raises one.                *)
(***************************************************************************)
EXTENDS Naturals, Sequences, FiniteSetsExt, Functions

NoTrigger == "no trigger"

\* The rows of a stored table, whatever they are.
Stored == <<[unit |-> 0, by |-> NoTrigger, from |-> {}]>>

\* f without the keys in ks, and f with k mapped to v.
Without(f, ks) == Restrict(f, DOMAIN f \ ks)

With(f, k, v) == [x \in DOMAIN f \cup {k} |-> IF x = k THEN v ELSE f[x]]

Failing(e) == [e EXCEPT !.failed = TRUE]

\* A connection to a file holding the stored tables in `stored'.  Identities
\* number the relations in order of creation.
NewConnection(stored) ==
    [rel |-> stored, trig |-> <<>>, idx |-> <<>>, wrote |-> FALSE,
     failed |-> FALSE, open |-> FALSE, nextId |-> Cardinality(DOMAIN stored) + 1]

TempRelations(e) == {n \in DOMAIN e.rel : e.rel[n].home = "temp"}

StoredRelations(e) == {n \in DOMAIN e.rel : e.rel[n].home = "file"}

RECURSIVE Readable(_, _)
Readable(e, n) ==
    /\ n \in DOMAIN e.rel
    /\ \A b \in e.rel[n].bases : Readable(e, b)

RECURSIVE Content(_, _)
Content(e, n) ==
    LET r == e.rel[n] IN
    CASE r.kind = "view" ->
            <<[unit |-> 0, by |-> NoTrigger, from |-> {Content(e, b) : b \in r.bases}]>>
      [] r.home = "file" -> Stored
      [] OTHER           -> r.rows

Relation(e, kind, temp, rows, bases) ==
    [home |-> IF temp THEN "temp" ELSE "file", kind |-> kind, rows |-> rows,
     bases |-> bases, id |-> e.nextId]

Define(e, n, r) == [e EXCEPT !.rel = With(@, n, r), !.nextId = @ + 1]

-----------------------------------------------------------------------------
(* One row write and the triggers it fires, transitively.                  *)

RECURSIVE RunWrite(_, _, _, _, _)
RunWrite(e, w, unit, by, active) ==
    IF ~(w.target \in DOMAIN e.rel /\ \A n \in w.reads : Readable(e, n))
    THEN Failing(e)
    ELSE
    LET r      == e.rel[w.target]
        entry  == [unit |-> unit, by |-> by, from |-> {Content(e, n) : n \in w.reads}]
        stored == IF r.home = "temp" /\ r.kind = "table"
                  THEN [e EXCEPT !.rel[w.target].rows = Append(@, entry)]
                  ELSE IF r.kind = "table" THEN [e EXCEPT !.wrote = TRUE] ELSE e
        fires  == {t \in DOMAIN e.trig : /\ e.trig[t].on = w.target
                                         /\ w.actual \in e.trig[t].events
                                         /\ t \notin active}
    IN  FoldSet(LAMBDA t, c : RunWrite(c, e.trig[t].body, unit, t, active \cup {t}),
                stored, fires)

-----------------------------------------------------------------------------
(* Definitions.                                                            *)

ExecCreateTable(e, s, unit) ==
    CASE s.name \in DOMAIN e.rel -> IF s.guarded THEN e ELSE Failing(e)
      [] \E n \in s.reads : ~Readable(e, n) -> Failing(e)
      [] OTHER -> Define(e, s.name,
                    Relation(e, "table", s.temp,
                        IF s.reads = {} THEN <<>>
                        ELSE <<[unit |-> unit, by |-> NoTrigger,
                                from |-> {Content(e, n) : n \in s.reads}]>>, {}))

\* A view may name relations that do not exist yet.
ExecCreateView(e, s) ==
    IF s.name \in DOMAIN e.rel THEN Failing(e)
    ELSE Define(e, s.name, Relation(e, "view", s.temp, <<>>, s.bases))

ExecCreateTrigger(e, s) ==
    IF s.name \in DOMAIN e.trig \/ s.on \notin DOMAIN e.rel THEN Failing(e)
    ELSE [e EXCEPT !.trig = With(@, s.name,
                                 [on |-> s.on, events |-> s.events, body |-> s.body])]

ExecCreateIndex(e, s) ==
    IF s.name \in DOMAIN e.idx \/ s.on \notin DOMAIN e.rel THEN Failing(e)
    ELSE [e EXCEPT !.idx = With(@, s.name, s.on)]

\* Dropping a relation drops what hangs off it.
ExecDrop(e, s) ==
    IF s.name \notin DOMAIN e.rel THEN (IF s.guarded THEN e ELSE Failing(e))
    ELSE [e EXCEPT !.rel  = Without(@, {s.name}),
                   !.trig = Without(@, {t \in DOMAIN @ : @[t].on = s.name}),
                   !.idx  = Without(@, {i \in DOMAIN @ : @[i] = s.name})]

ExecDropTrigger(e, s) ==
    IF s.name \notin DOMAIN e.trig THEN (IF s.guarded THEN e ELSE Failing(e))
    ELSE [e EXCEPT !.trig = Without(@, {s.name})]

ExecDropIndex(e, s) ==
    IF s.name \notin DOMAIN e.idx THEN (IF s.guarded THEN e ELSE Failing(e))
    ELSE [e EXCEPT !.idx = Without(@, {s.name})]

\* Every definition follows the table to its new name.
ExecRename(e, s) ==
    LET follow(n)    == IF n = s.name THEN s.to ELSE n
        followAll(S) == {follow(n) : n \in S}
    IN  IF s.name \notin DOMAIN e.rel \/ s.to \in DOMAIN e.rel THEN Failing(e)
        ELSE [e EXCEPT
                !.rel  = [n \in followAll(DOMAIN @) |->
                            LET r == @[IF n = s.to THEN s.name ELSE n]
                            IN  [r EXCEPT !.bases = followAll(@)]],
                !.trig = [t \in DOMAIN @ |->
                            [@[t] EXCEPT !.on = follow(@),
                                         !.body.target = follow(@),
                                         !.body.reads = followAll(@)]],
                !.idx  = [i \in DOMAIN @ |-> follow(@[i])]]

Exec(e, s, unit) ==
    CASE e.failed               -> e
      [] s.op = "CreateTable"   -> ExecCreateTable(e, s, unit)
      [] s.op = "CreateView"    -> ExecCreateView(e, s)
      [] s.op = "CreateTrigger" -> ExecCreateTrigger(e, s)
      [] s.op = "CreateIndex"   -> ExecCreateIndex(e, s)
      [] s.op = "Drop"          -> ExecDrop(e, s)
      [] s.op = "DropTrigger"   -> ExecDropTrigger(e, s)
      [] s.op = "DropIndex"     -> ExecDropIndex(e, s)
      [] s.op = "Rename"        -> ExecRename(e, s)
      [] s.op = "Write"         -> RunWrite(e, s, unit, NoTrigger, {})
      [] s.op = "BEGIN"         -> IF e.open THEN Failing(e) ELSE [e EXCEPT !.open = TRUE]
      [] s.op = "COMMIT"        -> IF e.open THEN [e EXCEPT !.open = FALSE] ELSE Failing(e)

\* What of a connection ends with it: TEMP relations with their rows, the
\* TEMP triggers and the indexes of TEMP tables.
ConnectionObjects(e) ==
    [relations |-> [n \in TempRelations(e) |->
                      [kind |-> e.rel[n].kind, rows |-> e.rel[n].rows, bases |-> e.rel[n].bases]],
     triggers  |-> e.trig,
     indexes   |-> Restrict(e.idx, {i \in DOMAIN e.idx : e.idx[i] \in TempRelations(e)})]
=============================================================================
