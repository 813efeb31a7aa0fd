------------------------------ MODULE FreshFiles ------------------------------
(***************************************************************************)
(* history/placement.rs, history/mod.rs fresh_forms and initialization.rs: *)
(* a script whose listed tables live in an attached file, and the          *)
(* initialization of one new file beside an existing one, as when a second *)
(* main file meets a shared attached file.                                 *)
(*                                                                         *)
(* The script grows one source statement at a time, as long as the server  *)
(* accepts it.  Lose then takes a replica the whole script initialized,    *)
(* throws one file and the connection away and runs the plan's selection   *)
(* for that fresh file on what is left.                                    *)
(*                                                                         *)
(* Source statements, by op:                                               *)
(*   CreateTable   name, temp       CreateView  name, bases                *)
(*   CreateIndex   name             (full text on table name)              *)
(*   CreateTrigger name, on, target (the body inserts into target)         *)
(*   Insert        name, reads      Drop, DropTrigger  name                *)
(*   Rename        name, to                                                *)
(* Emitted statements have the same fields; a row is the statement that    *)
(* wrote it.  Names are SQLite-folded and unique over the three databases  *)
(* (EmittedNamespace), and undone statements are left out                  *)
(* (TransactionOutline, ReplicaTransactions).                              *)
(***************************************************************************)
EXTENDS Naturals, Sequences, SequencesExt, FiniteSetsExt, Functions

CONSTANTS
    Alphabets,  \* what a script is made of: records [statements, listed], where
                \* listed are the tables options.attached_tables names
    Secured,    \* the tables with row-level security
    Backing(_), \* the table a secured table's rows are stored in
    Words(_),   \* the virtual table of a table's full-text index
    Guard(_),   \* the trigger generated for a table or a virtual table
    MaxScript   \* the length of a script

ASSUME FreshAssumption == MaxScript \in Nat

VARIABLES
    alphabet,   \* the statements this script may use and its listed tables
    script,     \* the statements so far
    server,     \* PostgreSQL's catalog after them
    schemas,    \* schemas[i]: the server's relations (name -> identity) after i
    homes,      \* place: the home of every name, once the script is translated
    both,       \* the databases the whole script initialized
    outcome     \* what the fresh file became: [status, file, fresh]

freshVars == <<alphabet, script, server, schemas, homes, both, outcome>>

Put(f, k, v) == [x \in DOMAIN f \cup {k} |-> IF x = k THEN v ELSE f[x]]

Omit(f, ks) == Restrict(f, DOMAIN f \ ks)

-----------------------------------------------------------------------------
(* The server: relations by identity, views, triggers.                     *)

Empty == [rel |-> <<>>, trig |-> <<>>, nextId |-> 1]

Defines(s) == s.op \in {"CreateTable", "CreateView"}

Accepts(s) ==
    CASE Defines(s) -> s.name \notin DOMAIN server.rel /\ s.bases \subseteq DOMAIN server.rel
      [] s.op = "CreateIndex" ->
            s.name \in DOMAIN server.rel /\ Words(s.name) \notin DOMAIN server.rel
      [] s.op = "CreateTrigger" ->
            s.name \notin DOMAIN server.trig /\ {s.on, s.target} \subseteq DOMAIN server.rel
      [] s.op = "Insert" -> {s.name} \cup s.reads \subseteq DOMAIN server.rel
      [] s.op = "Drop" -> /\ s.name \in DOMAIN server.rel
                          /\ \A n \in DOMAIN server.rel : s.name \notin server.rel[n].bases
                          /\ Words(s.name) \notin DOMAIN server.rel
      [] s.op = "DropTrigger" -> s.name \in DOMAIN server.trig
      [] s.op = "Rename" -> s.name \in DOMAIN server.rel /\ s.to \notin DOMAIN server.rel

\* An index is a relation of its own name in PostgreSQL, here Words(table).
After(s) ==
    LET follow(n) == IF n = s.name THEN s.to ELSE n
        define(n, bases) == [server EXCEPT !.rel = Put(@, n, [id |-> server.nextId, bases |-> bases]),
                                           !.nextId = @ + 1]
    IN  CASE Defines(s) -> define(s.name, s.bases)
          [] s.op = "CreateIndex" -> define(Words(s.name), {s.name})
          [] s.op = "CreateTrigger" ->
                [server EXCEPT !.trig = Put(@, s.name, [on |-> s.on, target |-> s.target])]
          [] s.op = "Insert" -> server
          [] s.op = "Drop" ->
                [server EXCEPT !.rel  = Omit(@, {s.name}),
                               !.trig = Omit(@, {t \in DOMAIN @ : @[t].on = s.name})]
          [] s.op = "DropTrigger" -> [server EXCEPT !.trig = Omit(@, {s.name})]
          [] s.op = "Rename" ->
                [server EXCEPT
                    !.rel  = [n \in {follow(k) : k \in DOMAIN @} |->
                                LET r == @[IF n = s.to THEN s.name ELSE n]
                                IN  [r EXCEPT !.bases = {follow(b) : b \in @}]],
                    !.trig = [t \in DOMAIN @ |-> [on |-> follow(@[t].on),
                                                  target |-> follow(@[t].target)]]]

Identities(srv) == [n \in DOMAIN srv.rel |-> srv.rel[n].id]

\* PostgreSQL requires every trigger body's table when it fires, so a script
\* whose trigger lost its table does not insert through it.
Fires(s) == {t \in DOMAIN server.trig : server.trig[t].on = s.name}

Write(s) ==
    /\ outcome.status = "writing"
    /\ Len(script) < MaxScript
    /\ Accepts(s)
    /\ s.op = "Insert" => \A t \in Fires(s) : server.trig[t].target \in DOMAIN server.rel
    /\ script' = Append(script, s)
    /\ server' = After(s)
    /\ schemas' = Append(schemas, Identities(After(s)))
    /\ UNCHANGED <<alphabet, homes, both, outcome>>

-----------------------------------------------------------------------------
(* Translation, as far as placement sees it.                               *)

Stmt(op, name) == [op |-> op, name |-> name, temp |-> FALSE, bases |-> {}, reads |-> {},
                   on |-> name, target |-> name, to |-> name]

\* A secured table becomes a backing table under a view whose INSTEAD OF
\* trigger writes it; a full-text index becomes a virtual table, the trigger
\* that feeds it and the statement that fills it.
Emitted(s) ==
    CASE s.op = "CreateTable" /\ s.name \in Secured ->
            <<Stmt("CreateTable", Backing(s.name)),
              [Stmt("CreateView", s.name) EXCEPT !.bases = {Backing(s.name)}],
              [Stmt("CreateTrigger", Guard(s.name)) EXCEPT !.on = s.name, !.target = Backing(s.name)]>>
      [] s.op = "CreateIndex" ->
            <<Stmt("CreateTable", Words(s.name)),
              [Stmt("CreateTrigger", Guard(Words(s.name))) EXCEPT !.on = s.name,
                                                                  !.target = Words(s.name)],
              [Stmt("Insert", Words(s.name)) EXCEPT !.reads = {s.name}]>>
      [] OTHER -> <<s>>

\* Positions <<unit, statement>> of the emitted statements.
Positions == UNION {{i} \X DOMAIN Emitted(script[i]) : i \in DOMAIN script}

At(p) == Emitted(script[p[1]])[p[2]]

Before(p, q) == p[1] < q[1] \/ (p[1] = q[1] /\ p[2] < q[2])

LastOf(P) == CHOOSE p \in P : \A q \in P \ {p} : Before(q, p)

FirstOf(P) == CHOOSE p \in P : \A q \in P \ {p} : Before(p, q)

-----------------------------------------------------------------------------
(* placement.rs.                                                           *)

\* The physical name of a source table (resolve_trigger_table_name).
Physical(n) == IF n \in Secured THEN Backing(n) ELSE n

\* attached_storage: each listed table's storage and its virtual tables.
Storage == {Physical(n) : n \in alphabet.listed} \cup {Words(n) : n \in alphabet.listed}

TemporaryTables == {script[i].name : i \in {j \in DOMAIN script : script[j].op = "CreateTable"
                                                                  /\ script[j].temp}}

\* The subject of a unit that creates or extends a table's storage.
Subject(i) == script[i].name

TableHome(i, n) ==
    CASE Subject(i) \in TemporaryTables -> "temp"
      [] n \in Storage -> "attached"
      [] OTHER -> "main"

Creates(op, n) == {p \in Positions : At(p).op = op /\ At(p).name = n}

CreatedNames == {At(p).name : p \in {q \in Positions : Defines(At(q))}}

Views == {p \in Positions : At(p).op = "CreateView"}

\* Where a created name is put before views are closed over temp: its last
\* creation decides.
FirstHome(n) ==
    LET last == LastOf(Creates("CreateTable", n) \cup Creates("CreateView", n))
    IN  IF At(last).op = "CreateView" THEN (IF At(last).temp THEN "temp" ELSE "main")
        ELSE TableHome(last[1], n)

FirstPlaced == {n \in CreatedNames : FirstHome(n) # "main"}

ViewsReading(S) == {At(p).name : p \in {q \in Views : At(q).bases \cap S # {}}}

\* The loop that makes a view TEMP when it reads a placed name.
TempViews ==
    LET round[k \in 0 .. Cardinality(Views)] ==
            IF k = 0 THEN {} ELSE LET S == round[k - 1] IN S \cup ViewsReading(FirstPlaced \cup S)
    IN  round[Cardinality(Views)]

ClosedHome(n) == IF n \in TempViews THEN "temp" ELSE FirstHome(n)

\* place: a table of the final schema the script did not create under its
\* name keeps to Storage, and to Main otherwise.
RenamedTables == {script[i].to : i \in {j \in DOMAIN script : script[j].op = "Rename"}}

Place ==
    [n \in CreatedNames \cup RenamedTables |->
        IF n \in CreatedNames THEN ClosedHome(n)
        ELSE IF n \in Storage THEN "attached" ELSE "main"]

Home(n) == IF n \in DOMAIN homes THEN homes[n] ELSE "main"

\* The home of the rows a write to the source table n reaches.
LogicalHome(n) ==
    IF n \in Secured /\ n \in DOMAIN server.rel THEN Home(Backing(n)) ELSE Home(n)

ReadsPlaced(names) == \E n \in names \cap DOMAIN homes : homes[n] # "main"

\* statement_placement for a trigger: a permanent one names main alone.
TriggerHome(s) ==
    IF Home(s.on) = "main" /\ ~ReadsPlaced({s.on, s.target})
    THEN "main" ELSE "temp"

\* Fault: a write goes where the name it uses lives, not where its rows do.
StatementPlacementByName(s) ==
    CASE s.op = "CreateTrigger" -> TriggerHome(s)
      [] s.op = "DropTrigger" -> TriggerHome(At(FirstOf(Creates("CreateTrigger", s.name))))
      [] OTHER -> Home(s.name)

\* The home of the object a statement creates, changes or writes.
StatementPlacement(s) ==
    CASE s.op = "CreateTrigger" -> TriggerHome(s)
      [] s.op = "DropTrigger" -> TriggerHome(At(FirstOf(Creates("CreateTrigger", s.name))))
      [] s.op = "Insert" -> LogicalHome(s.name)
      [] OTHER -> Home(s.name)

\* unit_files: a unit runs for a fresh file when it touches no storage of the
\* file that stays.
Other(file) == IF file = "main" THEN "attached" ELSE "main"

UnitFiles(i) ==
    {file \in {"main", "attached"} :
        \A k \in DOMAIN Emitted(script[i]) :
            StatementPlacement(Emitted(script[i])[k]) # Other(file)}

-----------------------------------------------------------------------------
(* Rebinding: references by identity (history/rebind).                     *)

EndsEpoch(s) == s.op \in {"Drop", "Rename"}

Binding(i) ==
    LET ends == {j \in i .. Len(script) : EndsEpoch(script[j])}
        last == IF ends = {} THEN Len(script) ELSE Min(ends) - 1
    IN  IF last = 0 THEN <<>> ELSE schemas[last]

\* The relations a source statement and its trigger function name.
References(s) ==
    CASE s.op = "CreateView" -> s.bases
      [] s.op = "CreateTrigger" -> {s.on, s.target}
      [] s.op = "CreateIndex" -> {s.name}
      [] s.op = "Insert" -> {s.name} \cup s.reads
      [] OTHER -> {}

\* A relation of the file that stays in place: it has its final name already.
Stays(file, i, n) == n \in DOMAIN Binding(i) /\ Home(n) = Other(file)

FinalNames(id) == {n \in DOMAIN server.rel : server.rel[n].id = id}

FinalName(file, i, n) ==
    IF Stays(file, i, n) /\ FinalNames(Binding(i)[n]) # {}
    THEN CHOOSE m \in FinalNames(Binding(i)[n]) : TRUE ELSE n

\* Fault: statements run under the names they were written with.
RebindNothing(file, i, s) == s

Rebind(file, i, s) ==
    LET final(n) == FinalName(file, i, n)
    IN  [s EXCEPT !.bases = {final(n) : n \in @}, !.reads = {final(n) : n \in @},
                  !.on = final(@), !.target = final(@),
                  !.name = IF s.op = "Insert" THEN final(@) ELSE @]

-----------------------------------------------------------------------------
(* The plan (fresh_forms, initialization.rs).                              *)

\* replay_fresh: a unit of the fresh file runs in full, any other runs its
\* connection-local statements.
Form(file, i) ==
    LET owned    == file \in UnitFiles(i)
        local(s) == StatementPlacement(s) = "temp"
        kept     == IF owned THEN Emitted(script[i]) ELSE SelectSeq(Emitted(script[i]), local)
    IN  [k \in DOMAIN kept |-> Rebind(file, i, kept[k])]

\* ConnectionError::UnavailableRelation: a unit the selection runs names a
\* relation the file that stays no longer has.
Unavailable(file) ==
    \E i \in DOMAIN script :
        /\ Form(file, i) # <<>>
        /\ \E n \in References(script[i]) :
               Stays(file, i, n) /\ FinalNames(Binding(i)[n]) = {}

-----------------------------------------------------------------------------
(* SQLite: relations and triggers with their homes.                        *)

NoFiles == [rel |-> <<>>, trig |-> <<>>, failed |-> FALSE]

Failing(e) == [e EXCEPT !.failed = TRUE]

\* A row written by unit i reaches the table and then its triggers' targets;
\* only a view with a trigger takes rows.  `root' is the home the statement
\* itself was aimed at.
RECURSIVE WriteRow(_, _, _, _)
WriteRow(e, n, i, root) ==
    IF n \notin DOMAIN e.rel THEN Failing(e)
    ELSE
    LET fired == {t \in DOMAIN e.trig : e.trig[t].on = n}
        stored == IF e.rel[n].kind = "table"
                  THEN [e EXCEPT !.rel[n].rows = Append(@, [unit |-> i, root |-> root])]
                  ELSE IF fired = {} THEN Failing(e) ELSE e
    IN  FoldSet(LAMBDA t, c : WriteRow(c, e.trig[t].target, i, root), stored, fired)

\* A permanent view of main sees no relation of another database.
RECURSIVE ReadableIn(_, _)
ReadableIn(e, n) ==
    /\ n \in DOMAIN e.rel
    /\ \A b \in e.rel[n].bases : /\ ReadableIn(e, b)
                                 /\ e.rel[n].home = "main" => e.rel[b].home = "main"

Exec(e, s, i) ==
    LET follow(n) == IF n = s.name THEN s.to ELSE n
        home == StatementPlacement(s)
        define(kind) == [e EXCEPT !.rel = Put(@, s.name, [home |-> home, kind |-> kind,
                                                          bases |-> s.bases, rows |-> <<>>])]
    IN  CASE s.op = "CreateTable" ->
                IF s.name \in DOMAIN e.rel THEN Failing(e) ELSE define("table")
          [] s.op = "CreateView" ->
                IF s.name \in DOMAIN e.rel THEN Failing(e) ELSE define("view")
          [] s.op = "CreateTrigger" ->
                IF s.name \in DOMAIN e.trig \/ s.on \notin DOMAIN e.rel THEN Failing(e)
                ELSE [e EXCEPT !.trig = Put(@, s.name, [home |-> home, on |-> s.on,
                                                        target |-> s.target])]
          [] s.op = "Insert" ->
                IF \E n \in s.reads : ~ReadableIn(e, n) THEN Failing(e)
                ELSE WriteRow(e, s.name, i, home)
          [] s.op = "Drop" ->
                IF s.name \notin DOMAIN e.rel THEN Failing(e)
                ELSE [e EXCEPT !.rel  = Omit(@, {s.name}),
                               !.trig = Omit(@, {t \in DOMAIN @ : @[t].on = s.name})]
          [] s.op = "DropTrigger" ->
                IF s.name \notin DOMAIN e.trig THEN Failing(e)
                ELSE [e EXCEPT !.trig = Omit(@, {s.name})]
          [] s.op = "Rename" ->
                IF s.name \notin DOMAIN e.rel THEN Failing(e)
                ELSE [e EXCEPT
                        !.rel  = [n \in {follow(k) : k \in DOMAIN @} |->
                                    LET r == @[IF n = s.to THEN s.name ELSE n]
                                    IN  [r EXCEPT !.bases = {follow(b) : b \in @}]],
                        !.trig = [t \in DOMAIN @ |-> [@[t] EXCEPT !.on = follow(@),
                                                                  !.target = follow(@)]]]

ExecAll(e, form, i) ==
    FoldLeft(LAMBDA c, s : IF c.failed THEN c ELSE Exec(c, s, i), e, form)

\* InitializationPlan: the both-files selection runs every unit as emitted.
RunBoth ==
    FoldLeftDomain(LAMBDA e, i : ExecAll(e, Emitted(script[i]), i), NoFiles, script)

RunFresh(file, left) ==
    FoldLeftDomain(LAMBDA e, i : ExecAll(e, Form(file, i), i), left, script)

\* What a connection keeps when `file' and its own temp objects are gone.
Left(e, file) ==
    [e EXCEPT !.rel  = Restrict(@, {n \in DOMAIN @ : @[n].home = Other(file)}),
              !.trig = Restrict(@, {t \in DOMAIN @ : @[t].home = Other(file)})]

Idle == [status |-> "writing", file |-> "main", fresh |-> NoFiles]

\* attached_storage: a listed table is one the final schema still has.
Usable == alphabet.listed \subseteq DOMAIN server.rel

\* The script ends: names get their homes.
Translate ==
    /\ outcome.status = "writing"
    /\ Usable
    /\ homes' = Place
    /\ outcome' = [outcome EXCEPT !.status = "translated"]
    /\ UNCHANGED <<alphabet, script, server, schemas, both>>

\* A connection initializes both files.
Initialize ==
    /\ outcome.status = "translated"
    /\ both' = RunBoth
    /\ outcome' = [outcome EXCEPT !.status = "initialized"]
    /\ UNCHANGED <<alphabet, script, server, schemas, homes>>

\* The connection and one file are lost; a new connection asks for the
\* selection of that file (InitializationPlan::select).
Lose(file) ==
    /\ outcome.status = "initialized"
    /\ outcome' = IF Unavailable(file) THEN [Idle EXCEPT !.status = "unavailable", !.file = file]
                  ELSE [status |-> "ran", file |-> file, fresh |-> RunFresh(file, Left(both, file))]
    /\ UNCHANGED <<alphabet, script, server, schemas, homes, both>>

FreshInit ==
    /\ alphabet \in Alphabets
    /\ script = <<>>
    /\ server = Empty
    /\ schemas = <<>>
    /\ homes = <<>>
    /\ both = NoFiles
    /\ outcome = Idle

FreshNext ==
    \/ \E s \in alphabet.statements : Write(s)
    \/ Translate
    \/ Initialize
    \/ \E file \in {"main", "attached"} : Lose(file)

FreshSpec == FreshInit /\ [][FreshNext]_freshVars

-----------------------------------------------------------------------------
(* Properties.                                                             *)

Ran == outcome.status = "ran"

\* What a connection holds outside the file that stays, with the rows of the
\* statements aimed at the fresh file or at temp.
Restored(e, file) ==
    LET here(h) == h # Other(file) IN
    [rel  |-> [n \in {k \in DOMAIN e.rel : here(e.rel[k].home)} |->
                 [e.rel[n] EXCEPT !.rows = SelectSeq(@, LAMBDA r : here(r.root))]],
     trig |-> Restrict(e.trig, {t \in DOMAIN e.trig : here(e.trig[t].home)})]

\* A script initializes both files, and each fresh file alone when its
\* selection is available: no statement fails, every view reads what it names,
\* and the fresh file and the connection hold the tables, views, triggers and
\* seeded rows the both-files initialization gave them (placement.rs homes,
\* history/mod.rs replay_fresh).
FreshFileIsRestored ==
    Ran => /\ ~both.failed /\ ~outcome.fresh.failed
           /\ \A n \in DOMAIN outcome.fresh.rel : ReadableIn(outcome.fresh, n)
           /\ Restored(outcome.fresh, outcome.file) = Restored(both, outcome.file)

\* The file that stays in place is not changed: "a definition or a seed write
\* aimed at the other file is not run a second time" (placement.rs:190-194).
OtherFileIsLeftAlone ==
    Ran => LET kept == Left(both, outcome.file)
               now  == Left(outcome.fresh, outcome.file)
           IN  now.rel = kept.rel /\ now.trig = kept.trig
=============================================================================
