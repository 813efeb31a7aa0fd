--------------------------- MODULE ConnectionReplay ---------------------------
(***************************************************************************)
(* history/mod.rs: a batch initializes a replica, and a later connection   *)
(* to the same file replays the part of the batch its TEMP objects need.   *)
(*                                                                         *)
(* A unit is the sequence of SQLite statements one source statement became *)
(* (records of SqliteConnection).  The batch grows one committed unit at a *)
(* time; TransactionOutline and ReplicaTransactions justify leaving out    *)
(* the undone ones, which connection_program gives no effects.  The        *)
(* initializing connection executes each unit as it is appended, and the   *)
(* catalog applies it, so that after n units both are where their loops    *)
(* are after n iterations.  Connect then runs connection_program and the   *)
(* program it returns on a new connection to the file as the batch left    *)
(* it.  Any prefix of a batch is a batch, so Connect may come at any time. *)
(***************************************************************************)
EXTENDS SqliteConnection, ConnectionCatalog, SequencesExt

CONSTANTS
    Alphabets,      \* what a batch is made of: records [units, blocks, bound]
    StoredTables,   \* tables the file holds before the batch
    NoTx            \* the transaction of a unit outside every block

ASSUME ReplayAssumption ==
    /\ \A a \in Alphabets : a.blocks \in BOOLEAN /\ a.bound \in Nat
    /\ NoTx \notin Nat

VARIABLES
    alphabet,   \* the units this batch may use, whether they may share a source
                \* transaction, and the bound on its length
    batch,      \* committed units: [unit, tx]
    live,       \* the connection that runs the initialization
    snapshots,  \* snapshots[i]: stored relations (name -> identity) after unit i
    catalog,    \* connection_program: the catalog after every unit
    effects,    \* connection_program: the effects of every unit
    conn        \* the new connection: [status, program, engine]

replayVars == <<alphabet, batch, live, snapshots, catalog, effects, conn>>

-----------------------------------------------------------------------------
(* The batch.                                                              *)

StoredAtStart ==
    LET n == CHOOSE f \in [StoredTables -> 1 .. Cardinality(StoredTables)] :
                \A x, y \in StoredTables : f[x] = f[y] => x = y
    IN  [t \in StoredTables |->
            [home |-> "file", kind |-> "table", rows |-> <<>>, bases |-> {}, id |-> n[t]]]

StoredIds(e) == [n \in StoredRelations(e) |-> e.rel[n].id]

RunUnit(e, unit, i) == FoldLeftDomain(LAMBDA c, k : Exec(c, unit[k], i), e, unit)

Idle == [status |-> "none", program |-> <<>>, engine |-> NewConnection(StoredAtStart)]

ReplayInit ==
    /\ alphabet \in Alphabets
    /\ batch = <<>>
    /\ live = NewConnection(StoredAtStart)
    /\ snapshots = <<>>
    /\ catalog = EmptyCatalog
    /\ effects = <<>>
    /\ conn = Idle

\* PostgreSQL refuses to drop a relation a view reads.
DropsWhatAViewReads(unit) ==
    /\ Len(unit) = 1
    /\ unit[1].op = "Drop"
    /\ \E n \in DOMAIN live.rel : unit[1].name \in live.rel[n].bases

\* A trigger that reads and writes stored tables only is stored with them and
\* is no connection object; batches that create one are left out.
CreatesStoredTrigger(unit) ==
    \E k \in DOMAIN unit :
        /\ unit[k].op = "CreateTrigger"
        /\ ({unit[k].on, unit[k].body.target} \cup unit[k].body.reads) \cap TempRelations(live) = {}

\* A name first used for a stored table and then for a TEMP one has a TEMP home
\* for the whole batch, so initialization creates both as TEMP; batches that
\* do so are left out.
ReusesStoredName(unit) ==
    \E k \in DOMAIN unit :
        /\ unit[k].op \in {"CreateTable", "CreateView"}
        /\ unit[k].temp
        /\ \/ unit[k].name \in StoredTables
           \/ \E i \in DOMAIN snapshots : unit[k].name \in DOMAIN snapshots[i]

LastTx == IF batch = <<>> THEN NoTx ELSE batch[Len(batch)].tx

UsedTx == {batch[i].tx : i \in DOMAIN batch} \ {NoTx}

\* A unit joins the block of the unit before it, opens one, or stands alone.
Transactions == IF alphabet.blocks THEN {NoTx, LastTx, Cardinality(UsedTx) + 1} ELSE {NoTx}

\* A unit the server and SQLite both accept is committed.
AppendUnit(unit, tx) ==
    LET applied == Apply(catalog, unit)
        after   == RunUnit(live, unit, Len(batch) + 1)
    IN  /\ conn.status = "none"
        /\ Len(batch) < alphabet.bound
        /\ ~DropsWhatAViewReads(unit)
        /\ ~CreatesStoredTrigger(unit)
        /\ ~ReusesStoredName(unit)
        /\ ~after.failed
        /\ batch' = Append(batch, [unit |-> unit, tx |-> tx])
        /\ live' = after
        /\ snapshots' = Append(snapshots, StoredIds(after))
        /\ catalog' = applied.cat
        /\ effects' = Append(effects, applied.eff)
        /\ UNCHANGED <<alphabet, conn>>

-----------------------------------------------------------------------------
(* Where the whole batch puts a name (history/placement.rs).               *)

\* Positions <<unit, statement>> of the batch.
Statements == UNION {{i} \X DOMAIN batch[i].unit : i \in DOMAIN batch}

StatementAt(p) == batch[p[1]].unit[p[2]]

Later(p, q) == p[1] > q[1] \/ (p[1] = q[1] /\ p[2] > q[2])

Creations(name) ==
    {p \in Statements : /\ StatementAt(p).op \in {"CreateTable", "CreateView"}
                        /\ StatementAt(p).name = name}

\* The last creation of a name decides, then the final schema, then Main.
Home(name) ==
    IF Creations(name) # {}
    THEN LET last == CHOOSE p \in Creations(name) : \A q \in Creations(name) \ {p} : Later(p, q)
         IN  IF StatementAt(last).temp THEN "temp" ELSE "file"
    ELSE IF name \in TempRelations(live) THEN "temp" ELSE "file"

TriggerIsLocal(s) ==
    \E n \in {s.on, s.body.target} \cup s.body.reads : Home(n) = "temp"

\* The first creation of a trigger name decides its home.
TriggerHomeIsLocal(name) ==
    LET made == {p \in Statements : /\ StatementAt(p).op = "CreateTrigger"
                                    /\ StatementAt(p).name = name}
    IN  /\ made # {}
        /\ TriggerIsLocal(StatementAt(CHOOSE p \in made : \A q \in made \ {p} : Later(q, p)))

\* The table an index name was created on.
IndexTable(name) ==
    StatementAt(CHOOSE p \in Statements : /\ StatementAt(p).op = "CreateIndex"
                                          /\ StatementAt(p).name = name).on

IsConnectionLocal(s) ==
    CASE s.op \in {"CreateTable", "CreateView", "Drop", "Rename"} -> Home(s.name) = "temp"
      [] s.op = "CreateTrigger" -> TriggerIsLocal(s)
      [] s.op = "CreateIndex"   -> Home(s.on) = "temp"
      [] s.op = "DropIndex"     -> Home(IndexTable(s.name)) = "temp"
      [] s.op = "DropTrigger"   -> TriggerHomeIsLocal(s.name)
      [] s.op = "Write"         -> Home(s.target) = "temp"

-----------------------------------------------------------------------------
(* Rebinding (history/rebind): stored relations by identity.               *)

\* A source DROP or RENAME ends an epoch; the DROP that a CREATE OR REPLACE
\* VIEW emits in front of its CREATE does not.
EndsEpoch(unit) == Len(unit) = 1 /\ unit[1].op \in {"Drop", "Rename"}

\* The stored relations the references of unit i are resolved against: the
\* ones before the next unit that drops or renames a relation.
Binding(i) ==
    LET ends == {j \in i .. Len(batch) : EndsEpoch(batch[j].unit)}
        last == IF ends = {} THEN Len(batch) ELSE Min(ends) - 1
    IN  IF last = 0 THEN StoredIds(NewConnection(StoredAtStart)) ELSE snapshots[last]

\* A stored relation of the binding that the replay does not recreate.
Rebinds(i, name) == name \in DOMAIN Binding(i) /\ Home(name) = "file"

FinalNames(id) == {n \in StoredRelations(live) : live.rel[n].id = id}

FinalName(i, name) ==
    IF Rebinds(i, name) THEN CHOOSE n \in FinalNames(Binding(i)[name]) : TRUE ELSE name

NamesOf(s) ==
    CASE s.op = "CreateTable"   -> s.reads
      [] s.op = "CreateView"    -> s.bases
      [] s.op = "CreateTrigger" -> {s.on, s.body.target} \cup s.body.reads
      [] s.op = "CreateIndex"   -> {s.on}
      [] s.op = "Write"         -> {s.target} \cup s.reads
      [] OTHER                  -> {}

\* ConnectionError::UnavailableRelation.
Unavailable(i) ==
    \E k \in DOMAIN batch[i].unit : \E n \in NamesOf(batch[i].unit[k]) :
        Rebinds(i, n) /\ FinalNames(Binding(i)[n]) = {}

Rebound(i, s) ==
    LET final(n)  == FinalName(i, n)
        finals(S) == {final(n) : n \in S}
    IN  CASE s.op = "CreateTable"   -> [s EXCEPT !.reads = finals(@)]
          [] s.op = "CreateView"    -> [s EXCEPT !.bases = finals(@)]
          [] s.op = "CreateTrigger" -> [s EXCEPT !.on = final(@), !.body.target = final(@),
                                                 !.body.reads = finals(@)]
          [] s.op = "CreateIndex"   -> [s EXCEPT !.on = final(@)]
          [] s.op = "Write"         -> [s EXCEPT !.target = final(@), !.reads = finals(@)]
          [] OTHER                  -> s

-----------------------------------------------------------------------------
(* connection_program.                                                     *)

\* Objects the units in R touch or read, and the ones that survive.
Needed(R) == Alive(catalog) \cup UNION {effects[i].touches \cup effects[i].reads : i \in R}

Touching(needed) == {i \in DOMAIN effects : effects[i].touches \cap needed # {}}

\* Which units the surviving objects need: the search repeats until no unit
\* is added, which takes at most one round per unit.
Retained ==
    LET round[k \in 0 .. Len(effects)] ==
            IF k = 0 THEN {} ELSE round[k - 1] \cup Touching(Needed(round[k - 1]))
    IN  round[Len(effects)]

\* Fault: a unit that writes the file is replayed like any other.
RefusedUnavailable == \E i \in Retained : Unavailable(i)

Refused ==
    \/ \E i \in Retained : effects[i].persistent
    \/ \E i \in Retained : Unavailable(i)

Control(op) == [op |-> op, unit |-> 0]

\* What the replay of unit i adds to the program, and the open block after it.
ReplayUnit(out, i) ==
    LET tx     == batch[i].tx
        close  == IF tx # out.open /\ out.open # NoTx THEN <<Control("COMMIT")>> ELSE <<>>
        open   == IF tx # out.open /\ tx # NoTx THEN <<Control("BEGIN")>> ELSE <<>>
        local  == SelectSeq(batch[i].unit, IsConnectionLocal)
        forms  == [k \in DOMAIN local |-> [op |-> "Run", unit |-> i, form |-> Rebound(i, local[k])]]
    IN  [program |-> out.program \o close \o open \o forms, open |-> tx]

Program ==
    LET kept == SetToSortSeq(Retained, <)
        out  == FoldLeft(ReplayUnit, [program |-> <<>>, open |-> NoTx], kept)
    IN  IF out.open = NoTx THEN out.program ELSE Append(out.program, Control("COMMIT"))

RunProgram(program) ==
    LET exec(e, item) == IF item.op = "Run" THEN Exec(e, item.form, item.unit)
                         ELSE Exec(e, item, 0)
    IN  FoldLeft(exec, [NewConnection(Restrict(live.rel, StoredRelations(live)))
                            EXCEPT !.nextId = live.nextId], program)

\* A new connection asks for the connection program and runs it.
Connect ==
    /\ conn.status = "none"
    /\ conn' = IF Refused
               THEN [Idle EXCEPT !.status = "refused"]
               ELSE [status |-> "connected", program |-> Program, engine |-> RunProgram(Program)]
    /\ UNCHANGED <<alphabet, batch, live, snapshots, catalog, effects>>

ReplayNext ==
    \/ \E unit \in alphabet.units, tx \in Transactions : AppendUnit(unit, tx)
    \/ Connect

ReplaySpec == ReplayInit /\ [][ReplayNext]_replayVars

-----------------------------------------------------------------------------
(* Properties.                                                             *)

Connected == conn.status = "connected"

\* The catalog read from the emitted statements names the TEMP relations,
\* triggers and indexes that SQLite holds, and calls every object it names
\* alive (effects.rs Catalog::apply against the connection that runs the
\* batch).  SQLite may hold fewer triggers: the catalog does not see a stored
\* table being dropped.
CatalogAgrees ==
    /\ DOMAIN catalog.relations = TempRelations(live)
    /\ \A n \in TempRelations(live) :
          catalog.objects[catalog.relations[n]].shape.kind = live.rel[n].kind
    /\ DOMAIN live.trig \subseteq DOMAIN catalog.triggers
    /\ DOMAIN catalog.indexes = {i \in DOMAIN live.idx : live.idx[i] \in TempRelations(live)}
    /\ Range(catalog.relations) \cup Range(catalog.triggers) \cup Range(catalog.indexes)
          \subseteq Alive(catalog)

\* Statements the batch committed together are replayed in one transaction,
\* and the others are not (history/mod.rs replay).
ReplayKeepsGroups ==
    LET items      == {p \in DOMAIN conn.program : conn.program[p].op = "Run"}
        brackets(p) == Cardinality({q \in 1 .. p : conn.program[q].op # "Run"})
        tx(p)       == batch[conn.program[p].unit].tx
    IN  \A p, q \in items :
            /\ tx(p) # NoTx <=> brackets(p) % 2 = 1
            /\ tx(p) # NoTx => (tx(p) = tx(q) <=> brackets(p) = brackets(q))

\* The program runs on a new connection without a failing statement: every
\* object a replayed statement names exists by then, none is created twice,
\* no BEGIN or COMMIT is unmatched, and what the batch committed together is
\* replayed in one transaction (history/mod.rs retention, replay).
ReplayRuns == Connected => ~conn.engine.failed /\ ~conn.engine.open /\ ReplayKeepsGroups

\* It recreates the TEMP objects the batch left, with the rows the batch gave
\* them: "replays the committed history of the connection objects that
\* survive the batch" (history/mod.rs).
ReplayRestores ==
    Connected /\ ~conn.engine.failed =>
        ConnectionObjects(conn.engine) = ConnectionObjects(live)

\* It never writes the database file, not through a trigger either:
\* connection_program "refuses when that history would write the database
\* file again".
ReplayLeavesFileAlone == Connected => ~conn.engine.wrote
=============================================================================
