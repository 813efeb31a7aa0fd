-------------------------- MODULE ConnectionCatalog --------------------------
(***************************************************************************)
(* history/effects.rs: the connection-local objects of a batch as its      *)
(* emitted statements create, rename and drop them, and what each unit     *)
(* touches and reads of them.  Statements are the records of               *)
(* SqliteConnection.  Names are SQLite-folded and unqualified.             *)
(*                                                                         *)
(* A catalog is a record                                                   *)
(*   objects    every object ever created, in order: [shape, alive]        *)
(*   relations, triggers, indexes   name -> position in objects            *)
(* A shape is a record with a kind, and every field of every kind, so that *)
(* shapes can be compared.                                                 *)
(***************************************************************************)
EXTENDS Naturals, Sequences, Functions

\* f without the keys in ks, and f with k mapped to v.
Forget(f, ks) == Restrict(f, DOMAIN f \ ks)

Bind(f, k, v) == [x \in DOMAIN f \cup {k} |-> IF x = k THEN v ELSE f[x]]

EmptyCatalog == [objects |-> <<>>, relations |-> <<>>, triggers |-> <<>>, indexes |-> <<>>]

NoEffects == [touches |-> {}, reads |-> {}, persistent |-> FALSE]

\* Effects::touch and Effects::read, for a set of objects.
Touch(eff, ids) == [eff EXCEPT !.touches = @ \cup ids]

Read(eff, ids) == [eff EXCEPT !.reads = @ \cup ids]

\* The relation a trigger or an index is attached to.
OnConnection(id) == [id |-> id, table |-> "temp object"]

OnFile(table) == [id |-> 0, table |-> table]

Shape(kind) ==
    [kind |-> kind, bases |-> {}, owner |-> OnConnection(0), events |-> {},
     body |-> [target |-> "", events |-> {}, actual |-> "", reads |-> {}]]

OwnerOf(cat, name) ==
    IF name \in DOMAIN cat.relations THEN OnConnection(cat.relations[name]) ELSE OnFile(name)

Alive(cat) == {id \in DOMAIN cat.objects : cat.objects[id].alive}

NewId(cat) == Len(cat.objects) + 1

Create(cat, shape) == [cat EXCEPT !.objects = Append(@, [shape |-> shape, alive |-> TRUE])]

-----------------------------------------------------------------------------
(* What a statement reads, and what a write reaches.                       *)

\* Fault: the reads of a view are not followed.
ReadIdsDirect(cat, names) == {cat.relations[n] : n \in names \cap DOMAIN cat.relations}

\* The relations in `names' and, through views, the ones they read when they
\* run.  A name the catalog does not hold is file storage.
ReadIds(cat, names) ==
    LET viewBases(S) == UNION {cat.objects[cat.relations[n]].shape.bases :
                                 n \in S \cap DOMAIN cat.relations}
        seen[k \in 0 .. Len(cat.objects)] ==
            IF k = 0 THEN names ELSE seen[k - 1] \cup viewBases(seen[k - 1])
    IN  {cat.relations[n] : n \in seen[Len(cat.objects)] \cap DOMAIN cat.relations}

\* The live triggers a write to `name' raising `events' fires.
FiredBy(cat, name, events) ==
    {id \in Alive(cat) :
        /\ cat.objects[id].shape.kind = "trigger"
        /\ cat.objects[id].shape.owner = OwnerOf(cat, name)
        /\ cat.objects[id].shape.events \cap events # {}}

\* Fault: the writes of the triggers a write fires are not followed.
WritesFromDirect(cat, name, events) == {<<name, events>>}

\* Every write of a row write and of the triggers it fires, transitively:
\* the pairs <<relation name, events>>.
WritesFrom(cat, name, events) ==
    LET bodies(W) == {cat.objects[id].shape.body :
                        id \in UNION {FiredBy(cat, w[1], w[2]) : w \in W}}
        reach[k \in 0 .. Len(cat.objects)] ==
            IF k = 0 THEN {<<name, events>>}
            ELSE reach[k - 1] \cup {<<b.target, b.events>> : b \in bodies(reach[k - 1])}
    IN  reach[Len(cat.objects)]

Write(cat, name, events, eff) ==
    LET writes  == WritesFrom(cat, name, events)
        fired   == UNION {FiredBy(cat, w[1], w[2]) : w \in writes}
        targets == {cat.relations[n] : n \in {w[1] : w \in writes} \cap DOMAIN cat.relations}
        named   == UNION {{cat.objects[id].shape.body.target} \cup cat.objects[id].shape.body.reads :
                            id \in fired}
        ofKind(kind) == {id \in targets : cat.objects[id].shape.kind = kind}
    IN  [touches    |-> eff.touches \cup ofKind("table"),
         reads      |-> eff.reads \cup ofKind("view") \cup fired \cup ReadIds(cat, named),
         persistent |-> eff.persistent \/ \E w \in writes : w[1] \notin DOMAIN cat.relations]

\* Fault: what hangs off a dropped relation stays.
RetireAlone(cat, id, eff) ==
    IF id \notin Alive(cat) THEN [cat |-> cat, eff |-> eff]
    ELSE [cat |-> [cat EXCEPT !.objects[id].alive = FALSE], eff |-> Touch(eff, {id})]

\* Drops id and every live trigger and index attached to it.
Retire(cat, id, eff) ==
    LET attached == {d \in Alive(cat) : /\ cat.objects[d].shape.kind \in {"trigger", "index"}
                                        /\ cat.objects[d].shape.owner = OnConnection(id)}
        gone     == attached \cup {id}
        names(f) == {k \in DOMAIN f : f[k] \in attached}
    IN  IF id \notin Alive(cat) THEN [cat |-> cat, eff |-> eff]
        ELSE [cat |-> [cat EXCEPT
                         !.objects  = [d \in DOMAIN @ |->
                                         IF d \in gone THEN [@[d] EXCEPT !.alive = FALSE] ELSE @[d]],
                         !.triggers = Forget(@, names(@)),
                         !.indexes  = Forget(@, names(@))],
              eff |-> Touch(eff, gone)]

-----------------------------------------------------------------------------
(* One emitted statement: the catalog and the unit's effects after it.     *)

\* if_not_exists leaves a relation that is there alone.
CreateRelation(cat, s, guarded, shape, eff) ==
    IF guarded /\ s.name \in DOMAIN cat.relations THEN [cat |-> cat, eff |-> eff]
    ELSE [cat |-> [Create(cat, shape) EXCEPT !.relations = Bind(@, s.name, NewId(cat))],
          eff |-> Touch(eff, {NewId(cat)})]

CreateTrigger(cat, s, eff) ==
    LET owner == OwnerOf(cat, s.on)
        reads == {cat.relations[n] : n \in {s.on} \cap DOMAIN cat.relations}
        shape == [Shape("trigger") EXCEPT !.owner = owner, !.events = s.events, !.body = s.body]
    IN  [cat |-> [Create(cat, shape) EXCEPT !.triggers = Bind(@, s.name, NewId(cat))],
         eff |-> Touch(Read(eff, reads), {NewId(cat)})]

CreateIndex(cat, s, eff) ==
    IF s.on \notin DOMAIN cat.relations THEN [cat |-> cat, eff |-> eff]
    ELSE LET shape == [Shape("index") EXCEPT !.owner = OnConnection(cat.relations[s.on])]
         IN  [cat |-> [Create(cat, shape) EXCEPT !.indexes = Bind(@, s.name, NewId(cat))],
              eff |-> Touch(Read(eff, {cat.relations[s.on]}), {NewId(cat)})]

DropRelation(cat, s, eff) ==
    IF s.name \notin DOMAIN cat.relations THEN [cat |-> cat, eff |-> eff]
    ELSE Retire([cat EXCEPT !.relations = Forget(@, {s.name})], cat.relations[s.name], eff)

DropIndex(cat, s, eff) ==
    IF s.name \notin DOMAIN cat.indexes THEN [cat |-> cat, eff |-> eff]
    ELSE Retire([cat EXCEPT !.indexes = Forget(@, {s.name})], cat.indexes[s.name], eff)

DropTrigger(cat, s, eff) ==
    IF s.name \notin DOMAIN cat.triggers THEN [cat |-> cat, eff |-> eff]
    ELSE Retire([cat EXCEPT !.triggers = Forget(@, {s.name})], cat.triggers[s.name], eff)

\* ALTER TABLE ... RENAME TO: the name moves, and nothing else follows it.
Alter(cat, s, eff) ==
    IF s.name \notin DOMAIN cat.relations THEN [cat |-> cat, eff |-> eff]
    ELSE LET id == cat.relations[s.name]
         IN  [cat |-> [cat EXCEPT !.relations = Bind(Forget(@, {s.name}), s.to, id)],
              eff |-> Touch(eff, {id})]

RowWrite(cat, s, eff) ==
    [cat |-> cat,
     eff |-> Write(cat, s.target, s.events,
                   Read(eff, ReadIds(cat, s.reads \cup {s.target})))]

\* Catalog::statement.  Only TEMP relations and triggers are tracked.
Statement(cat, s, eff) ==
    CASE s.op = "CreateTable" /\ s.temp ->
            CreateRelation(cat, s, s.guarded, Shape("table"), Read(eff, ReadIds(cat, s.reads)))
      [] s.op = "CreateView" /\ s.temp ->
            CreateRelation(cat, s, FALSE, [Shape("view") EXCEPT !.bases = s.bases], eff)
      [] s.op = "CreateTrigger" -> CreateTrigger(cat, s, eff)
      [] s.op = "CreateIndex"   -> CreateIndex(cat, s, eff)
      [] s.op = "Drop"          -> DropRelation(cat, s, eff)
      [] s.op = "DropIndex"     -> DropIndex(cat, s, eff)
      [] s.op = "DropTrigger"   -> DropTrigger(cat, s, eff)
      [] s.op = "Rename"        -> Alter(cat, s, eff)
      [] s.op = "Write"         -> RowWrite(cat, s, eff)
      [] OTHER                  -> [cat |-> cat, eff |-> eff]

\* Catalog::apply: the statements of one unit in order.
Apply(cat, unit) ==
    LET after[k \in 0 .. Len(unit)] ==
            IF k = 0 THEN [cat |-> cat, eff |-> NoEffects]
            ELSE Statement(after[k - 1].cat, unit[k], after[k - 1].eff)
    IN  after[Len(unit)]
=============================================================================
