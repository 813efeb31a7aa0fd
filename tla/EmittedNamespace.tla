--------------------------- MODULE EmittedNamespace ---------------------------
(***************************************************************************)
(* impls/emitted_namespace.rs: the walk over the emitted script that       *)
(* refuses a batch whose names would collide on SQLite.                    *)
(*                                                                         *)
(* PostgreSQL keeps one namespace of relations per schema, tells "t" from  *)
(* "T", and scopes a trigger's name to its table.  The translation drops   *)
(* the schema, and SQLite keeps one case-insensitive namespace for tables, *)
(* views and indexes and one for triggers.  Three parties follow the same  *)
(* statements:                                                             *)
(*   server   the source database (external), which decides what a batch   *)
(*            may say at all;                                              *)
(*   walk     struct Namespaces, and whether it has refused the batch;     *)
(*   replica  SQLite executing the emitted statements (external).          *)
(* A source statement, the statements it becomes, the walk over them and   *)
(* their execution are one step.  The batch has no bound on its length.    *)
(*                                                                         *)
(* A relation is named by the key SQLite files it under; in the server by  *)
(* schema and text.  Maps are functions with a finite, varying domain.     *)
(***************************************************************************)
EXTENDS Functions

CONSTANTS
    Schemas,    \* schemas of the source
    Texts,      \* identifier texts, after the server's own folding
    Lower,      \* Lower[x]: the text x with its ASCII letters in lower case
    NoOwner     \* the owner of a table or a view

ASSUME LowerAssumption ==
    /\ Lower \in [Texts -> Texts]
    /\ NoOwner \notin Texts

Names == [schema : Schemas, text : Texts]

\* The name SQLite would file an object under.
Key(n) == Lower[n.text]

VARIABLES
    server,     \* [relations: name -> [kind, owner], triggers: set of [text, owner]]
    walk,       \* [objects: key -> owner, triggers: key -> owner]
    refused,    \* the walk met a collision: the batch is not translated
    replica     \* [objects: key -> [kind, owner], triggers: key -> owner, failed, skipped]

namespaceVars == <<server, walk, refused, replica>>

\* f without the keys in ks, and f with k mapped to v.
Dropping(f, ks) == Restrict(f, DOMAIN f \ ks)

Adding(f, k, v) == [x \in DOMAIN f \cup {k} |-> IF x = k THEN v ELSE f[x]]

NamespaceInit ==
    /\ server = [relations |-> <<>>, triggers |-> {}]
    /\ walk = [objects |-> <<>>, triggers |-> <<>>]
    /\ refused = FALSE
    /\ replica = [objects |-> <<>>, triggers |-> <<>>, failed |-> FALSE, skipped |-> FALSE]

-----------------------------------------------------------------------------
(* The walk: one operator per method of Namespaces.  Each answers whether  *)
(* the statement collides, and the namespaces after it.                    *)

DefineObject(w, key, owner) ==
    [refused |-> key \in DOMAIN w.objects,
     walk    |-> [w EXCEPT !.objects = Adding(@, key, owner)]]

\* Fault: two triggers may share a name, as they may on the server.
DefineTriggerAnyway(w, key, owner) ==
    [refused |-> FALSE, walk |-> [w EXCEPT !.triggers = Adding(@, key, owner)]]

DefineTrigger(w, key, owner) ==
    [refused |-> key \in DOMAIN w.triggers,
     walk    |-> [w EXCEPT !.triggers = Adding(@, key, owner)]]

\* Fault: the indexes and triggers of a dropped table keep their names.
DropObjectAlone(w, key) ==
    [refused |-> FALSE, walk |-> [w EXCEPT !.objects = Dropping(@, {key})]]

\* Drops the name and everything that hangs off it, whatever it names.
DropObject(w, key) ==
    LET hanging(f) == {k \in DOMAIN f : f[k] = key}
    IN  [refused |-> FALSE,
         walk    |-> [objects  |-> Dropping(w.objects, {key} \cup hanging(w.objects)),
                      triggers |-> Dropping(w.triggers, hanging(w.triggers))]]

ForgetTrigger(w, key) ==
    [refused |-> FALSE, walk |-> [w EXCEPT !.triggers = Dropping(@, {key})]]

\* Fault: the new name is not looked up.
RenameObjectBlindly(w, from, to) ==
    LET reown(f) == [k \in DOMAIN f |-> IF f[k] = from THEN to ELSE f[k]]
    IN  [refused |-> FALSE,
         walk    |-> [objects  |-> reown(IF from \in DOMAIN w.objects
                                         THEN Adding(Dropping(w.objects, {from}), to, w.objects[from])
                                         ELSE w.objects),
                      triggers |-> reown(w.triggers)]]

\* The entry moves, and what hung off the old name hangs off the new one.
RenameObject(w, from, to) ==
    LET moved == IF from \in DOMAIN w.objects
                 THEN Adding(Dropping(w.objects, {from}), to, w.objects[from])
                 ELSE w.objects
        reown(f) == [k \in DOMAIN f |-> IF f[k] = from THEN to ELSE f[k]]
    IN  [refused |-> to \in DOMAIN w.objects,
         walk    |-> [objects |-> reown(moved), triggers |-> reown(w.triggers)]]

\* Namespaces::seed: a batch with a starting schema begins with its names.
Seed(s) ==
    [objects  |-> [k \in {Key(n) : n \in DOMAIN s.relations} |->
                      LET n == CHOOSE m \in DOMAIN s.relations : Key(m) = k
                      IN  IF s.relations[n].kind = "index" THEN Key(s.relations[n].owner)
                          ELSE NoOwner],
     triggers |-> [k \in {Lower[t.text] : t \in s.triggers} |->
                      Key((CHOOSE t \in s.triggers : Lower[t.text] = k).owner)]]

-----------------------------------------------------------------------------
(* The replica.                                                            *)

\* "there is already a table named ...", unless IF NOT EXISTS passes over it.
ReplicaDefine(r, key, kind, owner, guarded) ==
    IF key \notin DOMAIN r.objects
    THEN [r EXCEPT !.objects = Adding(@, key, [kind |-> kind, owner |-> owner])]
    ELSE IF guarded THEN [r EXCEPT !.skipped = TRUE] ELSE [r EXCEPT !.failed = TRUE]

ReplicaTrigger(r, key, owner) ==
    IF key \in DOMAIN r.triggers THEN [r EXCEPT !.failed = TRUE]
    ELSE [r EXCEPT !.triggers = Adding(@, key, owner)]

\* DROP VIEW of a table is an error, with IF EXISTS too: "use DROP TABLE to
\* delete table ...".
ReplicaDrop(r, key, kind, guarded) ==
    LET hanging == {k \in DOMAIN r.objects : r.objects[k].owner = key}
        fired   == {k \in DOMAIN r.triggers : r.triggers[k] = key}
    IN  IF key \notin DOMAIN r.objects
        THEN IF guarded THEN r ELSE [r EXCEPT !.failed = TRUE]
        ELSE IF r.objects[key].kind # kind THEN [r EXCEPT !.failed = TRUE]
        ELSE [r EXCEPT !.objects  = Dropping(@, {key} \cup hanging),
                       !.triggers = Dropping(@, fired)]

ReplicaRename(r, from, to) ==
    LET reown(o)  == IF o = from THEN to ELSE o
        origin(k) == IF k = to THEN from ELSE k
    IN  IF from \notin DOMAIN r.objects \/ to \in DOMAIN r.objects
        THEN [r EXCEPT !.failed = TRUE]
        ELSE [r EXCEPT
                !.objects  = [k \in (DOMAIN @ \ {from}) \cup {to} |->
                                [kind  |-> @[origin(k)].kind,
                                 owner |-> reown(@[origin(k)].owner)]],
                !.triggers = [k \in DOMAIN @ |-> reown(@[k])]]

-----------------------------------------------------------------------------
(* Source statements the server accepts, and what they become.             *)

Relations == server.relations

Tables == {n \in DOMAIN Relations : Relations[n].kind = "table"}

Reading == ~refused /\ ~replica.failed /\ ~replica.skipped

\* The walk answers w; the replica becomes r.
Emitted(w, r) ==
    /\ refused' = w.refused
    /\ walk' = IF w.refused THEN walk ELSE w.walk
    /\ replica' = r

AddRelation(n, kind, owner) ==
    server' = [server EXCEPT !.relations = Adding(@, n, [kind |-> kind, owner |-> owner])]

CreateRelation(n, kind, guarded) ==
    /\ Reading
    /\ n \notin DOMAIN Relations
    /\ AddRelation(n, kind, n)
    /\ Emitted(DefineObject(walk, Key(n), NoOwner),
               ReplicaDefine(replica, Key(n), kind, NoOwner, guarded))

\* DROP VIEW IF EXISTS and CREATE VIEW, for a new view or one that is there.
CreateOrReplaceView(n) ==
    /\ Reading
    /\ n \in DOMAIN Relations => Relations[n].kind = "view"
    /\ AddRelation(n, "view", n)
    /\ LET dropped == DropObject(walk, Key(n)).walk
           gone    == ReplicaDrop(replica, Key(n), "view", TRUE)
       IN  Emitted(DefineObject(dropped, Key(n), NoOwner),
                   IF gone.failed THEN gone
                   ELSE ReplicaDefine(gone, Key(n), "view", NoOwner, FALSE))

CreateIndex(n, t) ==
    /\ Reading
    /\ n \notin DOMAIN Relations /\ t \in Tables /\ n.schema = t.schema
    /\ AddRelation(n, "index", t)
    /\ Emitted(DefineObject(walk, Key(n), Key(t)),
               ReplicaDefine(replica, Key(n), "index", Key(t), FALSE))

\* A trigger on a table; the server tells the triggers of two tables apart.
CreateTrigger(x, t) ==
    LET trigger == [text |-> x, owner |-> t] IN
    /\ Reading
    /\ t \in Tables /\ trigger \notin server.triggers
    /\ server' = [server EXCEPT !.triggers = @ \cup {trigger}]
    /\ Emitted(DefineTrigger(walk, Lower[x], Key(t)),
               ReplicaTrigger(replica, Lower[x], Key(t)))

\* DROP TABLE, DROP VIEW or DROP INDEX of what is there.
DropRelation(n) ==
    LET hanging == {m \in DOMAIN Relations : Relations[m].owner = n} IN
    /\ Reading
    /\ n \in DOMAIN Relations
    /\ server' = [relations |-> Dropping(Relations, {n} \cup hanging),
                  triggers  |-> {t \in server.triggers : t.owner # n}]
    /\ Emitted(DropObject(walk, Key(n)),
               ReplicaDrop(replica, Key(n), Relations[n].kind, FALSE))

DropTrigger(x, t) ==
    LET trigger == [text |-> x, owner |-> t] IN
    /\ Reading
    /\ trigger \in server.triggers
    /\ server' = [server EXCEPT !.triggers = @ \ {trigger}]
    /\ Emitted(ForgetTrigger(walk, Lower[x]),
               [replica EXCEPT !.triggers = Dropping(@, {Lower[x]})])

\* ALTER TABLE n RENAME TO m, within its schema.
RenameTable(n, m) ==
    LET follow(o) == IF o = n THEN m ELSE o
        origin(k) == IF k = m THEN n ELSE k
    IN  /\ Reading
        /\ n \in Tables /\ m \notin DOMAIN Relations /\ n.schema = m.schema
        /\ server' =
             [relations |-> [k \in (DOMAIN Relations \ {n}) \cup {m} |->
                               [kind  |-> Relations[origin(k)].kind,
                                owner |-> follow(Relations[origin(k)].owner)]],
              triggers  |-> {[t EXCEPT !.owner = follow(@)] : t \in server.triggers}]
        /\ Emitted(RenameObject(walk, Key(n), Key(m)),
                   ReplicaRename(replica, Key(n), Key(m)))

\* The batch ends, and the next one is given the schema it left.
NextBatch ==
    /\ Reading
    /\ walk' = Seed(server)
    /\ UNCHANGED <<server, refused, replica>>

\* A new view takes a name another relation of the server holds on SQLite: the
\* DROP VIEW IF EXISTS emitted before it frees that name in the walk whatever
\* holds it.  Batches that do so are left out.
Shadows(n) == \E m \in DOMAIN Relations \ {n} : Key(m) = Key(n)

Definition ==
    \/ \E n \in Names, kind \in {"table", "view"}, guarded \in BOOLEAN :
          CreateRelation(n, kind, guarded)
    \/ \E n, t \in Names : CreateIndex(n, t)
    \/ \E x \in Texts, t \in Names : CreateTrigger(x, t)
    \/ \E n \in Names : DropRelation(n)
    \/ \E x \in Texts, t \in Names : DropTrigger(x, t)
    \/ \E n, m \in Names : RenameTable(n, m)

NamespaceNext ==
    \/ Definition
    \/ \E n \in Names : ~Shadows(n) /\ CreateOrReplaceView(n)
    \/ NextBatch

NamespaceSpec == NamespaceInit /\ [][NamespaceNext]_namespaceVars

-----------------------------------------------------------------------------
(* Properties.                                                             *)

\* The walk keeps "the namespaces SQLite itself would keep": the same names,
\* hanging off the same relations, after drops, renames and a new seed.
WalkIsReplica ==
    /\ walk.objects = [k \in DOMAIN replica.objects |-> replica.objects[k].owner]
    /\ walk.triggers = replica.triggers

\* A script the walk lets through runs: no definition of it lands on a name
\* that is taken, none is passed over by IF NOT EXISTS, and the walk holds the
\* names SQLite holds (it "refuses the first emitted definition that lands on
\* a name the script already holds").
AcceptedScriptApplies == ~refused => ~replica.failed /\ ~replica.skipped /\ WalkIsReplica

\* The walk refuses nothing that would have run: "without that the walk would
\* refuse input that translates and runs today" (emitted_namespace.rs, on the
\* names a DROP frees).
RefusalIsNeeded == refused => replica.failed \/ replica.skipped

\* Dropping the schema and the case of a name loses no object: the relations
\* and triggers of the source are the ones of the replica, one for one, with
\* their kinds and what they hang off.
ReplicaHoldsServer ==
    ~refused =>
        /\ \A n, m \in DOMAIN server.relations : Key(n) = Key(m) => n = m
        /\ replica.objects =
             [k \in {Key(n) : n \in DOMAIN server.relations} |->
                LET n == CHOOSE m \in DOMAIN server.relations : Key(m) = k
                    r == server.relations[n]
                IN  [kind  |-> r.kind,
                     owner |-> IF r.kind = "index" THEN Key(r.owner) ELSE NoOwner]]
        /\ \A t, u \in server.triggers : Lower[t.text] = Lower[u.text] => t = u
        /\ replica.triggers =
             [k \in {Lower[t.text] : t \in server.triggers} |->
                Key((CHOOSE t \in server.triggers : Lower[t.text] = k).owner)]
=============================================================================
