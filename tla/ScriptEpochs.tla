---------------------------- MODULE ScriptEpochs ----------------------------
(***************************************************************************)
(* How the schema a statement is translated against is chosen, and what    *)
(* that choice does to tables that are altered, secured, renamed and       *)
(* dropped later in the same script.                                       *)
(*                                                                         *)
(* pg2sqlite.rs cuts a script into epochs, each ended by a statement that  *)
(* removes or renames a relation, and translates every statement of an     *)
(* epoch against the schema as it stands at the epoch's end.  A secured    *)
(* table's wrapper is written by its CREATE TABLE, hence in the shape the  *)
(* table will have; the ALTERs that follow are redirected to the backing   *)
(* table.  The model writes a script on the server, translates it epoch by *)
(* epoch and applies the result to SQLite.                                 *)
(***************************************************************************)
EXTENDS Naturals, Sequences

CONSTANTS
    Tables,       \* table names
    Declared,     \* columns every CREATE TABLE declares
    Extra,        \* columns an ALTER may add or rename to
    Alterable,    \* columns an ALTER may drop or rename
    MaxScript     \* longest script

VARIABLES
    script,       \* the statements written so far
    history,      \* the server after each prefix of the script
    applied,      \* how many statements have been translated and applied
    replica,      \* [tables, wrappers] of the SQLite file
    outcome       \* "writing", "refused", "applying", "failed" or "done"

epochVars == <<script, history, applied, replica, outcome>>

Statement(do, t, c, d) == [do |-> do, t |-> t, c |-> c, d |-> d]
Simple(do, t) == Statement(do, t, "-", "-")

Statements ==
    {Simple(do, t) : do \in {"CreateTable", "Enable", "Disable", "CreateIndex", "DropTable",
                             "Insert", "Truncate"}, t \in Tables}
    \cup {Statement("AddColumn", t, c, "-") : t \in Tables, c \in Extra}
    \cup {Statement("DropColumn", t, c, "-") : t \in Tables, c \in Alterable}
    \cup {Statement("RenameColumn", t, c, d) : t \in Tables, c \in Alterable, d \in Extra}
    \cup {Statement("RenameTable", t, "-", u) : t \in Tables, u \in Tables}

Put(f, key, value) == [x \in DOMAIN f \cup {key} |-> IF x = key THEN value ELSE f[x]]
Without(f, key) == [x \in DOMAIN f \ {key} |-> f[x]]
Move(f, old, new) == Put(Without(f, old), new, f[old])
Renamed(cols, c, d) == IF c \in cols THEN (cols \ {c}) \cup {d} ELSE cols

----------------------------------------------------------------------------
(* PostgreSQL (external): a schema is a function from names to tables      *)

NewTable == [cols |-> Declared, secured |-> FALSE, indexed |-> FALSE, filled |-> FALSE]

Valid(schema, s) ==
    LET there == s.t \in DOMAIN schema
    IN  CASE s.do = "CreateTable" -> ~there
          [] s.do = "AddColumn" -> there /\ s.c \notin schema[s.t].cols
          [] s.do = "DropColumn" -> there /\ s.c \in schema[s.t].cols
          [] s.do = "RenameColumn" -> there /\ s.c \in schema[s.t].cols /\ s.d \notin schema[s.t].cols
          [] s.do = "RenameTable" -> there /\ s.d \notin DOMAIN schema
          [] OTHER -> there

After(schema, s) ==
    CASE s.do = "CreateTable" -> Put(schema, s.t, NewTable)
      [] s.do = "Enable" -> [schema EXCEPT ![s.t].secured = TRUE]
      [] s.do = "Disable" -> [schema EXCEPT ![s.t].secured = FALSE]
      [] s.do = "CreateIndex" -> [schema EXCEPT ![s.t].indexed = TRUE]
      [] s.do = "Insert" -> [schema EXCEPT ![s.t].filled = TRUE]
      [] s.do = "Truncate" -> [schema EXCEPT ![s.t].filled = FALSE]
      [] s.do = "AddColumn" -> [schema EXCEPT ![s.t].cols = @ \cup {s.c}]
      [] s.do = "DropColumn" -> [schema EXCEPT ![s.t].cols = @ \ {s.c}]
      [] s.do = "RenameColumn" -> [schema EXCEPT ![s.t].cols = Renamed(@, s.c, s.d)]
      [] s.do = "RenameTable" -> Move(schema, s.t, s.d)
      [] s.do = "DropTable" -> Without(schema, s.t)

----------------------------------------------------------------------------
(* Preparing: refusals, epochs and the schema of each statement            *)

\* Names secured anywhere in the script, and pairs renamed anywhere in it.
SecuredNames == {script[i].t : i \in {j \in DOMAIN script : script[j].do = "Enable"}}
RejectRenameOfSecuredTable ==
    \E i \in DOMAIN script : /\ script[i].do = "RenameTable"
                             /\ {script[i].t, script[i].d} \cap SecuredNames # {}

SchemaEndsEpoch(s) == s.do \in {"RenameTable", "DropTable"}

\* The statement that ends i's epoch, one past the script when none does.
Ends(i) == {j \in i..Len(script) : SchemaEndsEpoch(script[j])}
EpochEnd(i) ==
    IF Ends(i) = {} THEN Len(script) + 1 ELSE CHOOSE j \in Ends(i) : \A k \in Ends(i) : j <= k

\* Fault: each statement is translated against the schema before it.
EpochSchemaAsWritten(i) == history[i]

\* history[j] is the server before statement j: the boundary itself is not
\* part of the schema its epoch is translated against.
EpochSchema(i) == history[EpochEnd(i)]

TranslationTableHasRls(i, t) == t \in DOMAIN EpochSchema(i) /\ EpochSchema(i)[t].secured

----------------------------------------------------------------------------
(* Translating statement i and applying what it emits                      *)

\* Tables of the file: a table under its own name, or the one behind a wrapper.
Own(t) == <<"own", t>>
Backing(t) == <<"rls", t>>

\* The relation an ALTER, an index or a TRUNCATE is redirected to.
Target(i, t) == IF TranslationTableHasRls(i, t) THEN Backing(t) ELSE Own(t)

\* SQLite refuses most ALTERs while some view in the file does not resolve.
Resolves(file, t) ==
    Backing(t) \in DOMAIN file.tables /\ file.wrappers[t] \subseteq file.tables[Backing(t)].cols
AllResolve(file) == \A t \in DOMAIN file.wrappers : Resolves(file, t)

Free(t) == Own(t) \notin DOMAIN replica.tables /\ t \notin DOMAIN replica.wrappers

\* The file a statement leaves, in a set that is empty when SQLite answers the
\* statement with an error.
Leaves(guard, file) == {f \in {file} : guard}

\* CREATE TABLE: the table as declared, and for a secured one the backing
\* table with the wrapper in the shape of the epoch's schema.
CreateTable(i, s) ==
    IF TranslationTableHasRls(i, s.t)
    THEN Leaves(Free(s.t) /\ Backing(s.t) \notin DOMAIN replica.tables,
                [tables |-> Put(replica.tables, Backing(s.t), NewTable),
                 wrappers |-> Put(replica.wrappers, s.t, EpochSchema(i)[s.t].cols)])
    ELSE Leaves(Free(s.t), [replica EXCEPT !.tables = Put(@, Own(s.t), NewTable)])

AddColumn(i, s) ==
    LET t == Target(i, s.t)
    IN  IF t \notin DOMAIN replica.tables THEN {}
        ELSE Leaves(s.c \notin replica.tables[t].cols,
                    [replica EXCEPT !.tables[t].cols = @ \cup {s.c}])

\* SQLite tests the whole schema before the change and again after it.
DropColumn(i, s) ==
    LET t == Target(i, s.t)
        file == [replica EXCEPT !.tables[t].cols = @ \ {s.c}]
    IN  IF t \notin DOMAIN replica.tables THEN {}
        ELSE Leaves(s.c \in replica.tables[t].cols /\ AllResolve(replica) /\ AllResolve(file), file)

\* A rename is carried into the views that read the column.
RenameColumn(i, s) ==
    LET t == Target(i, s.t)
    IN  IF t \notin DOMAIN replica.tables THEN {}
        ELSE Leaves(/\ s.c \in replica.tables[t].cols /\ s.d \notin replica.tables[t].cols
                    /\ AllResolve(replica),
                    [tables |-> [replica.tables EXCEPT ![t].cols = Renamed(@, s.c, s.d)],
                     wrappers |-> [w \in DOMAIN replica.wrappers |->
                         IF Backing(w) = t THEN Renamed(replica.wrappers[w], s.c, s.d)
                         ELSE replica.wrappers[w]]])

RenameTable(i, s) ==
    IF Own(s.t) \notin DOMAIN replica.tables THEN {}
    ELSE Leaves(Free(s.d) /\ AllResolve(replica),
                [replica EXCEPT !.tables = Move(@, Own(s.t), Own(s.d))])

\* DROP TABLE keeps the written name whatever stands under it.
DropTable(i, s) ==
    Leaves(Own(s.t) \in DOMAIN replica.tables, [replica EXCEPT !.tables = Without(@, Own(s.t))])

OnTarget(i, s, field, value) ==
    LET t == Target(i, s.t)
    IN  IF t \notin DOMAIN replica.tables THEN {}
        ELSE {[replica EXCEPT !.tables[t][field] = value]}

CreateIndex(i, s) == OnTarget(i, s, "indexed", TRUE)
Truncate(i, s) == OnTarget(i, s, "filled", FALSE)

\* INSERT names the columns the server has at that point, and goes to
\* whatever has the table's name: the wrapper writes the backing table.
Insert(i, s) ==
    LET cols == history[i][s.t].cols
    IN  IF s.t \in DOMAIN replica.wrappers
        THEN IF ~Resolves(replica, s.t) THEN {}
             ELSE Leaves(cols \subseteq replica.wrappers[s.t],
                         [replica EXCEPT !.tables[Backing(s.t)].filled = TRUE])
        ELSE IF Own(s.t) \notin DOMAIN replica.tables THEN {}
        ELSE Leaves(cols \subseteq replica.tables[Own(s.t)].cols,
                    [replica EXCEPT !.tables[Own(s.t)].filled = TRUE])

\* ENABLE and DISABLE are consumed by the schema: nothing is emitted.
Emitted(i, s) ==
    CASE s.do = "CreateTable" -> CreateTable(i, s)
      [] s.do = "AddColumn" -> AddColumn(i, s)
      [] s.do = "DropColumn" -> DropColumn(i, s)
      [] s.do = "RenameColumn" -> RenameColumn(i, s)
      [] s.do = "RenameTable" -> RenameTable(i, s)
      [] s.do = "DropTable" -> DropTable(i, s)
      [] s.do = "CreateIndex" -> CreateIndex(i, s)
      [] s.do = "Truncate" -> Truncate(i, s)
      [] s.do = "Insert" -> Insert(i, s)
      [] s.do \in {"Enable", "Disable"} -> {replica}

----------------------------------------------------------------------------
(* The specification                                                       *)

EpochInit ==
    /\ script = << >> /\ history = << << >> >>
    /\ applied = 0 /\ outcome = "writing"
    /\ replica = [tables |-> << >>, wrappers |-> << >>]

Server == history[Len(history)]

\* The server runs one more statement.
Write(s) ==
    /\ outcome = "writing" /\ Len(script) < MaxScript
    /\ Valid(Server, s)
    /\ script' = Append(script, s)
    /\ history' = Append(history, After(Server, s))
    /\ UNCHANGED <<applied, replica, outcome>>

\* prepare_schema.
Prepare ==
    /\ outcome = "writing" /\ script # << >>
    /\ outcome' = IF RejectRenameOfSecuredTable THEN "refused" ELSE "applying"
    /\ UNCHANGED <<script, history, applied, replica>>

Apply ==
    /\ outcome = "applying" /\ applied < Len(script)
    /\ replica' \in Emitted(applied + 1, script[applied + 1])
    /\ applied' = applied + 1
    /\ outcome' = IF applied + 1 = Len(script) THEN "done" ELSE "applying"
    /\ UNCHANGED <<script, history>>

\* SQLite answers the emitted statement with an error.
Fail ==
    /\ outcome = "applying" /\ applied < Len(script)
    /\ Emitted(applied + 1, script[applied + 1]) = {}
    /\ outcome' = "failed"
    /\ UNCHANGED <<script, history, applied, replica>>

EpochNext == (\E s \in Statements : Write(s)) \/ Prepare \/ Apply \/ Fail
EpochSpec == EpochInit /\ [][EpochNext]_epochVars

----------------------------------------------------------------------------
(* What holds of a script that settles its secured tables in one epoch     *)

Wrapped(i, t) == TranslationTableHasRls(i, t)
ColumnChange(s) == s.do \in {"AddColumn", "DropColumn", "RenameColumn"}

\* The last creation of the table a statement names.
Made(i) == {j \in 1..i : script[j].do = "CreateTable" /\ script[j].t = script[i].t}
Creation(i) == IF Made(i) = {} THEN i ELSE CHOOSE j \in Made(i) : \A k \in Made(i) : k <= j

\* A script decides row security, and the columns of its secured tables, in
\* the epoch that creates them; fills them when their columns are final; never
\* renames a column of a secured table or drops one; and removes or renames
\* nothing while a secured table still waits for a column.
Orderly ==
    \A i \in DOMAIN script :
        LET s == script[i]
            later == (i + 1)..(EpochEnd(i) - 1)
            waits == {j \in later : /\ script[j].do = "AddColumn" /\ Wrapped(j, script[j].t)
                                    /\ Creation(j) < i}
        IN  /\ Wrapped(i, s.t) = Wrapped(Creation(i), s.t)
            /\ Wrapped(i, s.t) =>
                 /\ s.do \notin {"RenameColumn", "DropTable"}
                 /\ ColumnChange(s) => EpochEnd(i) = EpochEnd(Creation(i))
                 /\ s.do = "Insert" => \A j \in later : script[j].t = s.t => ~ColumnChange(script[j])
            /\ s.do \in {"DropColumn", "RenameColumn", "RenameTable"} => waits = {}

\* What the replica shows under a table's name, and what holds its rows.
Shown(t) == IF t \in DOMAIN replica.wrappers THEN replica.wrappers[t]
            ELSE replica.tables[Own(t)].cols
Holder(t) == IF t \in DOMAIN replica.wrappers THEN Backing(t) ELSE Own(t)
Present == {t \in Tables : ~Free(t)}

\* An orderly script that is accepted applies to the end and leaves what the
\* server has: the same tables under the same names with the same columns, the
\* same indexes and rows, and a wrapper exactly where the server has row
\* security, though every wrapper was written before the ALTERs that shaped
\* its table (pg2sqlite.rs: prepare_schema; statement.rs: translate_alter_table).
OrderlyScriptIsReproduced ==
    /\ outcome = "failed" => ~Orderly
    /\ outcome = "done" /\ Orderly =>
        /\ Present = DOMAIN Server
        /\ \A t \in DOMAIN Server :
            /\ Shown(t) = Server[t].cols
            /\ replica.tables[Holder(t)].cols = Server[t].cols
            /\ replica.tables[Holder(t)].indexed = Server[t].indexed
            /\ replica.tables[Holder(t)].filled = Server[t].filled
            /\ (t \in DOMAIN replica.wrappers) = Server[t].secured
=============================================================================
