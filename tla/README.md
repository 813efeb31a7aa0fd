# Verification of pg2sqlite

pg2sqlite translates a batch of PostgreSQL statements into a SQLite script, and
SQLite DML back. It is sequential code and keeps no state between calls; what is
hard about it is that it *predicts*: it walks a batch once and decides, before
anything has run, what two database engines will do with it. Which statements
survive the batch's own transactions? Which names will be taken? What must a
later connection run again to get its `TEMP` objects back? And the objects it
emits (views, guards, sync triggers, audit tables) run later, one firing
another, and must together behave like one table of the server. Those
predictions are state machines and functions over statements of any length and
order, and they are what this project models, checks with TLC and proves with
TLAPS.

Paths below are relative to the repository, `src/` being its root in
`PROJECT.json`.

## The system

| Component | State it keeps | Operations | Interacts with |
|---|---|---|---|
| Transaction blocks (`src/impls/transaction_blocks.rs`) | one flag: a block is open | `analyse`: translate, drop as a no-op, refuse | its dispositions drive the statement translator and the outline |
| Transaction outline (`src/history/transactions.rs`) | outcomes, transaction numbers, savepoint frames, pending statements | `Outline::new` | trusts `analyse`; read by the connection program |
| Transaction translation (`src/impls/translator_impls/statement.rs`) | none | `translate_start_transaction`, `translate_commit`, `translate_rollback`, savepoints as they are | its output runs on SQLite |
| Connection catalog (`src/history/effects.rs`) | objects ever created, names bound to them | `Catalog::apply`, one arm per statement kind | gives each unit's touches, reads and persistent write |
| Connection program (`src/history/mod.rs`) | needed objects, retained units | `connection_program`, `retention`, `replay`, `fresh_forms` | outline, catalog, placement, rebinding |
| Rebinding (`src/history/rebind/`) | edits of one statement | `rebind`, `rebind_trigger_body` | the schema of an epoch and the final one |
| Placement (`src/history/placement.rs`) | home of each name: temp, attached, main | `place`, `homes`, `unit_files`, `is_connection_local` | filters the replay; qualifies statements |
| Initialization plan (`src/initialization.rs`, `src/script.rs`) | per step forms | `select` | fresh-file forms |
| Emitted namespace (`src/impls/emitted_namespace.rs`) | names taken, with what they hang off | `Namespaces::apply`, `seed` | the last gate before a script is returned |
| Driver (`src/pg2sqlite.rs`) | epochs of the schema | `prepare_schema`, `translate_prepared` | everything above |
| Row security (`rls.rs`) | none; emits a backing table, a view, guards, monitors | one generator per object | inserts, upserts, `RETURNING` |
| Full-text and vector indexes (`create_index.rs`, `vector.rs`) | none; emit shadow tables and sync triggers | one generator per object | every later write |
| Triggers and PL/pgSQL (`create_trigger.rs`, `plpgsql/`) | variable bindings, guards of a body | `translate_statement`, maintenance triggers | DML translators |
| Keys, inserts, upserts (`insert.rs`, `column.rs`, `table_constraint.rs`) | none; SQLite keeps the counters | translation both ways | stored values |
| Expressions, functions, arrays, queries, CTEs, temporal helpers, minor units, COPY | none | rewriting both ways | |
| Reverse translator (`reverse_translator_impls/`) | none | SQLite DML to PostgreSQL | row security |
| Options, manifest, warnings, errors | none | values | |

There is no concurrency inside the library. The interleavings are the ones a
batch writes down (BEGIN, SAVEPOINT, DDL, DML, DROP, RENAME in any order), the
triggers the emitted objects fire, and the lives of the files: the connection
that initializes them, one that comes later, and one that finds a file gone.

What makes each part correct:

- *outline*: the statements it calls committed are the ones the server keeps;
- *translation*: the emitted transaction statements never fail and keep the
  same statements on SQLite;
- *retention*: what it returns is enough, and no more than enough;
- *connection program*: a later connection ends up with the `TEMP` objects, and
  their rows, that the batch left, and the file is not written again;
- *plan*: one lost file is restored without touching the other;
- *namespace*: a script it accepts applies; a script it refuses would not have;
  no source object is lost under a folded name;
- *driver*: an accepted script applies to the end and leaves the server's schema;
- *row security*: writes through the view leave the rows the server leaves;
- *indexes*: a shadow table holds what its table holds, after any writes;
- *rewriting*: what an emitted form answers is what the source answers, on every
  row, and a form that cannot is refused.

## Modules

| Module | Models | Depends on |
|---|---|---|
| `ServerTransactions` | abstract: PostgreSQL's transactions (external) | |
| `TransactionOutline` | `analyse` and `Outline::new` reading one statement at a time | instance of `ServerTransactions` |
| `ReplicaTransactions` | the emitted transaction statements on SQLite | `TransactionOutline` |
| `Retention` | the loop of `retention`, one unit at a time | |
| `SqliteConnection` | a SQLite connection (external) | |
| `ConnectionCatalog` | `effects.rs` | |
| `ConnectionReplay` | a batch, `connection_program`, and a new connection running it | `SqliteConnection`, `ConnectionCatalog` |
| `FreshFiles` | placement over two files, `fresh_forms`, the plan, a lost file | |
| `EmittedNamespace` | the walk, the server's and SQLite's namespaces | |
| `ScriptEpochs` | the driver's epochs and what `ALTER`, `DROP`, `RENAME` become | |
| `RowSecurity` | the objects `rls.rs` emits, running | instances of `RowLoop` |
| `SyncedIndexes` | FTS5 and vec0 shadow tables and their triggers | |
| `KeyedWrites` | keys, counters, constraints and upserts, both directions | |
| `PolicyReferences` | references in policy predicates | |
| `TriggerBody`, `RowTriggers` | PL/pgSQL bodies; before-row triggers | |
| `MinorUnits`, `TemporalArithmetic` | scaled decimals; dates, zones, intervals | |
| `ScalarCalls`, `ArrayCalls`, `FunctionNames` | calls, arrays, names | `ArrayCalls` extends `ScalarCalls` |
| `QueryShapes`, `CteNames`, `ColumnRebinding` | queries, CTE names, columns of a replay | |
| `CopyPayload`, `StoredValues` | COPY payloads; values into columns | |
| `ReverseStatements` | the outer pass of the reverse translator | |
| `RowLoop` | SQLite's `FOR EACH ROW` loop (external), instantiated by `RowSecurity` for its four loops | |
| `TransactionProofs`, `RetentionProofs`, `EmittedNamespaceProofs`, `ScriptEpochsProofs`, `RowLoopProofs`, `RowSecurityProofs` (with `PolicyReferences`), `SyncedIndexesProofs`, `KeyedWritesProofs` | theorems | |
| `MC*` | values of constants for TLC | |

Operators whose comment starts with `Fault:` are plausible mistakes in the
definition that follows them. Replacing the definition by its fault must break
the property `PROJECT.json` lists under `mutants`; they are part of no
specification.

### TransactionOutline and ServerTransactions

One step reads one source statement with both passes. `refused` and `blockOpen`
are the result and the flag of `analyse`; `outcomes`, `transactions`, `frames`,
`pending`, `openTx`, `nextTx` are the locals of `Outline::new` (positions count
from 1). An outcome of a statement that is pending stands as `"Committed"`, as
in the code, until the block ends; `Outcome` applies the code's last loop.
Statements are abstracted to what the passes tell apart. Identifiers are a text
and a quoting flag, because `same_name` depends on both.

`ServerTransactions` is what the server promises: sets of statements whose
effects are visible (`working`) and durable (`durable`), and a stack of
savepoints with what each of them saw. The refinement mapping turns `frames`
and `pending` into that stack (`FrameMarks`). `Misnamed` says whether the batch
may RELEASE or ROLLBACK TO a savepoint that does not exist: the server answers
with an error, the passes let it through, so the refinement is stated for
batches that do not. A refinement says that each step is *some* step of the
server; a ROLLBACK TO that picked the wrong savepoint would still be one.
`StatementByStatement` therefore adds that each action of the outline is the
server's action for the same statement.

### ReplicaTransactions

Adds the SQLite engine the emitted statements run on. The engine compares
savepoint names without case. `saw` records the effects each statement ran on.
The refusals of `translate_start_transaction` and `translate_commit` (READ
ONLY, TRY and CATCH) end the translation without changing any state and are
left out.

### Retention

The `while` and `for` loops with a program counter. Inputs are chosen in the
initial state, all of them.

### ConnectionCatalog, SqliteConnection, ConnectionReplay

A unit is the sequence of SQLite statements one source statement became. The
batch grows by one committed unit per step; the initializing connection (`live`)
executes it and `catalog` applies it, so after n units each is where its loop is
after n iterations. `Connect` computes the program (`Retained`, `Refused`,
`ReplayUnit`, with `Home`/`IsConnectionLocal` for placement and `Rebound` for
rebinding) and runs it on a new connection to the file as the batch left it.

Rows are provenance: a `TEMP` table's content is the sequence of writes made to
it, each with the content of every relation it read. Two contents are equal
exactly when the same writes ran on the same rows. The content of a stored
table is one opaque value: the promise of a replay is about the file as it is,
not as it was when the batch ran.

Left out: columns (`ColumnRebinding`); attached files (`FreshFiles`); errors of
`ReplaySchema::apply`; `RowWrite::Untracked` (a write whose target the parser
gives no name, always refused when retained); triggers that touch stored tables
only, which the file keeps; names first used for a stored table and then for a
`TEMP` one; `IF NOT EXISTS` on views. Undone and control units have no effects
and are not appended; `SurvivorsSawSurvivors` is what makes that sound.

### EmittedNamespace

`server` is the source database, which decides what the batch may say; `walk`
is `struct Namespaces`; `replica` is SQLite executing the emitted statements.
One step is one source statement with all it becomes. Names are a schema and a
text; the walk and SQLite see only the lower-cased text. `skipped` marks a
`CREATE ... IF NOT EXISTS` that SQLite passed over because an unrelated object
held the name. `NextBatch` re-seeds the walk from the schema, as a translation
with an initial schema does; the seed itself cannot collide, which is the first
conjunct of `ReplicaHoldsServer`. Drops are of objects that exist, `IF NOT
EXISTS` is used for names the server does not hold, and `temp` and attached
schemas are left out. The batch has no length bound; the state space is finite
because names are.

### FreshFiles

A script whose listed tables live in an attached file grows one statement at a
time, as long as the server accepts it. `Initialize` runs it on two new files;
`Lose` throws one file and the connection away and runs the plan's selection for
that file on what is left. A row is the statement that wrote it. Rebinding of
names, generated objects (backing tables, FTS tables, guards), temporary tables
and triggers are in. Undone units, foreign keys across files, renames of listed
tables (refused) and failures of `ReplaySchema` are not, nor are triggers of one
file that write the other (see the findings).

### ScriptEpochs

`script` grows on the server; `Prepare` cuts it into epochs and translates each
statement against the schema at the end of its epoch; `Apply` runs the result.
Columns are a set, rows a flag, since what can go wrong is which object a
statement reaches. `Orderly` says which scripts the property is about: row
security, and the columns of a secured table, are settled in the epoch that
creates it, and nothing is renamed or removed under it. Views, the dropping of
indexed columns and seeded rows a policy hides are left out. `Declared` are the
columns of a CREATE TABLE, `Extra` those an ALTER may add or rename to, `Alterable`
those it may drop or rename, `MaxScript` the longest script. The property is also proved.

### RowSecurity and PolicyReferences

`server` has the rows the server keeps; `replica` the backing table; `audit` and
`unseen` the rows monitored and the rows that really are out of sight; rows are
numbered up to `Capacity`, the order in which a trigger is fired for them. Each
action is a statement of the application with every trigger it fires: the
`INSTEAD OF` trigger, the guard of the backing table, the monitors. A row has a
nullable column, which may have a default, constant or volatile, and a column
generated from it; a predicate is `true` or compares one of them.

Every statement is issued, those on which the two sides part included. `stray`
says in what way the last one did: `"blind"`, it reached a row its role may not
read (an unqualified write, a write of an exempt session, a conflict with a row
out of sight); `"unread"`, the server refuses it because the row it leaves could
not be read back, while the replica, which judges writes by the policies of
their own command, keeps that row and audits it (`rls.rs:2816-2819`);
`"ungranted"`, the role has no privilege to write. `RowSecurityAgrees` says what
each of the three can do and no more; a behaviour is followed up to its first
stray statement. Left out: policies without a predicate; an explicit NULL into a
column with a default; UPDATE of a generated column; a volatile default read
only through a generated column; the exemption of maintenance triggers; RETURNING
of an UPDATE or through the view; value-dependent SET on tables without a primary
key.

`PolicyReferences` rewrites a predicate for the view and for NEW and OLD and
asks of every reference which row it reads, at the top level and one subquery
deep. The subquery may give its tables aliases and may read the policy's own
table: that is refused for the view (`RejectSelfReferentialReadPolicy`) and kept
for the triggers. `CapturedByHost` names the reference the rewriting gets wrong, one
qualified by the policy's table inside a subquery that has a table of that name:
it becomes NEW or OLD, and the property says exactly that.

### SyncedIndexes

Statements on a table with a text and a vector column, before and after a GIN
index is made. A document is its set of words, the index a set of postings; the
FTS5 `delete` command removes the postings of the document it is *told* the row
had. SQLite fires triggers of one event newest first. `Overlapping` says whether
an UPDATE may keep a word of a partially indexed row.

### KeyedWrites

One table with a key declared in the ways `column.rs` tells apart, an integer
column with at most one default, constraints and indexes, and a parent for a
foreign key. The server and the replica keep rows and counters; a statement
refused runs on neither side. Reversed `INSERT OR REPLACE` runs on the replica
and, reversed, on the server. `Expressible` says which statements the property
is about: a plain key is always given and no key is beyond the integer type where
the server generates it; a conflict clause assigns no key; a MATCH FULL foreign
key meets no conflict clause; a constraint is called by the name it has; a
REPLACE writes no key the server always generates and meets no partial index.
Each of these leaves out an input of the findings below, not a branch of the
translator.

### The rewriting modules

A rewriting has no state, so each of these modules has one variable, the input
being looked at, and one action that picks it from its alphabet; the property
compares the two evaluations, with the servers' and SQLite's evaluators written
side by side (external in the map) and the emitted form built by operators named
after the functions that build it. `MCTranslations` puts most of them in one run,
one component moving at a time; the ones about names and `ReverseStatements` run
beside the namespaces in `MCNames`, and `StoredValues`, `CopyPayload` and
`MinorUnits` beside the keyed writes in `MCKeyedWrites`.

- `TriggerBody` runs a body and the straight-line form on one row. Variables are
  pasted as text, an IF becomes a guard per statement.
- `RowTriggers` applies one INSERT or UPDATE, with `recursive_triggers` on and
  off, the trigger's own WHEN and the recursion guard of the UPDATE half; a chain
  of firings past `MaxTriggerDepth` fails the statement, as SQLite's limit does.
  Values count modulo `Base`. Where the guard takes a user's UPDATE for the
  trigger's own (`LooksMaintained`) the property says that the row is stored as
  written; `FiresUnguarded` is a finding.
- `MinorUnits` evaluates exactly and on the stored integers.
- `TemporalArithmetic` has a civil calendar, clamped months, zones and interval
  texts; a day has `DayTicks` ticks and a second `SecondTicks`, so that a text
  with and one without `'subsec'` differ. Fractions below a millisecond are left
  out. `ZonesDropFractions` says where a fraction is lost: AT TIME ZONE emits
  `datetime()`, as the repository records (`tests/gauntlet/parity_datetime.rs:49-68`).
- `ScalarCalls` and `ArrayCalls` evaluate expression trees over rows with NULLs,
  empty texts and arrays, negative and overlong positions. `ReadCount` counts
  how often a volatile operand is read. `MeansOther` (calls passed back whose
  meaning differs), `NullInTheWay` and `Departure` (arrays) name the inputs on
  which the answers differ; the array properties say what is answered instead.
- `QueryShapes` runs queries over small tables: DISTINCT ON and its restoration,
  grouping sets, NULL ordering, pages, set operations.
- `FunctionNames` resolves a written name under options and session variables,
  session reads with a schema or capitals of their own included.
- `CopyPayload` decodes character by character what was built from fields.
- `StoredValues` follows a value down each of the four write paths. A bound
  number is rounded in floating point, so its cell is a set of outcomes;
  `Tolerated` lists what may be stored instead of the server's value.
- `ReverseStatements` guards backing tables, numbers placeholders, qualifies
  columns of DO UPDATE. A name of the target row left bare (`LeftBare`) is
  ambiguous to the server, and the property says so.
- `CteNames` resolves names as either engine does, before and after renaming.
- `ColumnRebinding` resolves a statement on the epoch's schema, and its rebound
  form on the final one, to identities of columns.

## Runs

| Run | Shows | Bounds |
|---|---|---|
| `replica_transactions` | the passes implement the server, statement by statement; the emitted statements run and SQLite keeps what the outline says | 7 statements, three names of which no two quoted ones differ in case only. Seven reach a savepoint inside a savepoint of the same name, a rollback to it, a statement and a chained end |
| `retention` | the loop ends with the least closed set | all inputs of 3 units and 2 objects: enough for a drop that becomes needed behind the sweep |
| `replay` | `TEMP` objects and rows come back, in the batch's transactions; the file is not written | five alphabets, up to 5 or 6 units each: tables and indexes; views; triggers; renames; source transactions |
| `names` | accepted scripts apply, refused ones would not, nothing is lost; policy references, function names, CTEs, replayed and reversed statements keep their meaning | two schemas, four texts of which two differ in case, batches of any length; the alphabets of `MCNames`, one step each |
| `fresh_files` | a lost file comes back and the other one is left alone | five alphabets, 6 statements: a view over both files, a table dropped, a rename and a write fit |
| `script_epochs` | orderly scripts are reproduced | two tables, 6 statements: create, secure, alter, fill, rename, create again |
| `row_security` | the view behaves like the server's table, or parts from it within the bounds of `stray`; the audit is exact | two rows; every pair of policies of each command and kind beside one that reads all, and every combination of options for four sets of policies; statements of any number |
| `synced_indexes` | both shadow tables are exact | two keys, words and vectors; statements of any number |
| `keyed_writes` | rows and counters agree; values are stored and COPY payloads loaded alike; minor units are exact | 43 declarations of which 33 are accepted, 3 writes, keys up to 4: a key generated, deleted and generated again, then met by an upsert; every type at its boundaries on every path |
| `translations` | each rewriting keeps the meaning | one step; the alphabets of `MCTranslations`, each chosen to reach every branch of its module |
| `partial_index` | violation, finding 1 | as `synced_indexes`, with `Overlapping` |
| `compound_operands` | violation, finding 2 | set operations nested on the right |

Deadlock is not checked: a batch may end anywhere, and every bound ends it.

The alphabets of `replay` and of `fresh_files` are separate because each one
alone already reaches the interaction it is for (a replaced view read by a
`CREATE TABLE AS`; a trigger firing a trigger on a table that is dropped later;
a stored table renamed between two reads) within six units; their union at that
depth is out of reach.

Fairness appears once, in `RetentionSpec`: weak fairness of the loop's next
step, since it is sequential code that nothing suspends. Nothing else in the
library waits; all other properties are safety properties.

## Findings

With a run:

1. `partial_index`. With an index predicate the UPDATE trigger is split in two,
   and SQLite fires the one created last, the insert, first: words the old and
   the new document share are removed after they were added
   (`create_index.rs:351-374`, against the comment at 262-270).
2. `compound_operands`. `unparenthesize_compound_operand` (`shared_helpers.rs`,
   3627) takes the parentheses off an operand that is a set operation, and
   SQLite groups set operations to the left with one precedence.

The rest were met while modelling and have no run of their own. Each is an input
that the property describes with what happens to it, or that an alphabet or a
named condition leaves out of the passing runs. Those that change data silently
come first in each group.

*Transactions and replay.* Savepoint names are passed through
(`statement.rs:1838`), and SQLite does not tell `"a"` from `"A"`. RELEASE and
ROLLBACK TO of an unknown savepoint pass `analyse` and fail on SQLite. A `TEMP`
table renamed and then dropped comes back (`placement.rs:83`: its last name has
no home). A view over a renamed `TEMP` table no longer leads retention to it
(`effects.rs:294`), and a trigger keeps the old name of its stored table. A name
used for a `TEMP` and then for a stored table is a main-file name for the whole
batch. A trigger of the main file that writes an attached table writes it again
when the main file alone is initialized (`placement.rs:190-196`).

*Rebinding.* `SELECT *, extra` under Keep replaces the whole projection by the
expansion and loses `extra` (`rebind/edits.rs:50`, `query.rs:408`). A statement
that names nothing renamed is left bare (`edits.rs:42-44`) and can be captured by
a column renamed to its bare name; so can a bare reference to a view or derived
column. `t.*` under Keep, USING columns and wildcards over views are left as
written.

*Namespace and epochs.* `DROP VIEW IF EXISTS`, emitted for `CREATE OR REPLACE
VIEW`, frees the name of a *table* in the walk; the walk does not follow
transaction control, so a DROP that is rolled back leaves its name free. A table
secured in a later epoch than its creation gets no wrapper (`pg2sqlite.rs:654`,
against `statement.rs:2121`); RENAME COLUMN, DROP then ADD, a seed INSERT between
CREATE and ALTER, and DROP TABLE of a secured table fail when applied; ADD COLUMN
in a later epoch misses the wrapper.

*Row security.* An UPDATE with a WHERE clause, an upsert and an INSERT with
RETURNING that leave a row their role may not read are refused by the server; the
replica keeps the row and audits it (`rls.rs:2816-2819`), which `README.md:67`
does not list. An unqualified UPDATE or DELETE also diverges when a row is
*writable* and not readable, where that line names only the other case, and so
does an upsert that meets a hidden row. A role with no privilege to write gets no
INSTEAD OF triggers, but a redirected INSERT reaches its backing table unguarded
when there is no exemption function (`rls.rs:2600-2602`). A write policy whose
subquery reads its own table and qualifies by it has the inner reference turned
into NEW or OLD (`rls.rs:1638-1645`, 1826-1841), and so has an alias spelled like
the table. A
volatile default read by an INSERT policy through a generated column alone is not
refused (`rls.rs:623-640`).

*Indexes.* `is_integer_pk` accepts any type whose name contains INT; two GIN
indexes of one table share one shadow table; DROP INDEX of a full-text index
fails; a search ignores the index predicate; renaming the table breaks its FTS
triggers.

*Triggers.* Variables are pasted as text, so a reassigned variable
(`v := v + 1`) reads itself late; guards are evaluated again before each
statement of a branch; a NULL condition loses its ELSE; branches that do not
assign alike leave the binding of one of them (`translator.rs:426-471`); RETURN
NEW before the end is ignored. The recursion guard of a maintenance trigger
compares with what OLD would maintain (`create_trigger.rs:323-360`) and can
suppress a needed update. It compares every assignment, so a column assigned
twice always differs from one: a trigger of both events maintains an INSERT
twice, and with `recursive_triggers` on, as the repository's tests set it
(`tests/helpers/mod.rs:245-261`), the UPDATE half fires itself until SQLite fails
the statement. An UPDATE of the integer key misses (`OLD.rowid`).

*Keys.* An omitted plain INTEGER PRIMARY KEY is assigned by SQLite; generated
keys get no range CHECK; DO UPDATE SET of a generated key is not refused; a key
constraint with INCLUDE is not folded, so keys of deleted rows come back; MATCH
FULL as a CHECK fires before ON CONFLICT can skip the row; `INSERT OR IGNORE`
reversed skips NOT NULL errors the server raises.

*Values and calls.* UPDATE, DO UPDATE and DEFAULT of a text uuid, and a bound
one, are kept as spelled (`shared_helpers.rs:1152` against 1340). A bound number
at a half of the column's last place can be stored one unit short
(`shared_helpers.rs:1297-1300`). A tuple assignment skips the temporal
cast. AT TIME ZONE drops the fraction of a second. A zoneless timestamp into a date column is stored whole. `integer + scaled
column` is added without a common scale (`expr.rs:1984`); `price * 0.5` is emitted
at one scale and inferred at another. `x op ALL` of a NULL array or of a subquery
with a NULL is emitted TRUE; `@>` with NULL elements differs. `array || element`
answers NULL, not `{NULL}`, when both are NULL (`expr.rs:2822-2836`), and a bare
NULL literal beside an array is appended where the server reads it as a NULL
array. `array_to_string` with a NULL separator joins with nothing where the
server answers NULL. The column of `json_object_keys(...) AS e` keeps the
function's name (`array.rs:1054-1059`). Reversed, `quote` of a number gains
quotes and `substr` from a start below 1, or with a negative length, is passed
on to a function that counts otherwise (`reverse_translator_impls/function.rs:53-64`). Under a
cast or in a membership test a session read is known by the last part of its
name, so `other.current_setting('s')::int` becomes the paired call
(`session_variable.rs:41-46`). OVERLAY, concat_ws,
boolean casts and floor duplicate a volatile operand. `total(x) FILTER` reversed
loses its clause. `pg_catalog.abs(x)` keeps its prefix and fails. Half
microseconds round away from zero where the server rounds to even
(`interval.rs:125-133`); `time + INTERVAL` emits `datetime()`; a DATE compared
with `date_trunc()` is not promoted. A grouping set `()` with no aggregate and
DISTINCT ON with an unprojected ORDER BY term differ.

*COPY, CTEs, reverse.* A header line that is not text is refused though the
server skips it. Two CTEs that differ in case only and are never referenced are
refused by SQLite. A write under WITH whose target has the name of a CTE is read
as shadowed (`reverse_translator_impls/statement.rs:184`). A correlated bare
column inside a subquery of DO UPDATE, and a delimited column called `default`,
are left unqualified (`ident_quoting.rs:120`, 149-152) and the server refuses
them as ambiguous.

## Proofs

*Outline* (`TransactionProofs`). For batches of any length, any set of
identifiers and any case folding that is idempotent (`NamesAssumption`):

- `OutlineInvariant`: `OutlineInv` always holds. `PassesAgree` and `FramesNest`
  are not inductive together: ROLLBACK TO cuts `pending` at the start of a named
  frame and must leave the block's own frame, so the proof needs that the first
  frame, and no other, is unnamed. `PendingIsTheBlock` adds that, and that
  `pending` is increasing and visible. The proof has one lemma per action.
- `PassesAlwaysAgree`, `FramesAlwaysNest`, `PendingAlwaysTheBlock`,
  `OutlineTypeCorrect` follow.
- `OutlineImplementsServer`: if the batch names only savepoints that exist, the
  specification implements `ServerTransactions`. The argument: visible
  statements are the committed ones plus the pending ones (`VisibleSplit`),
  `same_name` is equality of folded names (`SameNameIsFold`), hence a name picks
  the same savepoint on both sides (`InnermostMark`), and what a frame's start
  stands for does not change while `pending` grows or is cut at or after it
  (`MarksPrefix`). A refusal is a stuttering step; every other action is one
  server step.
- `OutlineReadsTheStatement`: under the same hypothesis, it is the step of the
  same statement, with the same name and the same AND CHAIN.

*Retention* (`RetentionProofs`). For any number of units and any objects,
`RetentionInv` is inductive: what is needed is exactly what the kept units need,
a sweep that has added nothing has nothing to add behind it, and every kept unit
is in every closed set. `RetentionClosed` and `RetentionLeast` follow: the loop
returns the least closed set.

*Shadow tables* (`SyncedIndexesProofs`). For any keys, words and vectors and any
number of statements: `VectorIndexAlwaysExact`, and, if no UPDATE keeps a word of
a partially indexed row (`~Overlapping`, the condition finding 1 shows to be
needed), `FullTextIndexAlwaysExact`. Both invariants are inductive with
`SyncTypeOK` once stated pair by pair (`PostingsExact`, `VectorsExact`): a key
that moves was free before, so what a trigger removes and what it adds never
meet, except in the split triggers, where the added and the removed words must be
disjoint. The type invariant is needed because a document's words must be words.

*Emitted transactions* (`TransactionProofs`). For batches of any length
that name savepoints that exist (`~Misnamed`), by names of which no two that the
server tells apart fold to one (`OneSpelling`; the finding on savepoint names
shows that both are needed, and `replica_transactions` evaluates them for its
names). `ReplicaInv` ties the engine to the outline: its block is open when the
outline's is, its rows and its file are the visible and the committed statements,
its savepoints are the named frames, one for one, each with the rows that
`pending` had then, the open block comes after all that is committed and under a
transaction number of its own, and a visible statement saw the visible ones
before it. The outline's invariant is part of it,
since a savepoint's rows are only determined while frames nest. `EmittedBatchesRun`,
`ReplicasAgree` and `SurvivorsStandAlone` follow. The last is what lets
`ConnectionReplay` append committed units only.

*Namespace* (`EmittedNamespaceProofs`). For any schemas and texts, any function
that folds texts to texts (`LowerAssumption`) and scripts of any length. The
properties are about what happened to the whole script; `NamespaceInv` is what
makes them inductive: until the walk refuses, the three parties are in step.
Nothing failed or was passed over, the walk's map from names to owners is the
replica's, every name of the source folds to a name of its own there, of its
kind, and what hangs off a table on the source (its indexes and triggers) hangs
off the folded table. A DROP then removes the same names on all three, which is
where a walk that forgot dependents would come apart. `AcceptedScriptsApply`, `RefusalsAreNeeded`, `ReplicasHoldServer`.

*Epochs* (`ScriptEpochsProofs`). For any tables and columns and scripts of any
length, with no assumption on the constants, `ScriptsAreReproduced`: an orderly
script runs to its end on the replica and leaves what it left on the server. The
property is about the end of the run. What holds at each statement is `EpochInv`:
the server's history is what the statements make of each other, nothing was
refused, and the replica after n statements is in step with the server before
statement n + 1 (`InStep`), name by name. The step is not equality: a name is
absent from both, or a plain table with the server's columns and rows, or a
secured one with a backing table. A wrapper is built when its table is created, in
the shape the schema has at the *end* of that epoch, so that for some statements
it has columns the table does not have yet. `Born` ties a secured name to the
statement that created it, `WrapperIs` its wrapper to that epoch's end, `LateCols`
shows that an orderly script does not move the columns of a wrapped table
afterwards, and `WrapperCovered` that SQLite resolves every view at the moments it
checks them (after a DROP COLUMN or a RENAME). One lemma per kind of statement
shows that what it is translated to runs and keeps the step; `EndReproduces` reads
the property off the last one. Inductions over positions of the script go by the
least counterexample, for the reason given next.

*Row security* (`RowSecurityProofs`, `RowLoopProofs`). For tables of any size,
any set of policies that CREATE POLICY accepts, every role and option, and any
number of statements. `ConfigsAssumption` has the one exclusion: a volatile
default that an INSERT policy reads only through a generated column, which
`build_write_guard` (`rls.rs:623-640`) does not notice because it looks for the
column's own name, so that the guard and the stored row draw the default twice.
The steps:

- `CombinedMeans`, `ClauseAgrees`, `GuardsAgree`: the predicate the code combines,
  with its shortcuts for deny-all and always-true policies, is true of a row
  exactly when PostgreSQL's rule (some permissive policy and every restrictive
  one) allows it, NULLs included.
- `LoopKeeps`: a relation between the rows passed so far and the run so far that
  every firing keeps holds at the end. The induction is over row numbers, by the
  least counterexample; the relation is a set of pairs, because no installed
  prover instantiates an operator parameter. Each loop of `RowSecurity` is an
  instance, the forwarding write inside a trigger included.
- `UpdateLoop`, `DeleteLoop`: what the loop over the view's rows leaves, whether
  or not the statement also reaches rows out of sight on the server: the rows
  both sides address are written alike, the others differ out of sight only.
  Without primary key a trigger reaches every row that equals the old one; that
  the statement would reach those too is part of the loop's relation.
- `RowInv`: until a statement strays, server and replica hold the same rows, and
  the audit rows and the unreadable written ones are the same set for a table
  with a key; after a stray one, they differ as its kind allows and no more. One
  lemma per action, `FinishKeeps` for what they share.

`RowSecurityHolds` and `AuditHolds` follow, for every statement of the model.
`ReferencesHold` is a case analysis over the forms a reference can have, for any
tables, columns and aliases, self-referential write policies included
(`ReferencesAssumption`: the backing table has the table's columns, and a policy
does not use the names the translator makes, the backing table's, NEW and OLD).

*Keyed writes* (`KeyedWritesProofs`). For any declarations and any statements of
`WritesAssumption`, any number of them. `KeyedInv`: while nothing is excused both
sides hold the same rows, no key is NULL, too large or used twice, and while the
counters were not moved apart they are equal and no key is above them; so the
greatest rowid is the mark and the next rowid is the sequence's next value
(`NextKeys`), which needs that every accepted table with a generated key is
AUTOINCREMENT (`Autoincrement`). `TargetsAgree` shows that a conflict target and
its translation pick the same indexes, `StoreAgrees` that the CHECK a MATCH FULL
key becomes refuses what the server's foreign key refuses, `ReplaceRuns` that
deleting what collides and updating it in place leave the same row: a key is
used once. `WritesHold` follows.

Assumptions: the named `ASSUME`s of the modules, which the runs evaluate.

Only model-checked, and why:

- termination of retention: liveness is outside the prover;
- `ConnectionReplay`, `FreshFiles`, and the rewriting modules except
  `PolicyReferences`: they evaluate nested syntax or a sequence of statements
  through recursive operators, which the prover cannot use, and what those
  compute is induction over data;
- `FunctionNames` and `StoredValues`: they select from and parse sequences, with
  the same limit.

In the modules that only TLC evaluates, the arms of a CASE are read in order, as
TLC does; in the modules with theorems no two arms that differ are true together,
or the choice is an IF.

## Plan

1. *Done.* Transactions: outline, server, replica; invariants and refinement
   proved.
2. *Done.* Connection catalog, retention (proved), replay, fresh files.
3. *Done.* Emitted namespace and epochs (proved).
4. *Done.* Emitted state machines: row security, synced indexes, keys (proved),
   triggers.
5. *Done.* Rewritings both ways, as operators against the two evaluators.
6. Out of the prover's reach as the modules stand: those listed above as only
   model-checked. They wait for a prover that takes induction over data.

## Not modelled

- Constructors of syntax trees, keyword lists, one-to-one mappings
  (`ast_builder.rs`, `query_builder.rs`, `expr_helpers.rs`, `postgis.rs`, ...):
  what they return is what the modelled callers print.
- Joins, window clauses, format strings, regular expressions, date formatting:
  their translation is structural and their meaning too large for a small
  instance.
- RETURNING scopes, SELECT INTO and UUID sharing in PL/pgSQL bodies, set
  operations in a replay, array and geometry columns, aggregates over scaled
  columns.
- Options, manifest, warnings, errors: values without behaviour. The wording of
  errors and warnings is left out everywhere.
