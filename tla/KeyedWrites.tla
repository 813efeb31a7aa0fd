---------------------------- MODULE KeyedWrites ----------------------------
(* Inserts, upserts, updates and deletes on one table t (id, a, b), written *)
(* for the server and translated for the replica, and the REPLACEs written  *)
(* for the replica and reversed for the server.                             *)
(*                                                                          *)
(* id is the primary key, a an integer with at most one default, b an       *)
(* integer; (a, b) may be a foreign key.  A statement the translator        *)
(* refuses runs on neither side.                                            *)
EXTENDS Integers, FiniteSetsExt

CONSTANTS
    Declarations,       \* the tables the script may declare
    WriteStatements(_), \* the statements written against a declared table
    Parents,            \* the rows <<a, b>> of the referenced table
    MaxKey, MaxWrites   \* bounds: keys of a row, statements of a behaviour

(* What stands where a value is written, beside the integers themselves.   *)
Omitted == -1
Default == -2
Null    == -3
Excluded == -4
Big     == 99           \* an integer PostgreSQL's integer type cannot hold

VARIABLES
    decl,       \* the table: [key, at, nullable, default, unique, name, match]
    serverRows, \* the rows of the server
    sequence,   \* the last value drawn from the server's sequence
    rows,       \* the rows of the replica
    mark,       \* the replica's sqlite_sequence entry
    loose,      \* the two counters were moved apart, as the warning says they may
    excused,    \* a key was generated from counters that were apart
    outcome,    \* what the last statement did on each side
    writes      \* statements so far

keyedVars == <<decl, serverRows, sequence, rows, mark, loose, excused, outcome, writes>>

Generates(d) == d.key \in {"serial", "always", "by_default"}

----------------------------------------------------------------------------
(* Constraints: a unique index is on one column, for the rows its terms    *)
(* select.                                                                 *)

Holds(term, r) == IF term = "b is 1" THEN r.b = 1 ELSE r.a = 1
Selects(terms, r) == \A t \in terms : Holds(t, r)

Index(column, terms) == [on |-> column, terms |-> terms]
Indices(d) == {Index("id", {})} \cup {Index("a", terms) : terms \in d.unique}

Collides(i, r, x) ==
    /\ r[i.on] = x[i.on]
    /\ r[i.on] # Null
    /\ Selects(i.terms, r)
    /\ Selects(i.terms, x)

Mixed(r) == (r.a = Null) # (r.b = Null)
Dangling(r) == r.a # Null /\ r.b # Null /\ <<r.a, r.b>> \notin Parents

----------------------------------------------------------------------------
(* The emitted table                                                       *)

(* A generated key takes its values from the rowid alias, which an INTEGER *)
(* column is only as the whole primary key.                                *)
IsRowidAlias(d) == d.at # "composite"

(* A key constraint that AUTOINCREMENT can follow moves onto its column.   *)
FoldedPrimaryKey(d) == Generates(d) /\ d.at = "table"

(* Fault: AUTOINCREMENT only where the column itself spells PRIMARY KEY.   *)
KeyColumnUnfolded(d) ==
    [autoincrement |-> Generates(d) /\ d.at = "column", bounded |-> ~Generates(d)]

(* The emitted key: counted from the high-water mark or from the greatest  *)
(* key, and bounded by a CHECK unless it is a generated one.               *)
KeyColumn(d) ==
    [autoincrement |-> Generates(d) /\ (d.at = "column" \/ FoldedPrimaryKey(d)),
     bounded |-> ~Generates(d)]

TableRefused(d) ==
    \/ Generates(d) /\ ~IsRowidAlias(d)
    \/ d.match = "partial"

(* The CHECK a MATCH FULL foreign key becomes.                             *)
MatchFullGuard(d, r) == d.match = "full" => ~Mixed(r)

(* What the emitted NOT NULLs and CHECKs refuse.                           *)
BoundChecks(d, r) ==
    \/ r.id = Null
    \/ r.a = Null /\ ~d.nullable
    \/ r.a = Big
    \/ r.id = Big /\ KeyColumn(d).bounded
    \/ ~MatchFullGuard(d, r)

----------------------------------------------------------------------------
(* The two databases: a row is checked, then the conflict clause decides,  *)
(* then uniqueness and the foreign key.                                    *)

Refuses(side, d, r) ==
    IF side = "server" THEN r.id \in {Null, Big} \/ r.a = Big \/ (r.a = Null /\ ~d.nullable)
                       ELSE BoundChecks(d, r)

Orphans(side, d, r) ==
    /\ d.match # "none"
    /\ Dangling(r) \/ (side = "server" /\ d.match = "full" /\ Mixed(r))

Failure(R) == [done |-> FALSE, rows |-> R]
Success(R) == [done |-> TRUE, rows |-> R]

(* Row r in place of the rows Gone of R.                                   *)
Store(side, d, R, Gone, r) ==
    IF \/ Refuses(side, d, r)
       \/ \E i \in Indices(d), x \in R \ Gone : Collides(i, r, x)
       \/ Orphans(side, d, r)
    THEN Failure(R)
    ELSE Success((R \ Gone) \cup {r})

Assigned(d, set, x, r) ==
    [c \in {"id", "a", "b"} |->
        IF c \notin DOMAIN set THEN x[c]
        ELSE IF set[c] = Excluded THEN r[c] ELSE set[c]]

(* The rows in the way of r, by the indexes that arbitrate.                *)
Hits(R, r, arbiters) == {x \in R : \E i \in arbiters : Collides(i, r, x)}

InsertRow(side, d, R, r, arbiters, s) ==
    LET hits == Hits(R, r, arbiters)
        x == CHOOSE x \in hits : TRUE
    IN
    IF Refuses(side, d, r) THEN Failure(R)
    ELSE CASE hits # {} /\ s.action = "nothing" -> Success(R)
           [] hits # {} /\ s.action = "update" -> Store(side, d, R, {x}, Assigned(d, s.set, x, r))
           [] OTHER -> Store(side, d, R, {}, r)

UpdateRow(side, d, R, s) ==
    LET at == {x \in R : x.id = s.row} IN
    IF at = {} THEN Success(R)
    ELSE LET x == CHOOSE x \in at : TRUE IN Store(side, d, R, {x}, Assigned(d, s.set, x, x))

----------------------------------------------------------------------------
(* DEFAULT and generated keys in the statements                            *)

(* The declared default, NULL for a nullable column and for the key.       *)
DefaultExprForColumn(d, column) ==
    IF column = "a" /\ d.default # Omitted THEN d.default ELSE Null

NoDefault(d, column) == column = "a" /\ d.default = Omitted /\ ~d.nullable

RejectExplicitIdentityValues(d, s) ==
    d.key = "always" /\ s.row \notin {Omitted, Default}

RejectGeneratedKeyAssignment(d, set) ==
    /\ "id" \in DOMAIN set
    /\ IF set.id = Default THEN Generates(d) ELSE d.key = "always"

SubstitutedAssignments(d, set) ==
    [c \in DOMAIN set |-> IF set[c] = Default THEN DefaultExprForColumn(d, c) ELSE set[c]]

SubstituteDefaultValues(d, s) ==
    [s EXCEPT !.row = IF @ = Default THEN DefaultExprForColumn(d, "id") ELSE @,
              !.a = IF @ = Default THEN DefaultExprForColumn(d, "a") ELSE @,
              !.b = IF @ = Default THEN DefaultExprForColumn(d, "b") ELSE @]

(* The column list a constraint name stands for: its declared name, or the *)
(* name PostgreSQL would have given it.                                    *)
PostgresConstraintName(i) == IF i.on = "id" THEN "t_pkey" ELSE "t_a_key"
Constraints(d) == {Index("id", {})} \cup {Index("a", terms) : terms \in d.unique \cap {{}}}
Answers(d, i, name) ==
    PostgresConstraintName(i) = name \/ (i.on = "a" /\ d.name # "" /\ d.name = name)

(* The partial unique indexes whose terms all appear in the target.        *)
PartialArbiters(d, target) ==
    {terms \in d.unique \ {{}} : target.on = "a" /\ terms \subseteq target.terms}

(* A target is "none" (no clause), "any" (no target), columns with terms,  *)
(* or a constraint name.                                                   *)
ConflictTarget(d, target) ==
    CASE target.kind = "constraint" ->
            LET named == {i \in Constraints(d) : Answers(d, i, target.name)} IN
            IF named = {} THEN {}
            ELSE {[kind |-> "columns", on |-> (CHOOSE i \in named : TRUE).on, terms |-> {}, name |-> ""]}
      [] target.kind = "columns" /\ target.terms # {} ->
            {[target EXCEPT !.terms = t] :
                t \in {u \in PartialArbiters(d, target) : PartialArbiters(d, target) = {u}}}
      [] OTHER -> {target}

(* What the translator refuses of a statement.                             *)
RefusedInsert(d, s) ==
    \/ RejectExplicitIdentityValues(d, s)
    \/ \E c \in {"a", "b"} : NoDefault(d, c) /\ s[c] = Default
    \/ \E c \in DOMAIN s.set : NoDefault(d, c) /\ s.set[c] = Default
    \/ ConflictTarget(d, s.target) = {}

RefusedUpdate(d, s) ==
    \/ RejectGeneratedKeyAssignment(d, s.set)
    \/ \E c \in DOMAIN s.set : NoDefault(d, c) /\ s.set[c] = Default

TranslateInsert(d, s) ==
    [SubstituteDefaultValues(d, s) EXCEPT
        !.set = SubstitutedAssignments(d, s.set),
        !.target = CHOOSE t \in ConflictTarget(d, s.target) : TRUE]

TranslateUpdate(d, s) == [s EXCEPT !.set = SubstitutedAssignments(d, s.set)]

----------------------------------------------------------------------------
(* A statement on the server                                               *)

(* Every unique index on the columns whose predicate the target implies.   *)
ServerArbiters(d, target) ==
    CASE target.kind = "none" -> {}
      [] target.kind = "any" -> Indices(d)
      [] target.kind = "constraint" ->
            {i \in Constraints(d) : IF i.on = "a" /\ d.name # "" THEN target.name = d.name
                                    ELSE target.name = PostgresConstraintName(i)}
      [] OTHER -> {i \in Indices(d) : i.on = target.on /\ i.terms \subseteq target.terms}

Unresolved(target, arbiters) == target.kind \in {"columns", "constraint"} /\ arbiters = {}

ServerRejects(d, s) ==
    IF s.op = "insert"
    THEN Unresolved(s.target, ServerArbiters(d, s.target)) \/ RejectExplicitIdentityValues(d, s)
    ELSE s.op = "update" /\ d.key = "always" /\ "id" \in DOMAIN s.set /\ s.set.id # Default

Draws(d, s) == s.op = "insert" /\ s.row \in {Omitted, Default} /\ Generates(d)

Given(d, column, v) == IF v \in {Omitted, Default} THEN DefaultExprForColumn(d, column) ELSE v

ServerRow(d, s, next) ==
    [id |-> IF Draws(d, s) THEN next ELSE Given(d, "id", s.row),
     a |-> Given(d, "a", s.a), b |-> Given(d, "b", s.b)]

ServerRun(d, s) ==
    IF ServerRejects(d, s) THEN Failure(serverRows)
    ELSE CASE s.op = "insert" ->
                InsertRow("server", d, serverRows, ServerRow(d, s, sequence + 1),
                          ServerArbiters(d, s.target), [s EXCEPT !.set = SubstitutedAssignments(d, s.set)])
           [] s.op = "update" -> UpdateRow("server", d, serverRows, TranslateUpdate(d, s))
           [] OTHER -> Success({x \in serverRows : x.id # s.row})

(* A statement on the replica.  A conflict target picks a unique index on  *)
(* its column that is full or has exactly its predicate; a key that is     *)
(* NULL or left out is the next rowid.                                     *)

ReplicaArbiters(d, target) ==
    CASE target.kind = "none" -> {}
      [] target.kind = "any" -> Indices(d)
      [] OTHER -> {i \in Indices(d) : i.on = target.on /\ i.terms \in {{}, target.terms}}

NextRowid(d) ==
    Max({x.id : x \in rows} \cup {IF KeyColumn(d).autoincrement THEN mark ELSE 0}) + 1

ReplicaRow(d, s) ==
    [id |-> IF s.row \in {Omitted, Null} THEN NextRowid(d) ELSE s.row,
     a |-> IF s.a = Omitted THEN DefaultExprForColumn(d, "a") ELSE s.a,
     b |-> IF s.b = Omitted THEN Null ELSE s.b]

ReplicaRun(d, s) ==
    CASE s.op = "insert" ->
            IF Unresolved(s.target, ReplicaArbiters(d, s.target)) THEN Failure(rows)
            ELSE InsertRow("replica", d, rows, ReplicaRow(d, s), ReplicaArbiters(d, s.target), s)
      [] s.op = "update" -> UpdateRow("replica", d, rows, s)
      [] OTHER -> Success({x \in rows : x.id # s.row})

Word(run) == IF run.done THEN "done" ELSE "error"

----------------------------------------------------------------------------
(* INSERT OR REPLACE, written for the replica: it deletes every row in the *)
(* way.  Reversed, it is an upsert on the primary key that assigns every   *)
(* other column, with DEFAULT for those left out.                          *)

(* The primary key counts as one unique constraint, a second is one too many. *)
RejectUnfaithfulReplace(d) == {} \in d.unique

BuildUpsertOnConflict(s) ==
    [s EXCEPT !.op = "insert",
              !.target = [kind |-> "columns", on |-> "id", terms |-> {}, name |-> ""],
              !.action = "update",
              !.set = [c \in {"a", "b"} |-> IF s[c] = Omitted THEN Default ELSE Excluded]]

RefusedReplace(d, s) == RejectUnfaithfulReplace(d) \/ s.row = Omitted

ReplaceRow(d, s) ==
    LET r == ReplicaRow(d, s) IN
    Store("replica", d, rows, Hits(rows, r, Indices(d)), r)

----------------------------------------------------------------------------
(* What is written                                                         *)

IsDeclaration(d) ==
    /\ d.key \in {"serial", "always", "by_default", "plain"}
    /\ d.at \in {"column", "table", "composite"}
    /\ d.default \in Nat \cup {Omitted}
    /\ d.name # "t_pkey"

IsStatement(s) ==
    /\ DOMAIN s = {"op", "row", "a", "b", "target", "action", "set"}
    /\ s.op \in {"insert", "update", "delete", "replace"}
    /\ DOMAIN s.target = {"kind", "on", "terms", "name"}
    /\ s.target.kind \in {"none", "any", "columns", "constraint"}
    /\ DOMAIN s.set \subseteq {"id", "a", "b"}

(* A key: not NULL, and within the integer type where it is generated.     *)
IsKey(d, k) == k \in Nat \ {0} /\ (Generates(d) => k # Big)

(* What is written so that the two databases are meant to agree: a plain   *)
(* key is always given, and a conflict clause leaves the key alone; a      *)
(* guarded foreign key has no conflict clause; a constraint is called by   *)
(* the name it has; no REPLACE writes a key the server always generates,   *)
(* or meets a partial index.                                               *)
Expressible(d, s) ==
    CASE s.op = "insert" ->
            /\ IsKey(d, s.row) \/ (Generates(d) /\ s.row \in {Omitted, Default})
            /\ "id" \notin DOMAIN s.set
            /\ d.match = "full" => s.target.kind = "none"
            /\ s.target.name = "t_a_key" => d.name = ""
      [] s.op = "update" -> "id" \in DOMAIN s.set => s.set["id"] = Default \/ IsKey(d, s.set["id"])
      [] s.op = "replace" ->
            /\ IsKey(d, s.row) /\ s.a # Default /\ s.b # Default
            /\ d.key # "always" /\ d.unique \subseteq {{}}
      [] OTHER -> TRUE

ASSUME WritesAssumption ==
    /\ MaxKey \in Nat /\ MaxKey < Big
    /\ \A d \in Declarations :
         /\ IsDeclaration(d)
         /\ \A s \in WriteStatements(d) : IsStatement(s) /\ Expressible(d, s)

----------------------------------------------------------------------------
NoOutcome == [server |-> "none", replica |-> "none"]

KeyedInit ==
    /\ decl \in {d \in Declarations : ~TableRefused(d)}
    /\ serverRows = {} /\ rows = {}
    /\ sequence = 0 /\ mark = 0
    /\ loose = FALSE /\ excused = FALSE
    /\ outcome = NoOutcome
    /\ writes = 0

Within == writes < MaxWrites /\ sequence < MaxKey /\ NextRowid(decl) <= MaxKey

(* A statement the translator refuses runs nowhere.                        *)
Refusal ==
    /\ outcome' = [server |-> "refused", replica |-> "refused"]
    /\ UNCHANGED <<serverRows, sequence, rows, mark, loose, excused>>

Run(server, replica, drawn, used) ==
    /\ serverRows' = server.rows
    /\ rows' = replica.rows
    /\ sequence' = IF drawn THEN sequence + 1 ELSE sequence
    /\ mark' = IF replica.done /\ KeyColumn(decl).autoincrement THEN Max({mark, used}) ELSE mark
    /\ outcome' = [server |-> Word(server), replica |-> Word(replica)]
    /\ loose' = (loose \/ (Generates(decl) /\ IF drawn THEN ~server.done ELSE used > 0))
    /\ excused' = (excused \/ (loose /\ drawn))

Insert(s) ==
    /\ s.op = "insert"
    /\ IF RefusedInsert(decl, s) THEN Refusal
       ELSE LET t == TranslateInsert(decl, s) IN
            Run(ServerRun(decl, s), ReplicaRun(decl, t), Draws(decl, s), ReplicaRow(decl, t).id)

Update(s) ==
    /\ s.op = "update"
    /\ IF RefusedUpdate(decl, s) THEN Refusal
       ELSE Run(ServerRun(decl, s), ReplicaRun(decl, TranslateUpdate(decl, s)), FALSE,
                IF "id" \in DOMAIN s.set /\ s.set.id # Default THEN s.set.id ELSE 0)

Delete(s) ==
    /\ s.op = "delete"
    /\ Run(ServerRun(decl, s), ReplicaRun(decl, s), FALSE, 0)

Replace(s) ==
    /\ s.op = "replace"
    /\ ~RefusedReplace(decl, s)
    /\ LET u == BuildUpsertOnConflict(s) IN
       Run(ServerRun(decl, u), ReplaceRow(decl, s), Draws(decl, u), ReplicaRow(decl, s).id)

KeyedNext ==
    /\ Within
    /\ writes' = writes + 1
    /\ UNCHANGED decl
    /\ \E s \in WriteStatements(decl) : Insert(s) \/ Update(s) \/ Delete(s) \/ Replace(s)

KeyedSpec == KeyedInit /\ [][KeyedNext]_keyedVars

----------------------------------------------------------------------------
(* Every statement that runs has the same outcome and leaves the same rows *)
(* on both sides, generated keys included, as long as no key is generated  *)
(* after one of the two events the warning of                              *)
(* report_rowid_sequence_divergence names: a key supplied by hand, or a    *)
(* failed insert that had drawn one.                                       *)
WritesAgree ==
    ~excused =>
        /\ serverRows = rows
        /\ outcome.server = outcome.replica
=============================================================================
