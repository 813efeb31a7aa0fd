---------------------------- MODULE RowSecurity ----------------------------
(***************************************************************************)
(* A table with row-level security, on the server and on the replica.      *)
(*                                                                         *)
(* The translator (src/impls/translator_impls/rls.rs) splits the table     *)
(* into a backing table, a view that filters it, INSTEAD OF triggers on    *)
(* the view, BEFORE guards on the backing table and AFTER monitors that    *)
(* fill an audit table.  None of them exists at translation time: they run *)
(* later, one firing another.  Each operator named after a generator below *)
(* says what the trigger or view it emits does when it runs.               *)
(*                                                                         *)
(* A row has a column o, which may be NULL and may have a DEFAULT, and a   *)
(* column g that is GENERATED from it.  A predicate is the literal true or *)
(* a comparison of one of the two with a value.                            *)
(***************************************************************************)
EXTENDS Naturals

CONSTANTS
    Capacity,  \* rows a table has room for
    Configs    \* tables with their policies and the caller's options

VARIABLES
    config,    \* the table and options of this behaviour
    server,    \* rows on the server
    replica,   \* rows of the backing table
    exempt,    \* the write exemption function returns true
    audit,     \* rows the last statement added to the audit table
    unseen,    \* rows the last statement may write and its role may not read
    outcome,   \* how the last statement ended on each side
    stray      \* in what way the last statement asked too much of the view

rowVars == <<config, server, replica, exempt, audit, unseen, outcome, stray>>

\* Row numbers; the primary key, if the table has one.
Rids == 1..Capacity

Vals == {"a", "b"}
Null == "null"
Written == Vals \cup {Null}
NoRow == [o |-> "none", g |-> "none"]

\* The generation expression of column g.
Computed(o) == CASE o = "a" -> "b" [] o = "b" -> "a" [] OTHER -> Null

Stored(o) == [o |-> o, g |-> Computed(o)]
StoredRows == {Stored(o) : o \in Written}
Live(t) == {r \in Rids : t[r] # NoRow}

----------------------------------------------------------------------------
(* Predicates and policies                                                 *)

Compare(c, v) == [column |-> c, value |-> v]
Always == Compare("true", "true")
Absent == Compare("absent", "absent")

\* OR and AND of a set of values in three-valued logic.
Or3(S) == IF "T" \in S THEN "T" ELSE IF "N" \in S THEN "N" ELSE "F"
And3(S) == IF "F" \in S THEN "F" ELSE IF "N" \in S THEN "N" ELSE "T"

\* The value of one predicate in three-valued logic.
Eval(p, row) ==
    CASE p = Always -> "T"
      [] OTHER -> IF row[p.column] = Null THEN "N"
                  ELSE IF row[p.column] = p.value THEN "T" ELSE "F"

\* The policies that apply to a command for the session's role: none in the
\* TO list means PUBLIC, and the role is matched by name only.
FilterPolicies(command) ==
    {p \in config.policies : /\ p.command \in {command, "All"}
                             /\ p.roles = {} \/ p.roles \cap {"PUBLIC", config.role} # {}}

\* filter_policies refuses a policy for a role when no role is configured.
RoleUnknown ==
    /\ config.role = "none"
    /\ \E p \in config.policies : p.roles \ {"PUBLIC"} # {}

Clause(p, clause) ==
    IF clause = "Check" /\ p.check # Absent THEN p.check ELSE p.using

\* Permissive policies are ORed, restrictive ones ANDed on top; nothing is
\* granted without a permissive one; a true predicate makes the OR vacuous.
CombinePolicyPredicates(policies, clause) ==
    LET Of(restrictive) ==
            {Clause(p, clause) : p \in {q \in policies : q.restrictive = restrictive}}
        Conjuncts(S) == S \ {Always, Absent}
    IN  [deny |-> ~\E p \in policies : ~p.restrictive,
         permissive |-> IF Always \in Of(FALSE) THEN {} ELSE Conjuncts(Of(FALSE)),
         restrictive |-> Conjuncts(Of(TRUE))]

AllowAll(c) == ~c.deny /\ c.permissive = {} /\ c.restrictive = {}

\* The value of a combined predicate; AllowAll is the empty conjunction.
EvalCombined(c, row) ==
    IF c.deny THEN "F"
    ELSE And3({Eval(p, row) : p \in c.restrictive} \cup
              (IF c.permissive = {} THEN {} ELSE {Or3({Eval(p, row) : p \in c.permissive})}))

Violated(c, row) == EvalCombined(c, row) # "T"

ReadPredicate == CombinePolicyPredicates(FilterPolicies("Select"), "Using")
InsertCheck == CombinePolicyPredicates(FilterPolicies("Insert"), "Check")
UpdateUsing == CombinePolicyPredicates(FilterPolicies("Update"), "Using")
UpdateCheck == CombinePolicyPredicates(FilterPolicies("Update"), "Check")
DeleteUsing == CombinePolicyPredicates(FilterPolicies("Delete"), "Using")

\* The view: rows whose read predicate is true.
Visible(t) == {r \in Live(t) : EvalCombined(ReadPredicate, t[r]) = "T"}

\* What CREATE POLICY accepts: the clauses a command has, over this table's
\* columns.  ALL and UPDATE check with USING when they have no WITH CHECK.
PolicyPredicates == {Always} \cup {Compare(c, v) : c \in {"o", "g"}, v \in Vals}

IsPolicy(p) ==
    /\ p.restrictive \in BOOLEAN
    /\ \/ /\ p.command = "Insert"
          /\ p.using = Absent /\ p.check \in PolicyPredicates
       \/ /\ p.command \in {"Select", "Update", "Delete", "All"}
          /\ p.using \in PolicyPredicates /\ p.check \in PolicyPredicates \cup {Absent}

\* A default that is not replayable must not reach an INSERT policy through the
\* generated column: build_write_guard looks for the column's own name only.
ASSUME ConfigsAssumption ==
    /\ Capacity \in Nat
    /\ \A c \in Configs :
         /\ \A p \in c.policies : IsPolicy(p)
         /\ c.default \in {"none", "volatile"} \cup Vals
         /\ c.default = "volatile" =>
              \A p \in c.policies : p.command \in {"Insert", "All"} => Clause(p, "Check").column # "g"

----------------------------------------------------------------------------
(* The write guards                                                        *)

\* Fault: a generated column is judged by the value the caller's row holds.
JudgedAsWritten(kind, new, default) ==
    [o |-> IF kind = "Insert" /\ new.o = Null /\ default # Null THEN default ELSE new.o,
     g |-> new.g]

\* The row a guard judges (guard_substitutions): a column the caller left out
\* of an INSERT is its default, and a generated column is recomputed, from
\* the row after the defaults.
Judged(kind, new, default) ==
    Stored(IF kind = "Insert" /\ new.o = Null /\ default # Null THEN default ELSE new.o)

\* The value forwarded to the backing table (TriggerColumn::forwarded_value).
Forwarded(new, default) == IF new.o = Null /\ default # Null THEN default ELSE new.o

\* Values one evaluation of the column's DEFAULT may give.
Draws == CASE config.default = "none" -> {Null}
           [] config.default = "volatile" -> Vals
           [] OTHER -> {config.default}

Predicates(policies, clause) == {Clause(p, clause) : p \in policies} \ {Always, Absent}

\* build_write_guard refuses a default that is not replayable when a policy
\* reads its column: the guard and the row would draw it twice.
BuildWriteGuard(policies) ==
    config.default = "volatile" => \A p \in Predicates(policies, "Check") : p.column # "o"

\* The exemption function exists and says that enforcement is off.
Exempted == config.exemption /\ exempt

\* refuse_computed_write_statements for an INSERT: a generated column may not
\* be told.
ComputedSupplied(new) == new.g # Null

\* A translation that is refused has no replica.
Translated ==
    /\ ~RoleUnknown
    /\ config.write => BuildWriteGuard(FilterPolicies("Insert"))

----------------------------------------------------------------------------
(* What the emitted triggers do.  A run of a trigger is the table and the  *)
(* audit rows it leaves, or an ABORT, which undoes the whole statement.    *)

Run(t, log) == [ok |-> TRUE, table |-> t, log |-> log]
Abort == [ok |-> FALSE, table |-> <<>>, log |-> {}]

\* Fault: the monitor asks whether any row is visible, whatever its key.
MonitorAnyRow(t, r, log) ==
    IF ReadPredicate.deny \/ Visible(t) # {} THEN log ELSE log \cup {<<r, t[r]>>}

\* The AFTER INSERT and AFTER UPDATE monitors of the backing table: an audit
\* row unless a visible row has the key of the new one.  A table without a key
\* is asked whether any row is visible.  None is emitted for a view that
\* denies every row.
Monitor(t, r, log) ==
    LET seen == IF config.hasPk THEN r \in Visible(t) ELSE Visible(t) # {}
    IN  IF ReadPredicate.deny \/ seen THEN log ELSE log \cup {<<r, t[r]>>}

\* BEFORE INSERT on the backing table; NEW holds its defaults already.
InsertCheckTrigger(new) ==
    Exempted \/ ~Violated(InsertCheck, Judged("Insert", new, Null))

\* BEFORE UPDATE on the backing table.
UpdateCheckTrigger(old, new) ==
    \/ Exempted
    \/ ~Violated(UpdateUsing, old) /\ ~Violated(UpdateCheck, Judged("Update", new, Null))

\* BEFORE DELETE on the backing table, emitted with an exemption function only.
DeleteCheckTrigger(old) == ~config.exemption \/ exempt \/ ~Violated(DeleteUsing, old)

\* The guards of a table the role may only read.
ReadonlyBackingGuard == ~config.exemption \/ exempt

InsertBacking(t, r, o, log) ==
    IF ~(IF config.write THEN InsertCheckTrigger(Stored(o)) ELSE ReadonlyBackingGuard)
    THEN Abort
    ELSE LET u == [t EXCEPT ![r] = Stored(o)] IN Run(u, Monitor(u, r, log))

UpdateBacking(t, r, o, log) ==
    IF ~(IF config.write THEN UpdateCheckTrigger(t[r], Stored(o)) ELSE ReadonlyBackingGuard)
    THEN Abort
    ELSE LET u == [t EXCEPT ![r] = Stored(o)] IN Run(u, Monitor(u, r, log))

DeleteBacking(t, r, log) ==
    IF ~(IF config.write THEN DeleteCheckTrigger(t[r]) ELSE ReadonlyBackingGuard)
    THEN Abort ELSE Run([t EXCEPT ![r] = NoRow], log)

\* INSTEAD OF INSERT.  draw is what the guard's DEFAULT gives, value what the
\* forwarded row's gives.
InsertTrigger(t, r, new, draw, value) ==
    IF \/ ~Exempted /\ Violated(InsertCheck, Judged("Insert", new, draw))
       \/ ComputedSupplied(new)
    THEN Abort
    ELSE InsertBacking(t, r, Forwarded(new, value), {})

\* Rows of the backing table a view row stands for: the key, or every column.
RowIdentity(t, r, id, old) == IF config.hasPk THEN r = id ELSE t[r] = old

\* What RAISE does where nothing is granted: abort, or pass the row over.
Denied == config.strictDeny

\* The forwarding UPDATE of an INSTEAD OF trigger, for one backing row.
UpdateForward(o, run, r) == UpdateBacking(run.table, r, o, run.log)
ForwardUpdate == INSTANCE RowLoop WITH Fire <- UpdateForward

\* INSTEAD OF UPDATE for one row of the view.
UpdateTrigger(run, id, old, o) ==
    LET new == [old EXCEPT !.o = o]
        denies == FilterPolicies("Update") = {} \/ UpdateUsing.deny
        \* The guard reads the policy before the forwarding write does.
        raised == /\ ~denies /\ ~Exempted
                  /\ AllowAll(UpdateUsing) \/ EvalCombined(UpdateUsing, old) = "T"
                  /\ Violated(UpdateCheck, Judged("Update", new, Null))
        authorized == Exempted \/ (~denies /\ EvalCombined(UpdateUsing, old) = "T")
        rows == {r \in Live(run.table) : RowIdentity(run.table, r, id, old) /\ authorized}
    IN  IF denies /\ ~Exempted THEN IF Denied THEN Abort ELSE run
        ELSE IF raised THEN Abort
        ELSE ForwardUpdate!ForEachRow(o, rows, Capacity, run)

\* The forwarding DELETE, and INSTEAD OF DELETE for one row of the view.
DeleteForward(none, run, r) == DeleteBacking(run.table, r, run.log)
ForwardDelete == INSTANCE RowLoop WITH Fire <- DeleteForward

DeleteTrigger(run, id, old) ==
    LET denies == FilterPolicies("Delete") = {} \/ DeleteUsing.deny
        authorized == Exempted \/ (~denies /\ EvalCombined(DeleteUsing, old) = "T")
        rows == {r \in Live(run.table) : RowIdentity(run.table, r, id, old) /\ authorized}
    IN  IF denies /\ ~Exempted THEN IF Denied THEN Abort ELSE run
        ELSE ForwardDelete!ForEachRow("none", rows, Capacity, run)

\* The view that lists the stored rows the table's view hides, by key or by
\* every column, compared with =.
ValidationView(t) ==
    {r \in Live(t) :
        ~\E v \in Visible(t) : IF config.hasPk THEN v = r
                               ELSE t[v] = t[r] /\ t[r].o # Null}

----------------------------------------------------------------------------
(* The server: row security as PostgreSQL defines it (external)            *)

Applies(p, command) ==
    /\ p.command \in {command, "All"}
    /\ p.roles = {} \/ \E role \in p.roles : role \in {"PUBLIC", config.role}

ServerAllows(command, clause, row) ==
    LET ps == {p \in config.policies : Applies(p, command)}
        Holds(p) == Eval(Clause(p, clause), row) = "T"
    IN  /\ \E p \in ps : ~p.restrictive /\ Holds(p)
        /\ \A p \in ps : p.restrictive => Holds(p)

Readable(row) == ServerAllows("Select", "Using", row)

\* A session exempt from row security stands for the table's owner, who has
\* every privilege and whom no policy binds.
Granted == Exempted \/ config.write
ServerMay(command, clause, row) ==
    Exempted \/ (config.write /\ ServerAllows(command, clause, row))
MayRead(row) == Exempted \/ Readable(row)

\* Rows a statement addresses: all of them, or the ones it qualifies.  A
\* statement that reads columns is subject to the SELECT policies as well.
Matches(where, row) == where = "all" \/ row.o = where

ServerTargets(command, where) ==
    {r \in Live(server) : /\ Matches(where, server[r])
                          /\ ServerMay(command, "Using", server[r])
                          /\ where # "all" => MayRead(server[r])}

----------------------------------------------------------------------------
(* Statements, on both sides                                               *)

\* Ends a statement that wrote a set of rows: a run of the replica beside the
\* server's own end, which needs the policies of its command (may) and, when
\* the statement reads, the SELECT policies on the rows it leaves (reads).  A
\* behaviour is followed up to the first statement that strays.
Finish(kind, may, reads, rows, written, run) ==
    /\ stray = "no"
    /\ server' = IF may /\ reads THEN rows ELSE server
    /\ replica' = IF run.ok THEN run.table ELSE replica
    /\ audit' = run.log
    /\ unseen' = {<<r, rows[r]>> : r \in {q \in Live(rows) \cap written : may /\ ~Readable(rows[q])}}
    /\ outcome' = [server |-> may /\ reads, replica |-> run.ok]
    /\ stray' = IF kind = "no" /\ may /\ ~reads THEN "unread" ELSE kind
    /\ UNCHANGED <<config, exempt>>

\* The view of a table the role may only read has no INSTEAD OF triggers: a
\* session that is exempt cannot write through it.
ThroughView == IF Exempted /\ ~config.write THEN "ungranted" ELSE "no"

\* Its backing table has guards only with an exemption function.
Straight == IF config.write \/ config.exemption THEN "no" ELSE "ungranted"

\* The row an INSERT of column o makes.  A column written NULL and one left
\* out are one input: the view cannot tell them apart, so a table with a
\* default is inserted into without the column, any other with NULL.
Inserted(o, value) == Stored(Forwarded([o |-> o, g |-> Null], value))

\* INSERT through the view, with or without a value for the generated column.
Insert(r, o, g) ==
    /\ r \notin Live(server) /\ r \notin Live(replica)
    /\ \E draw \in Draws, value \in Draws :
         Finish(ThroughView,
                g = Null /\ ServerMay("Insert", "Check", Inserted(o, value)), TRUE,
                [server EXCEPT ![r] = Inserted(o, value)], {r},
                IF config.write THEN InsertTrigger(replica, r, [o |-> o, g |-> g], draw, value)
                ELSE Abort)

\* RETURNING and ON CONFLICT go to the backing table in strict mode
\* (rewrite_rls_view_insert).
Redirects == config.strictValidation

\* INSERT ... RETURNING, redirected to the backing table.  The server lets a
\* row be returned only if it may be read.
InsertReturning(r, o) ==
    /\ Redirects
    /\ r \notin Live(server) /\ r \notin Live(replica)
    /\ \E value \in Draws :
         Finish(Straight,
                ServerMay("Insert", "Check", Inserted(o, value)), MayRead(Inserted(o, value)),
                [server EXCEPT ![r] = Inserted(o, value)], {r},
                InsertBacking(replica, r, Inserted(o, value).o, {}))

\* INSERT ... ON CONFLICT DO UPDATE on a row that is there, redirected.
\* Both engines judge the row proposed for insertion, then the update.  The
\* server answers a conflict with a row out of sight with an error.
Upsert(r, o) ==
    /\ Redirects /\ config.hasPk
    /\ r \in Live(server) /\ r \in Live(replica)
    /\ \E value \in Draws :
         LET row == Inserted(o, value) IN
         Finish(IF MayRead(server[r]) THEN Straight ELSE "blind",
                /\ ServerMay("Insert", "Check", row)
                /\ ServerMay("Update", "Using", server[r])
                /\ ServerMay("Update", "Check", row),
                MayRead(server[r]) /\ MayRead(row),
                [server EXCEPT ![r] = row], {r},
                IF InsertBacking(replica, r, row.o, {}).ok
                THEN UpdateBacking(replica, r, row.o, {}) ELSE Abort)

\* A statement that reaches rows the view hides.
Reaching(targets) ==
    IF ThroughView = "no" /\ \E r \in targets : ~Readable(server[r]) THEN "blind" ELSE ThroughView

\* An UPDATE and a DELETE fire the trigger for the rows the view showed before.
UpdateFire(o, run, r) == UpdateTrigger(run, r, replica[r], o)
UpdateView == INSTANCE RowLoop WITH Fire <- UpdateFire

DeleteFire(none, run, r) == DeleteTrigger(run, r, replica[r])
DeleteView == INSTANCE RowLoop WITH Fire <- DeleteFire

\* Rows of the view a statement addresses.
ViewTargets(where) == {r \in Visible(replica) : Matches(where, replica[r])}

Update(where, o) ==
    LET targets == ServerTargets("Update", where)
        rows == [r \in Rids |-> IF r \in targets THEN Stored(o) ELSE server[r]]
    IN  Finish(Reaching(targets),
               Granted /\ \A r \in targets : ServerMay("Update", "Check", Stored(o)),
               where # "all" => \A r \in targets : MayRead(Stored(o)),
               rows, targets,
               IF config.write
               THEN UpdateView!ForEachRow(o, ViewTargets(where), Capacity, Run(replica, {}))
               ELSE Abort)

Delete(where) ==
    LET targets == ServerTargets("Delete", where)
        rows == [r \in Rids |-> IF r \in targets THEN NoRow ELSE server[r]]
    IN  Finish(Reaching(targets), Granted, TRUE, rows, targets,
               IF config.write
               THEN DeleteView!ForEachRow("none", ViewTargets(where), Capacity, Run(replica, {}))
               ELSE Abort)

\* An authoritative load under the exemption function, straight into the
\* backing table; the server's copy is written by the table's owner.
Load(r, row) ==
    /\ Exempted
    /\ Finish("no", TRUE, TRUE, [server EXCEPT ![r] = row], {r},
              IF row = NoRow THEN DeleteBacking(replica, r, {})
              ELSE IF r \in Live(replica) THEN UpdateBacking(replica, r, row.o, {})
              ELSE InsertBacking(replica, r, row.o, {}))

\* The caller's exemption function changes its answer between statements.
Switch ==
    /\ config.exemption
    /\ exempt' = ~exempt
    /\ UNCHANGED <<config, server, replica, audit, unseen, outcome, stray>>

RowInit ==
    /\ config \in Configs /\ Translated
    /\ server \in [Rids -> StoredRows \cup {NoRow}]
    /\ replica = server
    /\ exempt = FALSE /\ audit = {} /\ unseen = {} /\ stray = "no"
    /\ outcome = [server |-> TRUE, replica |-> TRUE]

RowNext ==
    \/ \E r \in Rids, o \in Written :
         (\E g \in {Null, "a"} : Insert(r, o, g)) \/ InsertReturning(r, o) \/ Upsert(r, o)
    \/ \E where \in Vals \cup {"all"}, o \in Written : Update(where, o)
    \/ \E where \in Vals \cup {"all"} : Delete(where)
    \/ \E r \in Rids, row \in StoredRows \cup {NoRow} : Load(r, row)
    \/ Switch

RowSpec == RowInit /\ [][RowNext]_rowVars

----------------------------------------------------------------------------
(* Properties                                                              *)

\* Rows of a table its reader may not see, and rows the two sides hold apart.
Hidden(t) == {r \in Live(t) : ~Readable(t[r])}
Differ == {r \in Rids : replica[r] # server[r]}

\* The view shows the rows the server lets the role read.  After any sequence
\* of statements the backing table holds the server's rows, and a statement
\* fails on one side only if the caller asked for a denied write to fail
\* (with_strict_rls_write_deny), which then changed nothing.  A statement may
\* stray from that in three ways, each with a bound on the harm.  One that
\* reaches rows its role may not read (unqualified, exempt, or by a conflict)
\* leaves the sides apart in rows out of sight only.  One the server refuses for
\* the row it leaves, which its reader could not read, is kept by the replica:
\* every such row is hidden and, where there are monitors, in the audit table.
\* The third needs a role with no privilege to write: an exempt session's write
\* fails at the view, and without an exemption function a redirected INSERT is
\* let through.
RowSecurityAgrees ==
    /\ Visible(replica) = Live(replica) \ Hidden(replica)
    /\ stray = "no" =>
         /\ replica = server
         /\ outcome.replica => outcome.server
         /\ outcome.server /\ ~outcome.replica => config.strictDeny
    /\ stray = "blind" => Differ \subseteq Hidden(server) \cup Hidden(replica)
    /\ stray = "unread" =>
         /\ outcome.replica /\ ~outcome.server
         /\ Differ \subseteq Hidden(replica)
         /\ config.hasPk /\ ~ReadPredicate.deny => \A r \in Differ : <<r, replica[r]>> \in audit
    /\ stray = "ungranted" => ~config.write /\ (config.exemption => ~outcome.replica)

\* The monitors record exactly the rows a statement wrote and its role cannot
\* read back, those the server refused for that included, and the validation
\* view lists exactly the rows stored so, for a table with a primary key whose
\* view does not deny everything.
AuditIsExact ==
    config.hasPk /\ ~ReadPredicate.deny =>
        /\ stray \in {"no", "unread"} => audit = unseen
        /\ ValidationView(replica) = Hidden(replica)
=============================================================================
