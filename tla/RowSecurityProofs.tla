------------------------- MODULE RowSecurityProofs -------------------------
(***************************************************************************)
(* The replica of a table with row-level security agrees with the server,  *)
(* for any number of rows, any set of policies and all options; and the    *)
(* references of a policy keep their row, for any tables and columns.      *)
(***************************************************************************)
EXTENDS RowSecurity, PolicyReferences, TLAPS

\* The contents a row and a table may have.
TableRows == StoredRows \cup {NoRow}
Tables == [Rids -> TableRows]

----------------------------------------------------------------------------
(* Rows                                                                    *)

\* A stored row is not the empty one, and its generated column is a function
\* of the other: writing the o of a stored row back gives the same row.
LEMMA RowFacts ==
    /\ \A o \in Written : /\ Stored(o) \in StoredRows /\ Stored(o).o = o
                          /\ Stored(o) # NoRow /\ Stored(o) \in TableRows
    /\ \A row \in StoredRows : row.o \in Written /\ Stored(row.o) = row /\ row # NoRow
    /\ NoRow \in TableRows
<1>1. \A o \in Written : o # "none"
  BY DEF Written, Vals, Null
<1>2. \A o : Stored(o).o = o
  BY DEF Stored
<1>3. \A o \in Written : Stored(o) # NoRow
  BY <1>1, <1>2 DEF NoRow
<1>4. QED BY <1>2, <1>3 DEF StoredRows, TableRows

\* A predicate has one of three values (Eval).
LEMMA EvalRange ==
    \A p, row : Eval(p, row) \in {"T", "N", "F"} /\ Eval(Always, row) = "T"
BY DEF Eval

----------------------------------------------------------------------------
(* Policies: what CombinePolicyPredicates emits is what the server decides *)

\* The conjunction of three-valued values is true when all of them are.
LEMMA And3True ==
    ASSUME NEW S, \A v \in S : v \in {"T", "N", "F"}
    PROVE  And3(S) = "T" <=> \A v \in S : v = "T"
BY DEF And3

LEMMA Or3Range ==
    ASSUME NEW S
    PROVE  Or3(S) \in {"T", "N", "F"} /\ (Or3(S) = "T" <=> "T" \in S)
BY DEF Or3

\* The combined predicate of rls.rs combine_policy_predicates is true exactly
\* when some permissive policy holds and every restrictive one does, whichever
\* of its shortcuts (deny, a vacuous OR, no conjunct) it takes.
LEMMA CombinedMeans ==
    ASSUME NEW policies, NEW clause, NEW row,
           \A p \in policies : p.restrictive \in BOOLEAN /\ Clause(p, clause) # Absent
    PROVE  EvalCombined(CombinePolicyPredicates(policies, clause), row) = "T" <=>
             /\ \E p \in policies : ~p.restrictive /\ Eval(Clause(p, clause), row) = "T"
             /\ \A p \in policies : p.restrictive => Eval(Clause(p, clause), row) = "T"
<1> DEFINE c == CombinePolicyPredicates(policies, clause)
           Permissive == {Clause(p, clause) : p \in {q \in policies : q.restrictive = FALSE}}
           Restrictive == {Clause(p, clause) : p \in {q \in policies : q.restrictive = TRUE}}
           Rs == {Eval(p, row) : p \in c.restrictive}
           Ps == {Eval(p, row) : p \in c.permissive}
           Both == Rs \cup (IF c.permissive = {} THEN {} ELSE {Or3(Ps)})
<1>1. /\ c.deny <=> ~\E p \in policies : ~p.restrictive
      /\ c.permissive = IF Always \in Permissive THEN {} ELSE Permissive \ {Always, Absent}
      /\ c.restrictive = Restrictive \ {Always, Absent}
  BY DEF CombinePolicyPredicates
<1>2. Absent \notin Permissive /\ Absent \notin Restrictive
  OBVIOUS
<1>3. CASE c.deny
  <2>1. EvalCombined(c, row) = "F"
    BY <1>3 DEF EvalCombined
  <2>2. QED BY <1>1, <1>3, <2>1
<1>4. CASE ~c.deny
  <2>1. EvalCombined(c, row) = And3(Both)
    BY <1>4 DEF EvalCombined
  <2>2. \A v \in Rs : v \in {"T", "N", "F"}
    BY EvalRange
  <2>3. Or3(Ps) \in {"T", "N", "F"} /\ (Or3(Ps) = "T" <=> "T" \in Ps)
    <3> HIDE DEF Ps
    <3>1. QED BY Or3Range
  <2>4. And3(Both) = "T" <=> \A v \in Both : v = "T"
    <3>1. \A v \in Both : v \in {"T", "N", "F"}
      <4> HIDE DEF Ps, Rs
      <4>1. QED BY <2>2, <2>3
    <3> HIDE DEF Both
    <3>2. QED BY <3>1, And3True
  <2>5. (\A v \in Rs : v = "T") <=> \A p \in policies : p.restrictive => Eval(Clause(p, clause), row) = "T"
    <3>1. (\A v \in Rs : v = "T") <=> \A p \in c.restrictive : Eval(p, row) = "T"
      OBVIOUS
    <3>2. (\A p \in c.restrictive : Eval(p, row) = "T") <=> \A p \in Restrictive : Eval(p, row) = "T"
      <4> HIDE DEF Restrictive, c
      <4>1. QED BY <1>1, <1>2, EvalRange
    <3> HIDE DEF c, Rs
    <3>3. QED BY <3>1, <3>2
  <2>6. c.permissive = {} <=> Always \in Permissive
    <3>1. Permissive # {}
      BY <1>1, <1>4
    <3> HIDE DEF Permissive, c
    <3>2. QED BY <1>1, <1>2, <3>1
  <2>7. (\E p \in policies : ~p.restrictive /\ Eval(Clause(p, clause), row) = "T")
          <=> \E p \in Permissive : Eval(p, row) = "T"
    OBVIOUS
  <2>8. (c.permissive = {} \/ "T" \in Ps) <=> \E p \in Permissive : Eval(p, row) = "T"
    <3>1. "T" \in Ps <=> \E p \in c.permissive : Eval(p, row) = "T"
      OBVIOUS
    <3> HIDE DEF Permissive, c, Ps
    <3>2. CASE Always \in Permissive
      BY <3>2, <2>6, EvalRange
    <3>3. CASE Always \notin Permissive
      <4>1. c.permissive = Permissive
        BY <3>3, <1>1, <1>2
      <4>2. QED BY <3>1, <3>3, <2>6, <4>1
    <3>4. QED BY <3>2, <3>3
  <2>9. (\A v \in Both : v = "T") <=>
          (\A v \in Rs : v = "T") /\ (c.permissive = {} \/ "T" \in Ps)
    <3> HIDE DEF Rs, Ps, c
    <3>1. QED BY <2>3
  <2>10. CombinePolicyPredicates(policies, clause) = c
    OBVIOUS
  <2> HIDE DEF c, Rs, Ps, Both, Permissive
  <2>11. QED BY <2>1, <2>4, <2>5, <2>7, <2>8, <2>9, <2>10
<1>5. QED BY <1>3, <1>4

\* The five clauses rls.rs combines.
Clauses == {<<"Select", "Using">>, <<"Insert", "Check">>, <<"Update", "Using">>,
            <<"Update", "Check">>, <<"Delete", "Using">>}

\* A predicate is not the missing clause, and reads o, g or nothing.
LEMMA PredicateColumns ==
    /\ Absent \notin PolicyPredicates
    /\ \A p \in PolicyPredicates : p = Always \/ p.column \in {"o", "g"}
<1>1. \A c, v : Compare(c, v).column = c
  BY DEF Compare
<1>2. \A p \in PolicyPredicates : p = Always \/ p.column \in {"o", "g"}
  BY <1>1 DEF PolicyPredicates
<1>3. Absent.column = "absent" /\ Always.column = "true"
  BY <1>1 DEF Absent, Always
<1>4. Absent \notin PolicyPredicates
  <2>1. Absent # Always
    BY <1>3
  <2>2. QED BY <1>2, <1>3, <2>1
<1>5. QED BY <1>2, <1>4

\* A policy that applies has the clause its command is judged by.
LEMMA ClausesPresent ==
    ASSUME config \in Configs, NEW pair \in Clauses, NEW p \in FilterPolicies(pair[1])
    PROVE  p.restrictive \in BOOLEAN /\ Clause(p, pair[2]) \in PolicyPredicates
<1>1. IsPolicy(p) /\ p.command \in {pair[1], "All"}
  BY ConfigsAssumption DEF FilterPolicies
<1>2. Absent \notin PolicyPredicates
  BY PredicateColumns
<1>3. \/ pair[1] = "Insert" /\ pair[2] = "Check"
      \/ pair[1] = "Update" /\ pair[2] = "Check"
      \/ pair[1] \in {"Select", "Update", "Delete"} /\ pair[2] = "Using"
  BY DEF Clauses
<1>4. QED BY <1>1, <1>2, <1>3 DEF IsPolicy, Clause

\* Every predicate the translator emits decides what the server decides.
LEMMA ClauseAgrees ==
    ASSUME config \in Configs, NEW pair \in Clauses, NEW row
    PROVE  EvalCombined(CombinePolicyPredicates(FilterPolicies(pair[1]), pair[2]), row) = "T"
             <=> ServerAllows(pair[1], pair[2], row)
<1> DEFINE P == FilterPolicies(pair[1])
<1>1. P = {p \in config.policies : Applies(p, pair[1])}
  BY DEF FilterPolicies, Applies
<1>2. ServerAllows(pair[1], pair[2], row) <=>
        /\ \E p \in P : ~p.restrictive /\ Eval(Clause(p, pair[2]), row) = "T"
        /\ \A p \in P : p.restrictive => Eval(Clause(p, pair[2]), row) = "T"
  BY <1>1 DEF ServerAllows
<1>3. \A p \in P : p.restrictive \in BOOLEAN /\ Clause(p, pair[2]) # Absent
  <2>1. QED BY PredicateColumns, ClausesPresent
<1> HIDE DEF P
<1>4. EvalCombined(CombinePolicyPredicates(P, pair[2]), row) = "T" <=>
        /\ \E p \in P : ~p.restrictive /\ Eval(Clause(p, pair[2]), row) = "T"
        /\ \A p \in P : p.restrictive => Eval(Clause(p, pair[2]), row) = "T"
  BY <1>3, CombinedMeans
<1>5. EvalCombined(CombinePolicyPredicates(P, pair[2]), row) = "T"
        <=> ServerAllows(pair[1], pair[2], row)
  BY <1>2, <1>4
<1>6. QED BY <1>5 DEF P

\* The named predicates, one by one.
LEMMA GuardsAgree ==
    ASSUME config \in Configs, NEW row
    PROVE  /\ EvalCombined(ReadPredicate, row) = "T" <=> Readable(row)
           /\ EvalCombined(InsertCheck, row) = "T" <=> ServerAllows("Insert", "Check", row)
           /\ EvalCombined(UpdateUsing, row) = "T" <=> ServerAllows("Update", "Using", row)
           /\ EvalCombined(UpdateCheck, row) = "T" <=> ServerAllows("Update", "Check", row)
           /\ EvalCombined(DeleteUsing, row) = "T" <=> ServerAllows("Delete", "Using", row)
<1>1. \A pair \in Clauses :
        EvalCombined(CombinePolicyPredicates(FilterPolicies(pair[1]), pair[2]), row) = "T"
          <=> ServerAllows(pair[1], pair[2], row)
  BY ClauseAgrees
<1>2. QED BY <1>1 DEF Clauses, ReadPredicate, InsertCheck, UpdateUsing, UpdateCheck,
                      DeleteUsing, Readable

\* Where nothing is granted no row is allowed, and the shortcut for a predicate
\* that allows everything agrees with its value.
LEMMA Shortcuts ==
    /\ FilterPolicies("Update") = {} => UpdateUsing.deny
    /\ FilterPolicies("Delete") = {} => DeleteUsing.deny
    /\ \A row : UpdateUsing.deny => EvalCombined(UpdateUsing, row) # "T"
    /\ \A row : DeleteUsing.deny => EvalCombined(DeleteUsing, row) # "T"
    /\ \A row : AllowAll(UpdateUsing) => EvalCombined(UpdateUsing, row) = "T"
<1>1. /\ FilterPolicies("Update") = {} => UpdateUsing.deny
      /\ FilterPolicies("Delete") = {} => DeleteUsing.deny
  BY DEF UpdateUsing, DeleteUsing, CombinePolicyPredicates
<1>2. \A c, row : c.deny => EvalCombined(c, row) # "T"
  BY DEF EvalCombined
<1>3. \A c, row : AllowAll(c) => EvalCombined(c, row) = "T"
  <2>1. And3({}) = "T"
    BY DEF And3
  <2>2. SUFFICES ASSUME NEW c, NEW row, AllowAll(c)
                 PROVE  EvalCombined(c, row) = "T"
    OBVIOUS
  <2>3. ~c.deny /\ c.permissive = {} /\ c.restrictive = {}
    BY <2>2 DEF AllowAll
  <2>4. {Eval(p, row) : p \in c.restrictive} \cup {} = {}
    BY <2>3
  <2>5. QED BY <2>1, <2>3, <2>4 DEF EvalCombined
<1>4. QED BY <1>1, <1>2, <1>3

----------------------------------------------------------------------------
(* The invariant, and what ends a statement                                *)

\* The rows a statement may write and its role cannot read back.
Unread(may, rows, written) ==
    {<<r, rows[r]>> : r \in {q \in Live(rows) \cap written : may /\ ~Readable(rows[q])}}

\* Two tables that hold the same rows but for some that are out of sight.
OutOfSight(t, u) ==
    \A r \in Rids : t[r] = u[r] \/ (t[r] # NoRow /\ ~Readable(t[r])) \/ (u[r] # NoRow /\ ~Readable(u[r]))

\* Until a statement strays the sides hold the same rows and a statement fails
\* on the replica alone only where the caller asked for it; the monitors have
\* recorded what they should.  A statement that strayed did no more harm than
\* its kind allows.
RowInv ==
    /\ config \in Configs /\ Translated
    /\ server \in Tables /\ replica \in Tables
    /\ stray \in {"no", "blind", "unread", "ungranted"}
    /\ stray = "no" => /\ replica = server
                       /\ outcome.replica => outcome.server
                       /\ outcome.server /\ ~outcome.replica => config.strictDeny
    /\ stray = "blind" => OutOfSight(replica, server)
    /\ stray = "unread" =>
         /\ outcome.replica /\ ~outcome.server
         /\ \A r \in Rids : replica[r] # server[r] =>
              /\ replica[r] # NoRow /\ ~Readable(replica[r])
              /\ <<r, replica[r]>> \in unseen
    /\ stray = "ungranted" => ~config.write /\ (config.exemption => ~outcome.replica)
    /\ stray \in {"no", "unread"} /\ config.hasPk /\ ~ReadPredicate.deny => audit = unseen

\* A statement that does not stray runs on the replica as the server would let
\* it, the rows it leaves unread aside.
Matched(may, reads, rows, written, run) ==
    /\ run.ok => may /\ run.table = rows
    /\ may /\ ~run.ok => config.strictDeny /\ rows = server /\ reads
    /\ may /\ ~reads => \A r \in Rids : rows[r] # server[r] =>
                            r \in written /\ rows[r] # NoRow /\ ~Readable(rows[r])
    /\ config.hasPk /\ ~ReadPredicate.deny => run.log = Unread(may, rows, written)

\* What a statement has to end with, whatever its kind.
Ended(kind, may, reads, rows, written, run) ==
    /\ rows \in Tables /\ (run.ok => run.table \in Tables)
    /\ kind \in {"no", "blind", "ungranted"}
    /\ kind = "no" => Matched(may, reads, rows, written, run)
    /\ kind = "blind" => OutOfSight(IF run.ok THEN run.table ELSE server,
                                    IF may /\ reads THEN rows ELSE server)
    /\ kind = "ungranted" => ~config.write /\ (config.exemption => ~run.ok)

LEMMA RunFields ==
    /\ \A t, log : Run(t, log).ok /\ Run(t, log).table = t /\ Run(t, log).log = log
    /\ ~Abort.ok /\ Abort.log = {}
BY DEF Run, Abort

\* What depends on the table and its options alone does not change with them.
LEMMA ConfigKept ==
    ASSUME config' = config
    PROVE  /\ ReadPredicate' = ReadPredicate
           /\ Translated => Translated'
<1>1. QED BY DEF ReadPredicate, Translated, RoleUnknown, BuildWriteGuard, FilterPolicies,
                 CombinePolicyPredicates, Predicates, Clause

\* The policies decide as before while the table and its options stay.
LEMMA ReadableKept ==
    ASSUME config' = config, NEW row
    PROVE  Readable(row)' <=> Readable(row)
BY DEF Readable, ServerAllows, Applies, Eval, Clause

\* A statement that ends as its kind says keeps the invariant.
LEMMA FinishKeeps ==
    ASSUME RowInv, NEW kind, NEW may, NEW reads, NEW rows, NEW written, NEW run,
           Finish(kind, may, reads, rows, written, run), Ended(kind, may, reads, rows, written, run)
    PROVE  RowInv'
<1> DEFINE s == IF may /\ reads THEN rows ELSE server
           p == IF run.ok THEN run.table ELSE server
<1>0. stray = "no" /\ replica = server /\ server \in Tables
  BY DEF RowInv, Finish
<1>1. /\ server' = s /\ replica' = p
      /\ audit' = run.log
      /\ unseen' = Unread(may, rows, written)
      /\ config' = config
      /\ stray' = IF kind = "no" /\ may /\ ~reads THEN "unread" ELSE kind
  BY <1>0 DEF Finish, Unread
<1>2. (outcome'.server <=> may /\ reads) /\ (outcome'.replica <=> run.ok)
  BY DEF Finish
<1>3. (config \in Configs /\ Translated)'
  BY <1>1, ConfigKept DEF RowInv
<1>4. s \in Tables /\ p \in Tables /\ Tables' = Tables
  BY <1>0 DEF Ended, Tables, Rids, TableRows, StoredRows
<1>5. stray' \in {"no", "blind", "unread", "ungranted"}
  BY <1>1 DEF Ended
<1>6. \A row : Readable(row)' <=> Readable(row)
  BY <1>1, ReadableKept
<1>7. ASSUME stray' = "no"
      PROVE  /\ p = s /\ (outcome'.replica => outcome'.server)
             /\ outcome'.server /\ ~outcome'.replica => config'.strictDeny
  <2>1. kind = "no" /\ ~(may /\ ~reads) /\ Matched(may, reads, rows, written, run)
    BY <1>1, <1>7 DEF Ended
  <2>2. QED BY <1>1, <1>2, <2>1 DEF Matched
<1>8. ASSUME stray' = "blind"
      PROVE  OutOfSight(replica, server)'
  <2>1. OutOfSight(p, s)
    BY <1>1, <1>8 DEF Ended
  <2> HIDE DEF p, s
  <2>2. QED BY <1>1, <1>6, <2>1 DEF OutOfSight, Rids, NoRow
<1>9. ASSUME stray' = "unread"
      PROVE  /\ outcome'.replica /\ ~outcome'.server
             /\ \A r \in Rids : p[r] # s[r] =>
                  /\ p[r] # NoRow /\ ~Readable(p[r])
                  /\ <<r, p[r]>> \in Unread(may, rows, written)
  <2>1. kind = "no" /\ may /\ ~reads /\ Matched(may, reads, rows, written, run)
    BY <1>1, <1>9 DEF Ended
  <2>2. run.ok /\ run.table = rows /\ s = server /\ p = rows
    BY <2>1 DEF Matched
  <2>3. \A r \in Rids : rows[r] # server[r] =>
                            r \in written /\ rows[r] # NoRow /\ ~Readable(rows[r])
    BY <2>1 DEF Matched
  <2>4. \A r \in Rids : rows[r] # server[r] => <<r, rows[r]>> \in Unread(may, rows, written)
    BY <2>1, <2>3 DEF Unread, Live
  <2> HIDE DEF p, s
  <2>5. QED BY <1>2, <2>1, <2>2, <2>3, <2>4
<1>10. ASSUME stray' = "ungranted"
       PROVE  ~config'.write /\ (config'.exemption => ~outcome'.replica)
  BY <1>1, <1>2, <1>10 DEF Ended
<1>11. ASSUME stray' \in {"no", "unread"}, config'.hasPk, ~ReadPredicate'.deny
       PROVE  audit' = unseen'
  <2>1. kind = "no"
    BY <1>1, <1>11 DEF Ended
  <2>2. QED BY <1>1, <1>11, <2>1, ConfigKept DEF Ended, Matched
<1> HIDE DEF p, s
<1>12. (stray = "unread" =>
         /\ outcome.replica /\ ~outcome.server
         /\ \A r \in Rids : replica[r] # server[r] =>
              /\ replica[r] # NoRow /\ ~Readable(replica[r])
              /\ <<r, replica[r]>> \in unseen)'
  BY <1>1, <1>6, <1>9 DEF Rids, NoRow
<1>13. QED BY <1>1, <1>3, <1>4, <1>5, <1>7, <1>8, <1>10, <1>11, <1>12 DEF RowInv

\* The view shows what the server lets the role read.
LEMMA VisibleAgrees ==
    ASSUME config \in Configs, NEW t
    PROVE  Visible(t) = {r \in Live(t) : Readable(t[r])}
<1>1. \A row : EvalCombined(ReadPredicate, row) = "T" <=> Readable(row)
  BY GuardsAgree
<1>2. QED BY <1>1 DEF Visible

\* The monitor of a table with a key records the new row unless it is readable.
LEMMA MonitorAgrees ==
    ASSUME config \in Configs, config.hasPk, ~ReadPredicate.deny,
           NEW u, NEW r \in Live(u), NEW log
    PROVE  Monitor(u, r, log) = IF Readable(u[r]) THEN log ELSE log \cup {<<r, u[r]>>}
<1>1. r \in Visible(u) <=> Readable(u[r])
  BY VisibleAgrees
<1>2. QED BY <1>1 DEF Monitor

\* One row written with its monitor fired, or refused on both sides.
LEMMA WriteMatches ==
    ASSUME RowInv, stray = "no", NEW r \in Rids, NEW o \in Written, NEW may, NEW reads, NEW run, NEW u,
           u = [server EXCEPT ![r] = Stored(o)],
           reads \/ ~Readable(Stored(o)),
           \/ may /\ run = Run(u, Monitor(u, r, {}))
           \/ ~may /\ run = Abort
    PROVE  /\ Matched(may, reads, u, {r}, run)
           /\ u \in Tables /\ (run.ok => run.table \in Tables)
<1>1. u \in Tables /\ u[r] = Stored(o) /\ r \in Live(u) /\ \A q \in Rids : u[q] # server[q] => q = r
  BY RowFacts DEF RowInv, Tables, Live
<1>2. u[r] # NoRow
  BY <1>1 DEF Live
<1>3. may /\ ~reads => \A q \in Rids : u[q] # server[q] => q \in {r} /\ u[q] # NoRow /\ ~Readable(u[q])
  BY <1>1, <1>2
<1>4. CASE may /\ run = Run(u, Monitor(u, r, {}))
  <2>1. run.ok /\ run.table = u /\ run.log = Monitor(u, r, {})
    BY <1>4, RunFields
  <2>2. ASSUME config.hasPk, ~ReadPredicate.deny
        PROVE  run.log = Unread(may, u, {r})
    <3>0. config \in Configs
      BY DEF RowInv
    <3>1. run.log = IF Readable(u[r]) THEN {} ELSE {} \cup {<<r, u[r]>>}
      <4>1. Monitor(u, r, {}) = IF Readable(u[r]) THEN {} ELSE {} \cup {<<r, u[r]>>}
        BY <3>0, <1>1, <2>2, MonitorAgrees
      <4>2. QED BY <4>1, <2>1
    <3>2. QED BY <3>1, <1>1, <1>4 DEF Unread
  <2>3. QED BY <1>1, <1>3, <1>4, <2>1, <2>2 DEF Matched
<1>5. CASE ~may /\ run = Abort
  <2>1. ~run.ok /\ run.log = {}
    BY <1>5, RunFields
  <2>2. Unread(may, u, {r}) = {}
    BY <1>5 DEF Unread
  <2>3. QED BY <1>1, <1>5, <2>1, <2>2 DEF Matched
<1>6. QED BY <1>4, <1>5

----------------------------------------------------------------------------
(* Writes to the backing table                                             *)

\* The BEFORE INSERT trigger lets in what the server would.
LEMMA InsertBackingAgrees ==
    ASSUME config \in Configs, config.write, NEW t, NEW r, NEW o, NEW log, NEW u,
           u = [t EXCEPT ![r] = Stored(o)]
    PROVE  InsertBacking(t, r, o, log) =
             IF Exempted \/ ServerAllows("Insert", "Check", Stored(o))
             THEN Run(u, Monitor(u, r, log)) ELSE Abort
<1>1. Judged("Insert", Stored(o), Null) = Stored(o)
  BY DEF Judged, Stored
<1>2. Violated(InsertCheck, Stored(o)) <=> ~ServerAllows("Insert", "Check", Stored(o))
  BY GuardsAgree DEF Violated
<1>3. InsertCheckTrigger(Stored(o)) <=> Exempted \/ ServerAllows("Insert", "Check", Stored(o))
  BY <1>1, <1>2 DEF InsertCheckTrigger
<1>4. QED BY <1>3 DEF InsertBacking

\* So does the BEFORE UPDATE trigger, for the old row and the new one.
LEMMA UpdateBackingAgrees ==
    ASSUME config \in Configs, config.write, NEW t, NEW r, NEW o, NEW log, NEW u,
           u = [t EXCEPT ![r] = Stored(o)]
    PROVE  UpdateBacking(t, r, o, log) =
             IF \/ Exempted
                \/ /\ ServerAllows("Update", "Using", t[r])
                   /\ ServerAllows("Update", "Check", Stored(o))
             THEN Run(u, Monitor(u, r, log)) ELSE Abort
<1>1. Judged("Update", Stored(o), Null) = Stored(o)
  BY DEF Judged, Stored
<1>2. Violated(UpdateCheck, Stored(o)) <=> ~ServerAllows("Update", "Check", Stored(o))
  BY GuardsAgree DEF Violated
<1>3. Violated(UpdateUsing, t[r]) <=> ~ServerAllows("Update", "Using", t[r])
  BY GuardsAgree DEF Violated
<1>4. UpdateCheckTrigger(t[r], Stored(o)) <=>
        \/ Exempted
        \/ ServerAllows("Update", "Using", t[r]) /\ ServerAllows("Update", "Check", Stored(o))
  BY <1>1, <1>2, <1>3 DEF UpdateCheckTrigger
<1>5. QED BY <1>4 DEF UpdateBacking

\* And the BEFORE DELETE trigger, where there is one.
LEMMA DeleteBackingAgrees ==
    ASSUME config \in Configs, config.write, NEW t, NEW r, NEW log
    PROVE  DeleteBacking(t, r, log) =
             IF ~config.exemption \/ exempt \/ ServerAllows("Delete", "Using", t[r])
             THEN Run([t EXCEPT ![r] = NoRow], log) ELSE Abort
<1>1. Violated(DeleteUsing, t[r]) <=> ~ServerAllows("Delete", "Using", t[r])
  BY GuardsAgree DEF Violated
<1>2. DeleteCheckTrigger(t[r]) <=>
        ~config.exemption \/ exempt \/ ServerAllows("Delete", "Using", t[r])
  BY <1>1 DEF DeleteCheckTrigger
<1>3. QED BY <1>2 DEF DeleteBacking

\* A default gives a value the column may hold, and the same one twice unless
\* it is volatile.
LEMMA DrawsFacts ==
    ASSUME config \in Configs
    PROVE  /\ Draws \subseteq Written
           /\ config.default # "volatile" => \A v, w \in Draws : v = w
<1>1. config.default \in {"none", "volatile"} \cup Vals
  BY ConfigsAssumption
<1>2. QED BY <1>1 DEF Draws, Written, Vals

\* Where a volatile default is translated, no INSERT policy depends on the row
\* (build_write_guard).
LEMMA VolatileUnread ==
    ASSUME config \in Configs, Translated, config.write, config.default = "volatile",
           NEW row1, NEW row2, ServerAllows("Insert", "Check", row1)
    PROVE  ServerAllows("Insert", "Check", row2)
<1> DEFINE P == FilterPolicies("Insert")
<1>1. P = {p \in config.policies : Applies(p, "Insert")}
  BY DEF FilterPolicies, Applies
<1>2. \A p \in P : Clause(p, "Check") = Always
  <2>1. SUFFICES ASSUME NEW p \in P, Clause(p, "Check") # Always PROVE FALSE
    OBVIOUS
  <2>2. Clause(p, "Check") \in PolicyPredicates
    <3>1. <<"Insert", "Check">> \in Clauses
      BY DEF Clauses
    <3>2. \A pair \in Clauses : \A q \in FilterPolicies(pair[1]) : Clause(q, pair[2]) \in PolicyPredicates
      BY ClausesPresent
    <3>3. QED BY <3>1, <3>2
  <2>3. Clause(p, "Check").column \in {"o", "g"} /\ Clause(p, "Check") # Absent
    BY <2>1, <2>2, PredicateColumns
  <2>4. BuildWriteGuard(P)
    BY DEF Translated
  <2>5. Clause(p, "Check").column # "o"
    BY <2>1, <2>3, <2>4 DEF BuildWriteGuard, Predicates
  <2>6. p \in config.policies /\ p.command \in {"Insert", "All"}
    BY DEF FilterPolicies
  <2>7. Clause(p, "Check").column # "g"
    BY <2>6, ConfigsAssumption
  <2>8. QED BY <2>3, <2>5, <2>7
<1>3. \A p \in P : Eval(Clause(p, "Check"), row2) = "T"
  BY <1>2, EvalRange
<1>4. \E p \in P : ~p.restrictive
  BY <1>1 DEF ServerAllows
<1>5. QED BY <1>1, <1>3, <1>4 DEF ServerAllows

----------------------------------------------------------------------------
(* Statements that write one row                                           *)

\* INSERT through the view: the guard, which draws the default by itself, the
\* generated column and the backing table's own trigger decide as the server.
LEMMA InsertKeeps ==
    ASSUME RowInv, NEW r \in Rids, NEW o \in Written, NEW g, Insert(r, o, g)
    PROVE  RowInv'
<1> DEFINE new == [o |-> o, g |-> g]
<1>1. PICK draw \in Draws, value \in Draws :
        Finish(ThroughView,
               g = Null /\ ServerMay("Insert", "Check", Inserted(o, value)), TRUE,
               [server EXCEPT ![r] = Inserted(o, value)], {r},
               IF config.write THEN InsertTrigger(replica, r, new, draw, value) ELSE Abort)
  BY DEF Insert
<1>0. config \in Configs /\ Translated /\ stray = "no" /\ replica = server /\ server \in Tables
  BY <1>1 DEF RowInv, Finish
<1> DEFINE v == Forwarded(new, value)
           w == Forwarded(new, draw)
           may == g = Null /\ ServerMay("Insert", "Check", Inserted(o, value))
           u == [server EXCEPT ![r] = Stored(v)]
           run == IF config.write THEN InsertTrigger(replica, r, new, draw, value) ELSE Abort
<1>2. v \in Written /\ Inserted(o, value) = Stored(v)
  BY <1>0, DrawsFacts DEF Forwarded, Inserted
<1>3. Judged("Insert", new, draw) = Stored(w)
  BY DEF Judged, Forwarded
<1>4. config.write => (ServerAllows("Insert", "Check", Stored(w)) <=> ServerAllows("Insert", "Check", Stored(v)))
  <2>1. CASE config.default # "volatile"
    BY <2>1, <1>0, DrawsFacts
  <2>2. CASE config.default = "volatile"
    <3> HIDE DEF v, w
    <3>1. QED BY <2>2, <1>0, VolatileUnread
  <2>3. QED BY <2>1, <2>2
<1>5. config.write \/ ~Exempted => (may /\ run = Run(u, Monitor(u, r, {}))) \/ (~may /\ run = Abort)
  <2>1. CASE ~config.write
    BY <2>1 DEF ServerMay
  <2>2. CASE config.write /\ g # Null
    <3>1. ComputedSupplied(new)
      BY <2>2 DEF ComputedSupplied
    <3>2. QED BY <2>2, <3>1 DEF InsertTrigger
  <2>3. CASE config.write /\ g = Null
    <3>1. ~ComputedSupplied(new)
      BY <2>3 DEF ComputedSupplied
    <3>2. may <=> Exempted \/ ServerAllows("Insert", "Check", Stored(v))
      BY <1>2, <2>3 DEF ServerMay
    <3>3. InsertBacking(server, r, v, {}) =
             IF Exempted \/ ServerAllows("Insert", "Check", Stored(v))
             THEN Run(u, Monitor(u, r, {})) ELSE Abort
      <4> HIDE DEF v
      <4>1. QED BY <1>0, <2>3, InsertBackingAgrees
    <3>4. Violated(InsertCheck, Stored(w)) <=> ~ServerAllows("Insert", "Check", Stored(w))
      <4> HIDE DEF w
      <4>1. QED BY <1>0, GuardsAgree DEF Violated
    <3>5. run = IF ~Exempted /\ ~ServerAllows("Insert", "Check", Stored(w))
                THEN Abort ELSE InsertBacking(server, r, v, {})
      BY <1>0, <1>3, <2>3, <3>1, <3>4 DEF InsertTrigger
    <3> HIDE DEF v, w, may, run, u
    <3>6. QED BY <1>4, <2>3, <3>2, <3>3, <3>5
  <2>4. QED BY <2>1, <2>2, <2>3
<1>6. Finish(ThroughView, may, TRUE, u, {r}, run)
  BY <1>1, <1>2
<1>7. u = [server EXCEPT ![r] = Stored(v)] /\ (~config.write => run = Abort)
  OBVIOUS
<1> HIDE DEF v, may, u, run
<1>8. CASE config.write \/ ~Exempted
  <2>1. ThroughView = "no"
    BY <1>8 DEF ThroughView
  <2>2. Matched(may, TRUE, u, {r}, run) /\ u \in Tables /\ (run.ok => run.table \in Tables)
    BY <1>0, <1>2, <1>5, <1>7, <1>8, WriteMatches
  <2>3. QED BY <1>6, <2>1, <2>2, FinishKeeps DEF Ended
<1>9. CASE ~config.write /\ Exempted
  <2>1. ThroughView = "ungranted"
    BY <1>9 DEF ThroughView
  <2>2. ~run.ok /\ u \in Tables
    BY <1>0, <1>2, <1>7, <1>9, RunFields, RowFacts DEF Tables
  <2>3. QED BY <1>6, <1>9, <2>1, <2>2, FinishKeeps DEF Ended
<1>10. QED BY <1>8, <1>9

\* INSERT ... RETURNING, redirected to the backing table: its own trigger
\* decides, or the guard of a role that may not write, where there is one.
LEMMA InsertReturningKeeps ==
    ASSUME RowInv, NEW r \in Rids, NEW o \in Written, InsertReturning(r, o)
    PROVE  RowInv'
<1>1. PICK value \in Draws :
        Finish(Straight,
               ServerMay("Insert", "Check", Inserted(o, value)), MayRead(Inserted(o, value)),
               [server EXCEPT ![r] = Inserted(o, value)], {r},
               InsertBacking(replica, r, Inserted(o, value).o, {}))
  BY DEF InsertReturning
<1>0. config \in Configs /\ stray = "no" /\ replica = server /\ server \in Tables
  BY <1>1 DEF RowInv, Finish
<1> DEFINE v == Forwarded([o |-> o, g |-> Null], value)
           may == ServerMay("Insert", "Check", Inserted(o, value))
           reads == MayRead(Stored(v))
           u == [server EXCEPT ![r] = Stored(v)]
           run == InsertBacking(server, r, v, {})
<1>2. v \in Written /\ Inserted(o, value) = Stored(v) /\ Inserted(o, value).o = v
  BY <1>0, DrawsFacts DEF Forwarded, Inserted, Stored
<1>3. config.write \/ config.exemption =>
        (may /\ run = Run(u, Monitor(u, r, {}))) \/ (~may /\ run = Abort)
  <2>1. CASE config.write
    <3>1. may <=> Exempted \/ ServerAllows("Insert", "Check", Stored(v))
      BY <1>2, <2>1 DEF ServerMay
    <3>2. run = IF Exempted \/ ServerAllows("Insert", "Check", Stored(v))
                THEN Run(u, Monitor(u, r, {})) ELSE Abort
      <4> HIDE DEF v
      <4>1. QED BY <1>0, <2>1, InsertBackingAgrees
    <3> HIDE DEF v, may, run, u
    <3>3. QED BY <3>1, <3>2
  <2>2. CASE ~config.write /\ config.exemption
    <3>1. may <=> ReadonlyBackingGuard
      BY <2>2 DEF Exempted, ReadonlyBackingGuard, ServerMay
    <3>2. QED BY <2>2, <3>1 DEF InsertBacking
  <2>3. QED BY <2>1, <2>2
<1>4. Finish(Straight, may, reads, u, {r}, run)
  BY <1>0, <1>1, <1>2
<1>5. /\ u = [server EXCEPT ![r] = Stored(v)]
      /\ run = Abort \/ run = Run(u, Monitor(u, r, {}))
  BY DEF InsertBacking
<1>6. u \in Tables /\ (reads \/ ~Readable(Stored(v)))
  BY <1>0, <1>2, RowFacts DEF Tables, MayRead
<1> HIDE DEF v, may, reads, u, run
<1>7. run.ok => run.table \in Tables
  BY <1>5, <1>6, RunFields
<1>8. CASE config.write \/ config.exemption
  <2>1. Straight = "no"
    BY <1>8 DEF Straight
  <2>2. Matched(may, reads, u, {r}, run)
    BY <1>0, <1>2, <1>3, <1>5, <1>6, <1>8, WriteMatches
  <2>3. QED BY <1>4, <1>6, <1>7, <2>1, <2>2, FinishKeeps DEF Ended
<1>9. CASE ~config.write /\ ~config.exemption
  <2>1. Straight = "ungranted"
    BY <1>9 DEF Straight
  <2>2. QED BY <1>4, <1>6, <1>7, <1>9, <2>1, FinishKeeps DEF Ended
<1>10. QED BY <1>8, <1>9

\* INSERT ... ON CONFLICT DO UPDATE, redirected: the insert trigger judges the
\* proposed row, then the update trigger the old row and the new one.  A
\* conflict with a row out of sight changes that row at most.
LEMMA UpsertKeeps ==
    ASSUME RowInv, NEW r \in Rids, NEW o \in Written, Upsert(r, o)
    PROVE  RowInv'
<1> DEFINE kind == IF MayRead(server[r]) THEN Straight ELSE "blind"
<1>1. PICK value \in Draws :
        Finish(kind,
               /\ ServerMay("Insert", "Check", Inserted(o, value))
               /\ ServerMay("Update", "Using", server[r])
               /\ ServerMay("Update", "Check", Inserted(o, value)),
               MayRead(server[r]) /\ MayRead(Inserted(o, value)),
               [server EXCEPT ![r] = Inserted(o, value)], {r},
               IF InsertBacking(replica, r, Inserted(o, value).o, {}).ok
               THEN UpdateBacking(replica, r, Inserted(o, value).o, {}) ELSE Abort)
  BY DEF Upsert
<1>0. /\ config \in Configs /\ stray = "no" /\ replica = server /\ server \in Tables
      /\ r \in Live(server)
  BY <1>1 DEF RowInv, Finish, Upsert
<1> DEFINE v == Forwarded([o |-> o, g |-> Null], value)
           may == /\ ServerMay("Insert", "Check", Inserted(o, value))
                  /\ ServerMay("Update", "Using", server[r])
                  /\ ServerMay("Update", "Check", Inserted(o, value))
           reads == MayRead(server[r]) /\ MayRead(Stored(v))
           u == [server EXCEPT ![r] = Stored(v)]
           run == IF InsertBacking(server, r, v, {}).ok
                  THEN UpdateBacking(server, r, v, {}) ELSE Abort
<1>2. v \in Written /\ Inserted(o, value) = Stored(v) /\ Inserted(o, value).o = v
  BY <1>0, DrawsFacts DEF Forwarded, Inserted, Stored
<1>3. config.write \/ config.exemption =>
        (may /\ run = Run(u, Monitor(u, r, {}))) \/ (~may /\ run = Abort)
  <2>1. CASE config.write
    <3>1. may <=> Exempted \/ (/\ ServerAllows("Insert", "Check", Stored(v))
                               /\ ServerAllows("Update", "Using", server[r])
                               /\ ServerAllows("Update", "Check", Stored(v)))
      BY <1>2, <2>1 DEF ServerMay
    <3>2. InsertBacking(server, r, v, {}) =
             IF Exempted \/ ServerAllows("Insert", "Check", Stored(v))
             THEN Run(u, Monitor(u, r, {})) ELSE Abort
      <4> HIDE DEF v
      <4>1. QED BY <1>0, <2>1, InsertBackingAgrees
    <3>3. InsertBacking(server, r, v, {}).ok <=>
             Exempted \/ ServerAllows("Insert", "Check", Stored(v))
      <4> HIDE DEF v, u
      <4>1. QED BY <3>2, RunFields
    <3>4. UpdateBacking(server, r, v, {}) =
             IF \/ Exempted
                \/ /\ ServerAllows("Update", "Using", server[r])
                   /\ ServerAllows("Update", "Check", Stored(v))
             THEN Run(u, Monitor(u, r, {})) ELSE Abort
      <4> HIDE DEF v
      <4>1. QED BY <1>0, <2>1, UpdateBackingAgrees
    <3> HIDE DEF v, may, u
    <3>5. QED BY <3>1, <3>3, <3>4
  <2>2. CASE ~config.write /\ config.exemption
    <3>1. may <=> ReadonlyBackingGuard
      BY <2>2 DEF Exempted, ReadonlyBackingGuard, ServerMay
    <3>2. InsertBacking(server, r, v, {}).ok <=> ReadonlyBackingGuard
      BY <2>2, RunFields DEF InsertBacking
    <3>3. ReadonlyBackingGuard => UpdateBacking(server, r, v, {}) = Run(u, Monitor(u, r, {}))
      BY <2>2 DEF UpdateBacking
    <3> HIDE DEF v, may, u
    <3>4. QED BY <3>1, <3>2, <3>3
  <2>3. QED BY <2>1, <2>2
<1>4. Finish(kind, may, reads, u, {r}, run)
  BY <1>0, <1>1, <1>2
<1>5. /\ u = [server EXCEPT ![r] = Stored(v)]
      /\ run = Abort \/ run = Run(u, Monitor(u, r, {}))
  BY DEF UpdateBacking
<1>6. /\ u \in Tables /\ \A q \in Rids : q # r => u[q] = server[q]
      /\ MayRead(server[r]) => reads \/ ~Readable(Stored(v))
  BY <1>0, <1>2, RowFacts DEF Tables, MayRead
<1> HIDE DEF v, may, u, run
<1>7. (run.ok => run.table = u) /\ (run.ok => run.table \in Tables)
  BY <1>5, <1>6, RunFields
<1>8. CASE ~MayRead(server[r])
  <2>1. kind = "blind" /\ ~reads
    BY <1>8
  <2>2. server[r] # NoRow /\ ~Readable(server[r])
    BY <1>0, <1>8 DEF Live, MayRead
  <2>3. OutOfSight(IF run.ok THEN run.table ELSE server, server)
    BY <1>6, <1>7, <2>2 DEF OutOfSight
  <2> HIDE DEF kind, reads
  <2>4. Ended(kind, may, reads, u, {r}, run)
    BY <1>6, <1>7, <2>1, <2>3 DEF Ended
  <2>5. QED BY <1>4, <2>4, FinishKeeps
<1>9. CASE MayRead(server[r]) /\ (config.write \/ config.exemption)
  <2>1. kind = "no"
    BY <1>9 DEF Straight
  <2> HIDE DEF kind, reads
  <2>2. Matched(may, reads, u, {r}, run)
    BY <1>0, <1>2, <1>3, <1>5, <1>6, <1>9, WriteMatches
  <2>3. Ended(kind, may, reads, u, {r}, run)
    BY <1>6, <1>7, <2>1, <2>2 DEF Ended
  <2>4. QED BY <1>4, <2>3, FinishKeeps
<1>10. CASE MayRead(server[r]) /\ ~config.write /\ ~config.exemption
  <2>1. kind = "ungranted"
    BY <1>10 DEF Straight
  <2> HIDE DEF kind, reads
  <2>2. Ended(kind, may, reads, u, {r}, run)
    BY <1>6, <1>7, <1>10, <2>1 DEF Ended
  <2>3. QED BY <1>4, <2>2, FinishKeeps
<1>11. QED BY <1>8, <1>9, <1>10

\* An authoritative load under the exemption passes every guard, and its rows
\* are monitored like any other.
LEMMA LoadKeeps ==
    ASSUME RowInv, NEW r \in Rids, NEW row \in TableRows, Load(r, row)
    PROVE  RowInv'
<1>0. /\ config \in Configs /\ stray = "no" /\ replica = server /\ server \in Tables
      /\ Exempted
  BY DEF RowInv, Load, Finish
<1> DEFINE u == [server EXCEPT ![r] = row]
           run == IF row = NoRow THEN DeleteBacking(server, r, {})
                  ELSE IF r \in Live(server) THEN UpdateBacking(server, r, row.o, {})
                  ELSE InsertBacking(server, r, row.o, {})
<1>1. Finish("no", TRUE, TRUE, u, {r}, run)
  BY <1>0 DEF Load
<1>2. /\ ReadonlyBackingGuard /\ \A old : DeleteCheckTrigger(old)
      /\ \A new : InsertCheckTrigger(new)
      /\ \A old, new : UpdateCheckTrigger(old, new)
  BY <1>0 DEF Exempted, ReadonlyBackingGuard, DeleteCheckTrigger, InsertCheckTrigger, UpdateCheckTrigger
<1>3. CASE row = NoRow
  <2>1. run = Run(u, {})
    BY <1>2, <1>3 DEF DeleteBacking
  <2>2. run.ok /\ run.table = u /\ run.log = {}
    <3> HIDE DEF u, run
    <3>1. QED BY <2>1, RunFields
  <2>3. u \in Tables /\ u[r] = NoRow
    BY <1>0, <1>3, RowFacts DEF Tables
  <2> HIDE DEF u, run
  <2>4. Unread(TRUE, u, {r}) = {}
    BY <2>3 DEF Unread, Live
  <2>5. Ended("no", TRUE, TRUE, u, {r}, run)
    BY <2>2, <2>3, <2>4 DEF Ended, Matched
  <2>6. QED BY <1>1, <2>5, FinishKeeps
<1>4. CASE row # NoRow
  <2>1. row \in StoredRows
    BY <1>4 DEF TableRows
  <2>2. row.o \in Written /\ Stored(row.o) = row
    BY <2>1, RowFacts
  <2>3. run = Run(u, Monitor(u, r, {}))
    BY <1>2, <1>4, <2>2 DEF InsertBacking, UpdateBacking
  <2>4. u = [server EXCEPT ![r] = Stored(row.o)]
    BY <2>2
  <2> HIDE DEF u, run
  <2>5. Matched(TRUE, TRUE, u, {r}, run) /\ u \in Tables /\ (run.ok => run.table \in Tables)
    BY <1>0, <2>2, <2>3, <2>4, WriteMatches
  <2>6. QED BY <1>1, <2>5, FinishKeeps DEF Ended
<1>5. QED BY <1>3, <1>4

----------------------------------------------------------------------------
(* Statements that write several rows: one loop inside another.  RowLoop's  *)
(* theorem is taken once for each trigger.                                  *)

UpdateForwardLoop == INSTANCE RowLoopProofs WITH Fire <- UpdateForward
UpdateViewLoop == INSTANCE RowLoopProofs WITH Fire <- UpdateFire
DeleteForwardLoop == INSTANCE RowLoopProofs WITH Fire <- DeleteForward
DeleteViewLoop == INSTANCE RowLoopProofs WITH Fire <- DeleteFire

Logs == SUBSET (Rids \X TableRows)

\* A table with one row written over some of its rows, and the audit rows the
\* monitors of a table with a key add for them.
Over(t, d, row) == [q \in Rids |-> IF q \in d THEN row ELSE t[q]]
Logged(log, d, row) == log \cup {<<q, row>> : q \in {p \in d : ~Readable(row)}}

LEMMA OverFacts ==
    ASSUME NEW t \in Tables, NEW d \in SUBSET Rids, NEW row \in TableRows
    PROVE  /\ Over(t, d, row) \in Tables
           /\ \A q \in Rids : Over(t, d, row)[q] = IF q \in d THEN row ELSE t[q]
           /\ Over(t, {}, row) = t
           /\ \A k \in Rids : [Over(t, d, row) EXCEPT ![k] = row] = Over(t, d \cup {k}, row)
<1>1. /\ Over(t, d, row) \in Tables
      /\ \A q \in Rids : Over(t, d, row)[q] = IF q \in d THEN row ELSE t[q]
  BY DEF Over, Tables
<1>2. Over(t, {}, row) = t
  BY DEF Over, Tables
<1>3. ASSUME NEW k \in Rids
      PROVE  [Over(t, d, row) EXCEPT ![k] = row] = Over(t, d \cup {k}, row)
  BY DEF Over
<1>4. QED BY <1>1, <1>2, <1>3

\* The forwarding UPDATE writes every row it matches, when the policies let it.
LEMMA UpdateForwards ==
    ASSUME config \in Configs, config.write, NEW t \in Tables, NEW log \in Logs,
           NEW o \in Written, NEW R \in SUBSET Rids,
           \A q \in R : \/ Exempted
                        \/ /\ ServerAllows("Update", "Using", t[q])
                           /\ ServerAllows("Update", "Check", Stored(o))
    PROVE  \E l \in Logs :
             /\ ForwardUpdate!ForEachRow(o, R, Capacity, Run(t, log)) = Run(Over(t, R, Stored(o)), l)
             /\ config.hasPk /\ ~ReadPredicate.deny => l = Logged(log, R, Stored(o))
<1> DEFINE row == Stored(o)
           Fits(d, l) == config.hasPk /\ ~ReadPredicate.deny => l = Logged(log, d, row)
           J == {x \in {<<d, Run(Over(t, d, row), l)>> : d \in SUBSET R, l \in Logs} :
                   Fits(x[1], x[2].log)}
           start == Run(t, log)
           result == ForwardUpdate!ForEachRow(o, R, Capacity, start)
<1>1. row \in TableRows /\ row # NoRow
  BY RowFacts
<1>2. Capacity \in Nat /\ R \subseteq 1..Capacity
  BY ConfigsAssumption DEF Rids
<1>3. <<{}, start>> \in J
  <2>1. Over(t, {}, row) = t
    BY <1>1, OverFacts
  <2>2. Fits({}, start.log)
    BY RunFields DEF Logged
  <2>3. <<{}, start>> \in {<<d, Run(Over(t, d, row), l)>> : d \in SUBSET R, l \in Logs}
    BY <2>1
  <2> HIDE DEF Fits, start
  <2>4. QED BY <2>2, <2>3
<1>4. ASSUME NEW d \in SUBSET R, NEW k \in R \ d, NEW run, <<d, run>> \in J
      PROVE  <<d \cup {k}, UpdateForward(o, run, k)>> \in J
  <2>1. PICK l \in Logs : run = Run(Over(t, d, row), l) /\ Fits(d, run.log)
    <3> HIDE DEF Fits, row
    <3>1. QED BY <1>4
  <2> DEFINE u == [Over(t, d, row) EXCEPT ![k] = row]
  <2>2. run.table = Over(t, d, row) /\ run.log = l
    BY <2>1, RunFields
  <2>3. Over(t, d, row)[k] = t[k] /\ u = Over(t, d \cup {k}, row) /\ u \in Tables /\ u[k] = row
    <3>1. k \in Rids /\ d \in SUBSET Rids /\ d \cup {k} \in SUBSET Rids
      OBVIOUS
    <3>2. k \notin d
      OBVIOUS
    <3> HIDE DEF row
    <3>3. Over(t, d, row)[k] = t[k] /\ u = Over(t, d \cup {k}, row)
      BY <1>1, <3>1, <3>2, OverFacts
    <3>4. Over(t, d \cup {k}, row) \in Tables /\ Over(t, d \cup {k}, row)[k] = row
      BY <1>1, <3>1, OverFacts
    <3> HIDE DEF u
    <3>5. QED BY <3>3, <3>4
  <2>4. UpdateForward(o, run, k) = Run(u, Monitor(u, k, l))
    <3>1. UpdateForward(o, run, k) = UpdateBacking(Over(t, d, row), k, o, l)
      BY <2>2 DEF UpdateForward
    <3>2. \/ Exempted
          \/ ServerAllows("Update", "Using", Over(t, d, row)[k]) /\ ServerAllows("Update", "Check", row)
      BY <2>3
    <3>3. UpdateBacking(Over(t, d, row), k, o, l) = Run(u, Monitor(u, k, l))
      BY <3>2, UpdateBackingAgrees
    <3>4. QED BY <3>1, <3>3
  <2>5. Monitor(u, k, l) \in Logs
    <3>1. <<k, u[k]>> \in Rids \X TableRows
      BY <1>1, <2>3
    <3>2. Monitor(u, k, l) \in {l, l \cup {<<k, u[k]>>}}
      BY DEF Monitor
    <3> HIDE DEF u
    <3>3. QED BY <3>1, <3>2 DEF Logs
  <2>6. Fits(d \cup {k}, Monitor(u, k, l))
    <3>1. SUFFICES ASSUME config.hasPk, ~ReadPredicate.deny
                   PROVE  Monitor(u, k, l) = Logged(log, d \cup {k}, row)
      OBVIOUS
    <3>2. l = Logged(log, d, row)
      BY <2>1, <2>2, <3>1
    <3>3. k \in Live(u)
      BY <1>1, <2>3 DEF Live
    <3>4. Monitor(u, k, l) = IF Readable(row) THEN l ELSE l \cup {<<k, row>>}
      <4> HIDE DEF u, row
      <4>1. Monitor(u, k, l) = IF Readable(u[k]) THEN l ELSE l \cup {<<k, u[k]>>}
        BY <3>1, <3>3, MonitorAgrees
      <4>2. QED BY <2>3, <4>1
    <3> HIDE DEF u, row
    <3>5. QED BY <3>2, <3>4 DEF Logged
  <2>7. <<d \cup {k}, Run(u, Monitor(u, k, l))>> \in
           {<<e, Run(Over(t, e, row), m)>> : e \in SUBSET R, m \in Logs}
    BY <2>3, <2>5
  <2>8. Run(u, Monitor(u, k, l)).log = Monitor(u, k, l)
    BY RunFields
  <2> HIDE DEF u, Fits, row
  <2>9. QED BY <2>4, <2>6, <2>7, <2>8
<1>5. UpdateForwardLoop!LoopInvariant(J, o, R, start)
  <2> HIDE DEF J, start
  <2>1. QED BY <1>3, <1>4 DEF UpdateForwardLoop!LoopInvariant
<1>6. result = UpdateForwardLoop!ForEachRow(o, R, Capacity, start)
  BY DEF ForwardUpdate!ForEachRow, UpdateForwardLoop!ForEachRow
<1>7. PICK d \in SUBSET R : <<d, result>> \in J /\ (result.ok => d = R)
  <2> HIDE DEF J, result, start
  <2>1. QED BY <1>2, <1>5, <1>6, UpdateForwardLoop!LoopKeeps
<1>8. PICK l \in Logs : result = Run(Over(t, d, row), l) /\ Fits(d, result.log)
  <2> HIDE DEF Fits, row, result
  <2>1. QED BY <1>7
<1>9. result.ok /\ result.log = l
  BY <1>8, RunFields
<1>10. d = R
  BY <1>7, <1>9
<1>11. QED BY <1>8, <1>9, <1>10

\* The backing rows a firing writes: the ones its view row stands for, if the
\* policies let it.
Addressed(command, t, id, old) ==
    {q \in Live(t) : /\ RowIdentity(t, q, id, old)
                     /\ Exempted \/ ServerAllows(command, "Using", old)}

\* INSTEAD OF UPDATE for one row of the view, whose backing rows still hold
\* what the view showed: it aborts where the server refuses the new row, or
\* where nothing is granted and the caller wants that to fail; otherwise it
\* writes the backing rows the view row stands for, if it may.
LEMMA UpdateTriggerAgrees ==
    ASSUME config \in Configs, config.write, NEW t \in Tables, NEW log \in Logs,
           NEW id \in Rids, NEW old \in StoredRows, NEW o \in Written, NEW R,
           config.hasPk => t[id] = old,
           R = Addressed("Update", t, id, old)
    PROVE  \/ /\ UpdateTrigger(Run(t, log), id, old, o) = Abort
              /\ ~Exempted /\ ServerAllows("Update", "Using", old)
              /\ ~ServerAllows("Update", "Check", Stored(o))
           \/ /\ UpdateTrigger(Run(t, log), id, old, o) = Abort
              /\ ~Exempted /\ UpdateUsing.deny /\ config.strictDeny
           \/ /\ \/ Exempted
                 \/ ~ServerAllows("Update", "Using", old)
                 \/ ServerAllows("Update", "Check", Stored(o))
              /\ \E l \in Logs :
                   /\ UpdateTrigger(Run(t, log), id, old, o) = Run(Over(t, R, Stored(o)), l)
                   /\ config.hasPk /\ ~ReadPredicate.deny => l = Logged(log, R, Stored(o))
<1> DEFINE run == Run(t, log)
           result == UpdateTrigger(run, id, old, o)
           denies == FilterPolicies("Update") = {} \/ UpdateUsing.deny
           new == [old EXCEPT !.o = o]
           raised == /\ ~denies /\ ~Exempted
                     /\ AllowAll(UpdateUsing) \/ EvalCombined(UpdateUsing, old) = "T"
                     /\ Violated(UpdateCheck, Judged("Update", new, Null))
           rows == {q \in Live(run.table) :
                      /\ RowIdentity(run.table, q, id, old)
                      /\ Exempted \/ (~denies /\ EvalCombined(UpdateUsing, old) = "T")}
<1>1. result = IF denies /\ ~Exempted THEN IF Denied THEN Abort ELSE run
               ELSE IF raised THEN Abort
               ELSE ForwardUpdate!ForEachRow(o, rows, Capacity, run)
  BY DEF UpdateTrigger
<1>2. denies <=> UpdateUsing.deny
  BY Shortcuts
<1>3. EvalCombined(UpdateUsing, old) = "T" <=> ServerAllows("Update", "Using", old)
  BY GuardsAgree
<1>4. UpdateUsing.deny => ~ServerAllows("Update", "Using", old)
  BY <1>3, Shortcuts
<1>5. Judged("Update", new, Null) = Stored(o)
  BY DEF Judged, StoredRows, Stored
<1>6. raised <=> /\ ~Exempted /\ ServerAllows("Update", "Using", old)
                 /\ ~ServerAllows("Update", "Check", Stored(o))
  <2>1. Violated(UpdateCheck, Stored(o)) <=> ~ServerAllows("Update", "Check", Stored(o))
    BY GuardsAgree DEF Violated
  <2>2. AllowAll(UpdateUsing) => ServerAllows("Update", "Using", old)
    BY <1>3, Shortcuts
  <2> HIDE DEF denies, new
  <2>3. QED BY <1>2, <1>3, <1>4, <1>5, <2>1, <2>2
<1>7. rows = R
  <2>1. run.table = t
    BY RunFields
  <2> HIDE DEF run, denies
  <2>2. QED BY <1>2, <1>3, <1>4, <2>1 DEF Addressed
<1>8. R \in SUBSET Rids /\ \A q \in R : t[q] = old
  BY DEF Live, RowIdentity, Addressed
<1>9. Stored(o) \in TableRows
  BY RowFacts
<1> HIDE DEF result, raised, rows, denies
<1>10. CASE denies /\ ~Exempted
  <2>1. R = {}
    BY <1>2, <1>4, <1>10 DEF Addressed
  <2>2. Over(t, R, Stored(o)) = t /\ Logged(log, R, Stored(o)) = log
    <3>1. Over(t, {}, Stored(o)) = t
      BY <1>9, OverFacts
    <3>2. Logged(log, {}, Stored(o)) = log
      BY DEF Logged
    <3>3. QED BY <2>1, <3>1, <3>2
  <2>3. CASE config.strictDeny
    BY <1>1, <1>2, <1>10, <2>3 DEF Denied, result, run
  <2>4. CASE ~config.strictDeny
    <3>1. result = Run(Over(t, R, Stored(o)), log)
      BY <1>1, <1>10, <2>2, <2>4 DEF Denied
    <3>2. QED BY <1>2, <1>4, <1>10, <2>2, <3>1 DEF result, run
  <2>5. QED BY <2>3, <2>4
<1>11. CASE ~(denies /\ ~Exempted) /\ raised
  BY <1>1, <1>6, <1>11 DEF result, run
<1>12. CASE ~(denies /\ ~Exempted) /\ ~raised
  <2>1. result = ForwardUpdate!ForEachRow(o, R, Capacity, run)
    BY <1>1, <1>7, <1>12
  <2>2. \A q \in R : \/ Exempted
                    \/ /\ ServerAllows("Update", "Using", t[q])
                       /\ ServerAllows("Update", "Check", Stored(o))
    BY <1>6, <1>8, <1>12 DEF Addressed
  <2>3. \E l \in Logs :
          /\ result = Run(Over(t, R, Stored(o)), l)
          /\ config.hasPk /\ ~ReadPredicate.deny => l = Logged(log, R, Stored(o))
    BY <1>8, <2>1, <2>2, UpdateForwards
  <2>4. QED BY <1>6, <1>12, <2>3 DEF result, run
<1>13. QED BY <1>10, <1>11, <1>12

----------------------------------------------------------------------------
(* The loop over the view's rows                                           *)

\* The table of a statement under way: d are the rows of the view it has fired
\* for, T the rows it shall write, row what it writes.  Without a key a firing
\* writes every row equal to its own, so rows of T that are not in d may have
\* been written already.
Progress(d, t, T, row) ==
    /\ t \in Tables
    /\ \A q \in Rids \ T : t[q] = server[q]
    /\ \A q \in T : t[q] = server[q] \/ t[q] = row
    /\ \A q \in d \cap T : t[q] = row
    /\ config.hasPk => \A q \in Rids \ d : t[q] = server[q]

\* Firing for one more row k, which writes the rows R that k stands for.
LEMMA ProgressStep ==
    ASSUME NEW T \in SUBSET Rids, NEW d \in SUBSET Rids, NEW k \in Rids \ d, NEW t,
           NEW row \in TableRows, NEW R \in SUBSET Rids, Progress(d, t, T, row),
           \A q \in R : t[q] = server[k] /\ k \in T /\ (config.hasPk => q = k),
           k \in T /\ t[k] = server[k] => k \in R,
           \A q \in Rids : k \in T /\ server[q] = server[k] => q \in T
    PROVE  /\ Progress(d \cup {k}, Over(t, R, row), T, row)
           /\ R \subseteq T
           /\ config.hasPk => (d \cup {k}) \cap T = (d \cap T) \cup R
<1>1. t \in Tables
  BY DEF Progress
<1>2. /\ Over(t, R, row) \in Tables
      /\ \A q \in Rids : Over(t, R, row)[q] = IF q \in R THEN row ELSE t[q]
  BY <1>1, OverFacts
<1>3. R \subseteq T
  <2>1. SUFFICES ASSUME NEW q \in R, q \notin T PROVE FALSE
    OBVIOUS
  <2>2. t[q] = server[q]
    BY <2>1 DEF Progress
  <2>3. QED BY <2>1, <2>2
<1>4. \A q \in Rids \ T : Over(t, R, row)[q] = server[q]
  BY <1>2, <1>3 DEF Progress
<1>5. \A q \in T : Over(t, R, row)[q] = server[q] \/ Over(t, R, row)[q] = row
  BY <1>2 DEF Progress
<1>6. \A q \in (d \cup {k}) \cap T : Over(t, R, row)[q] = row
  BY <1>2 DEF Progress
<1>7. config.hasPk => \A q \in Rids \ (d \cup {k}) : Over(t, R, row)[q] = server[q]
  BY <1>2 DEF Progress
<1>8. config.hasPk => (d \cup {k}) \cap T = (d \cap T) \cup R
  <2>1. config.hasPk => t[k] = server[k] /\ R \subseteq {k}
    BY DEF Progress
  <2>2. QED BY <1>3, <2>1
<1>9. QED BY <1>2, <1>3, <1>4, <1>5, <1>6, <1>7, <1>8 DEF Progress

\* The rows of the view a statement may write are the rows the server writes
\* that can be read.
LEMMA TargetsAgree ==
    ASSUME RowInv, stray = "no", config.write, NEW command, NEW where
    PROVE  /\ ViewTargets(where) =
                {r \in Live(server) : Readable(server[r]) /\ Matches(where, server[r])}
           /\ {r \in ViewTargets(where) : Exempted \/ ServerAllows(command, "Using", server[r])}
                = {r \in ServerTargets(command, where) : Readable(server[r])}
<1>1. config \in Configs /\ replica = server
  BY DEF RowInv
<1>2. ViewTargets(where) =
         {r \in Live(server) : Readable(server[r]) /\ Matches(where, server[r])}
  BY <1>1, VisibleAgrees DEF ViewTargets
<1>3. \A r \in Live(server) :
        ServerMay(command, "Using", server[r]) <=> Exempted \/ ServerAllows(command, "Using", server[r])
  BY DEF ServerMay
<1>4. \A r \in Live(server) : Readable(server[r]) =>
        (r \in ServerTargets(command, where) <=>
          Matches(where, server[r]) /\ ServerMay(command, "Using", server[r]))
  BY DEF ServerTargets, MayRead
<1>5. ServerTargets(command, where) \subseteq Live(server)
  BY DEF ServerTargets
<1>6. QED BY <1>2, <1>3, <1>4, <1>5

AnyRuns == {Abort} \cup {Run(t, l) : t \in Tables, l \in Logs}

\* The loop of an UPDATE over the view's rows: it writes the rows T it may and
\* records what the monitors should, or stops where the server refuses the new
\* row, or where nothing is granted and the caller wants that to fail.
LEMMA UpdateLoop ==
    ASSUME RowInv, stray = "no", config.write, NEW where, NEW o \in Written, NEW T,
           T = {r \in ViewTargets(where) : Exempted \/ ServerAllows("Update", "Using", server[r])},
           NEW loop, loop = UpdateView!ForEachRow(o, ViewTargets(where), Capacity, Run(replica, {}))
    PROVE  \/ /\ loop.ok /\ loop.table = Over(server, T, Stored(o))
              /\ T # {} => Exempted \/ ServerAllows("Update", "Check", Stored(o))
              /\ config.hasPk /\ ~ReadPredicate.deny => loop.log = Logged({}, T, Stored(o))
           \/ /\ loop = Abort
              /\ \/ T # {} /\ ~(Exempted \/ ServerAllows("Update", "Check", Stored(o)))
                 \/ T = {} /\ ~Exempted /\ UpdateUsing.deny /\ config.strictDeny
<1>0. config \in Configs /\ replica = server /\ server \in Tables
  BY DEF RowInv
<1> DEFINE V == ViewTargets(where)
           row == Stored(o)
           start == Run(server, {})
<1>20. row \in TableRows /\ row # NoRow /\ T \in SUBSET Rids
  BY RowFacts DEF ViewTargets, Visible, Live
<1> DEFINE Check == Exempted \/ ServerAllows("Update", "Check", Stored(o))
           May(r) == Exempted \/ ServerAllows("Update", "Using", server[r])
           Denying == ~Exempted /\ UpdateUsing.deny /\ config.strictDeny
           Stopped == (T # {} /\ ~Check) \/ Denying
           Going(d, t, l) == /\ Progress(d, t, T, row)
                             /\ d \cap T # {} => Check
                             /\ config.hasPk /\ ~ReadPredicate.deny => l = Logged({}, d \cap T, row)
           J == {x \in (SUBSET V) \X AnyRuns :
                   IF x[2].ok THEN Going(x[1], x[2].table, x[2].log) ELSE Stopped}
<1>1. /\ V = {r \in Live(server) : Readable(server[r]) /\ Matches(where, server[r])}
      /\ T = {r \in V : May(r)}
  BY TargetsAgree
<1>2. V \in SUBSET Rids /\ \A r \in V : server[r] \in StoredRows /\ server[r] # NoRow
  BY <1>0, <1>1 DEF Live, Tables, TableRows
<1>4. UpdateUsing.deny => \A r \in V : ~ServerAllows("Update", "Using", server[r])
  BY <1>0, GuardsAgree, Shortcuts
<1>5. <<{}, start>> \in J
  <2>1. start.ok /\ start.table = server /\ start.log = {} /\ start \in AnyRuns
    <3>1. {} \in Logs
      BY DEF Logs
    <3>2. QED BY <1>0, <3>1, RunFields DEF AnyRuns
  <2>2. Progress({}, server, T, row)
    BY <1>0 DEF Progress
  <2>3. Logged({}, {} \cap T, row) = {}
    BY DEF Logged
  <2> HIDE DEF start, row, V, Check
  <2>4. Going({}, start.table, start.log)
    BY <2>1, <2>2, <2>3
  <2> HIDE DEF Going, Stopped
  <2>5. QED BY <2>1, <2>4
<1>6. ASSUME NEW d \in SUBSET V, NEW k \in V \ d, NEW x, <<d, x>> \in J, x.ok
      PROVE  <<d \cup {k}, UpdateFire(o, x, k)>> \in J
  <2>1. x \in AnyRuns /\ Going(d, x.table, x.log)
    <3> HIDE DEF Going, Stopped, V
    <3>1. QED BY <1>6
  <2>2. PICK t \in Tables, l \in Logs : x = Run(t, l)
    BY <1>6, <2>1, RunFields DEF AnyRuns
  <2>3. Going(d, t, l)
    BY <2>1, <2>2, RunFields
  <2> DEFINE old == server[k]
             R == Addressed("Update", t, k, old)
             y == UpdateTrigger(Run(t, l), k, old, o)
  <2>4. UpdateFire(o, x, k) = y
    BY <1>0, <2>2 DEF UpdateFire
  <2>5. k \in Rids \ d /\ d \in SUBSET Rids /\ old \in StoredRows /\ old # NoRow
    BY <1>2
  <2>6. Progress(d, t, T, row)
    BY <2>3
  <2>7. config.hasPk => t[k] = old
    BY <2>5, <2>6 DEF Progress
  <2>8. k \in T <=> May(k)
    BY <1>1
  <2>9. \/ y = Abort /\ May(k) /\ ~Check
        \/ y = Abort /\ Denying
        \/ /\ May(k) => Check
           /\ \E m \in Logs :
                /\ y = Run(Over(t, R, Stored(o)), m)
                /\ config.hasPk /\ ~ReadPredicate.deny => m = Logged(l, R, Stored(o))
    <3>1. \/ /\ y = Abort
             /\ ~Exempted /\ ServerAllows("Update", "Using", old)
             /\ ~ServerAllows("Update", "Check", Stored(o))
          \/ /\ y = Abort
             /\ ~Exempted /\ UpdateUsing.deny /\ config.strictDeny
          \/ /\ \/ Exempted
                \/ ~ServerAllows("Update", "Using", old)
                \/ ServerAllows("Update", "Check", Stored(o))
             /\ \E m \in Logs :
                  /\ y = Run(Over(t, R, Stored(o)), m)
                  /\ config.hasPk /\ ~ReadPredicate.deny => m = Logged(l, R, Stored(o))
      <4>1. R = Addressed("Update", t, k, old)
        OBVIOUS
      <4> HIDE DEF R, old
      <4>2. QED BY <1>0, <2>5, <2>7, <4>1, UpdateTriggerAgrees
    <3> HIDE DEF y, R
    <3>2. QED BY <3>1
  <2>10. CASE y = Abort /\ ((May(k) /\ ~Check) \/ Denying)
    <3>1. Stopped
      BY <2>8, <2>10
    <3>2. ~y.ok /\ y \in AnyRuns
      BY <2>10, RunFields DEF AnyRuns
    <3>3. d \cup {k} \in SUBSET V
      OBVIOUS
    <3> HIDE DEF Stopped, Going, y, V
    <3>4. QED BY <2>4, <3>1, <3>2, <3>3
  <2>11. ASSUME May(k) => Check, NEW m \in Logs,
                y = Run(Over(t, R, row), m),
                config.hasPk /\ ~ReadPredicate.deny => m = Logged(l, R, row)
         PROVE  <<d \cup {k}, y>> \in J
    <3>1. R \in SUBSET Rids /\ \A q \in R : t[q] = old /\ k \in T /\ (config.hasPk => q = k)
      <4>1. \A q \in R : q \in Live(t) /\ RowIdentity(t, q, k, old) /\ May(k)
        BY DEF Addressed
      <4> HIDE DEF R, May
      <4>2. QED BY <2>7, <2>8, <4>1 DEF Live, RowIdentity
    <3>2. k \in T /\ t[k] = old => k \in R
      <4>1. k \in T => May(k)
        BY <2>8
      <4>2. t[k] = old => k \in Live(t) /\ RowIdentity(t, k, k, old)
        BY <2>5 DEF Live, RowIdentity
      <4>3. QED BY <4>1, <4>2 DEF Addressed
    <3>3. \A q \in Rids : k \in T /\ server[q] = old => q \in T
      BY <1>1, <2>5 DEF Live
    <3>4. /\ Progress(d \cup {k}, Over(t, R, row), T, row)
          /\ config.hasPk => (d \cup {k}) \cap T = (d \cap T) \cup R
      <4>1. old = server[k]
        OBVIOUS
      <4> HIDE DEF R, row, old
      <4>2. QED BY <1>20, <2>5, <2>6, <3>1, <3>2, <3>3, <4>1, ProgressStep
    <3>5. (d \cup {k}) \cap T # {} => Check
      <4>1. d \cap T # {} => Check
        BY <2>3
      <4> HIDE DEF Check, May
      <4>2. QED BY <2>8, <2>11, <4>1
    <3>6. config.hasPk /\ ~ReadPredicate.deny => m = Logged({}, (d \cup {k}) \cap T, row)
      <4>1. SUFFICES ASSUME config.hasPk, ~ReadPredicate.deny
                     PROVE  m = Logged({}, (d \cup {k}) \cap T, row)
        OBVIOUS
      <4>2. l = Logged({}, d \cap T, row) /\ m = Logged(l, R, row)
        BY <2>3, <2>11, <4>1
      <4>3. (d \cup {k}) \cap T = (d \cap T) \cup R
        BY <3>4, <4>1
      <4> HIDE DEF R, row
      <4>4. Logged(Logged({}, d \cap T, row), R, row) = Logged({}, (d \cap T) \cup R, row)
        BY DEF Logged
      <4>5. QED BY <4>2, <4>3, <4>4
    <3>7. y.ok /\ y.table = Over(t, R, row) /\ y.log = m
      BY <2>11, RunFields
    <3>8. Over(t, R, row) \in Tables
      BY <3>4 DEF Progress
    <3>9. y \in AnyRuns
      <4> HIDE DEF y, R, row
      <4>1. QED BY <2>11, <3>8 DEF AnyRuns
    <3>10. Going(d \cup {k}, y.table, y.log)
      <4> HIDE DEF R, row, y, Check
      <4>1. QED BY <3>4, <3>5, <3>6, <3>7
    <3>11. d \cup {k} \in SUBSET V
      OBVIOUS
    <3> HIDE DEF Going, Stopped, y, V
    <3>12. QED BY <3>7, <3>9, <3>10, <3>11
  <2> HIDE DEF J, y, R, Check, May, Denying, V
  <2>12. QED BY <2>4, <2>9, <2>10, <2>11
<1>7. UpdateViewLoop!LoopInvariant(J, o, V, start)
  <2> HIDE DEF J, start, V
  <2>1. QED BY <1>5, <1>6 DEF UpdateViewLoop!LoopInvariant
<1>8. loop = UpdateViewLoop!ForEachRow(o, V, Capacity, start)
  <2>1. loop = UpdateView!ForEachRow(o, V, Capacity, start)
    BY <1>0
  <2>2. QED BY <2>1 DEF UpdateView!ForEachRow, UpdateViewLoop!ForEachRow
<1>9. PICK d \in SUBSET V : <<d, loop>> \in J /\ (loop.ok => d = V)
  <2>1. Capacity \in Nat /\ V \subseteq 1..Capacity
    BY <1>2, ConfigsAssumption DEF Rids
  <2> DEFINE last == UpdateViewLoop!ForEachRow(o, V, Capacity, start)
  <2> HIDE DEF J, start, V
  <2>2. \E d \in SUBSET V : <<d, last>> \in J /\ (last.ok => d = V)
    BY <1>7, <2>1, UpdateViewLoop!LoopKeeps
  <2>3. loop = last
    BY <1>8
  <2> HIDE DEF last
  <2>4. QED BY <2>2, <2>3
<1>10. /\ loop \in AnyRuns
       /\ loop.ok => Going(V, loop.table, loop.log)
       /\ ~loop.ok => Stopped
  <2> HIDE DEF Going, Stopped, V
  <2>1. QED BY <1>9
<1>12. T \subseteq V /\ V \cap T = T
  BY <1>1
<1>13. CASE loop.ok
  <2>1. Progress(V, loop.table, T, row) /\ (V \cap T # {} => Check)
    BY <1>10, <1>13
  <2>2. loop.table = Over(server, T, row)
    <3>1. /\ Over(server, T, row) \in Tables
          /\ \A q \in Rids : Over(server, T, row)[q] = IF q \in T THEN row ELSE server[q]
      <4> HIDE DEF row
      <4>1. QED BY <1>0, <1>20, OverFacts
    <3>2. loop.table \in Tables /\ \A q \in Rids : loop.table[q] = Over(server, T, row)[q]
      <4> HIDE DEF V, row
      <4>1. QED BY <1>20, <1>12, <2>1, <3>1 DEF Progress
    <3> HIDE DEF row
    <3>3. QED BY <3>1, <3>2 DEF Tables
  <2>3. config.hasPk /\ ~ReadPredicate.deny => loop.log = Logged({}, T, row)
    <3>1. config.hasPk /\ ~ReadPredicate.deny => loop.log = Logged({}, V \cap T, row)
      BY <1>10, <1>13
    <3> HIDE DEF V, row
    <3>2. QED BY <1>12, <3>1
  <2> HIDE DEF V
  <2>4. QED BY <1>12, <1>13, <2>1, <2>2, <2>3
<1>14. CASE ~loop.ok
  <2>1. loop = Abort
    <3>1. \A t, l : Run(t, l).ok
      BY RunFields
    <3>2. QED BY <1>10, <1>14, <3>1 DEF AnyRuns
  <2>2. CASE T # {} /\ ~Check
    BY <2>1, <2>2
  <2>3. CASE Denying
    <3>1. \A r \in V : ~May(r)
      BY <1>4, <2>3
    <3>2. T = {}
      <4> HIDE DEF V, May
      <4>1. QED BY <1>1, <3>1
    <3>3. QED BY <2>1, <2>3, <3>2
  <2>4. QED BY <1>10, <1>14, <2>2, <2>3
<1>15. QED BY <1>13, <1>14

\* A statement of a role that may not write: the server refuses it, and the
\* view has no triggers to write through.
LEMMA UngrantedKeeps ==
    ASSUME RowInv, ~config.write, NEW command, NEW where, NEW T, T = ServerTargets(command, where),
           NEW may, may => Granted, NEW reads, NEW rows \in Tables,
           Finish(Reaching(T), may, reads, rows, T, Abort)
    PROVE  RowInv'
<1>1. ~Abort.ok /\ Abort.log = {}
  BY RunFields
<1>2. CASE Exempted
  <2>1. Reaching(T) = "ungranted"
    BY <1>2 DEF Reaching, ThroughView
  <2>2. QED BY <1>1, <2>1, FinishKeeps DEF Ended
<1>3. CASE ~Exempted
  <2>1. ~may /\ T = {}
    BY <1>3 DEF Granted, ServerTargets, ServerMay
  <2>2. Reaching(T) = "no"
    BY <1>3, <2>1 DEF Reaching, ThroughView
  <2>3. Unread(may, rows, T) = {}
    BY <2>1 DEF Unread
  <2>4. QED BY <1>1, <2>1, <2>2, <2>3, FinishKeeps DEF Ended, Matched
<1>4. QED BY <1>2, <1>3

\* UPDATE through the view.
LEMMA UpdateKeeps ==
    ASSUME RowInv, NEW where, NEW o \in Written, Update(where, o)
    PROVE  RowInv'
<1> DEFINE T == ServerTargets("Update", where)
           row == Stored(o)
           rows == [r \in Rids |-> IF r \in T THEN Stored(o) ELSE server[r]]
           may == Granted /\ \A r \in T : ServerMay("Update", "Check", Stored(o))
           reads == where # "all" => \A r \in T : MayRead(Stored(o))
           loop == UpdateView!ForEachRow(o, ViewTargets(where), Capacity, Run(replica, {}))
           run == IF config.write THEN loop ELSE Abort
<1>1. Finish(Reaching(T), may, reads, rows, T, run)
  BY DEF Update
<1>0. config \in Configs /\ stray = "no" /\ replica = server /\ server \in Tables
  BY <1>1 DEF RowInv, Finish
<1>2. row \in TableRows /\ row # NoRow /\ T \in SUBSET Rids /\ (\A r \in T : server[r] # NoRow)
  BY RowFacts DEF ServerTargets, Live
<1>3. /\ rows \in Tables
      /\ \A q \in Rids : rows[q] = IF q \in T THEN row ELSE server[q]
  BY <1>0, <1>2 DEF Tables
<1>4. CASE ~config.write
  <2>1. Finish(Reaching(T), may, reads, rows, T, Abort) /\ (may => Granted)
    BY <1>1, <1>4
  <2>2. T = ServerTargets("Update", where)
    OBVIOUS
  <2> HIDE DEF T, may, reads, rows
  <2>3. QED BY <1>3, <1>4, <2>1, <2>2, UngrantedKeeps
<1>5. CASE config.write
  <2> DEFINE W == {r \in T : Readable(server[r])}
             Check == Exempted \/ ServerAllows("Update", "Check", Stored(o))
             Denying == ~Exempted /\ UpdateUsing.deny /\ config.strictDeny
  <2>1. \/ /\ loop.ok /\ loop.table = Over(server, W, row) /\ (W # {} => Check)
           /\ config.hasPk /\ ~ReadPredicate.deny => loop.log = Logged({}, W, row)
        \/ loop = Abort /\ ((W # {} /\ ~Check) \/ (W = {} /\ Denying))
    <3>1. W = {r \in ViewTargets(where) : Exempted \/ ServerAllows("Update", "Using", server[r])}
      BY <1>0, <1>5, TargetsAgree
    <3>2. loop = UpdateView!ForEachRow(o, ViewTargets(where), Capacity, Run(replica, {}))
      OBVIOUS
    <3> HIDE DEF W, loop
    <3>3. QED BY <1>0, <1>5, <3>1, <3>2, UpdateLoop
  <2>2. may <=> T = {} \/ Check
    BY <1>5 DEF Granted, ServerMay
  <2>3. Denying => T = {}
    <3>1. UpdateUsing.deny => \A r \in T : ~ServerAllows("Update", "Using", server[r])
      BY <1>0, GuardsAgree, Shortcuts
    <3>2. QED BY <3>1 DEF ServerTargets, ServerMay
  <2>4. run = loop
    BY <1>5
  <2>5. ~reads => T # {} /\ ~Readable(row)
    BY DEF MayRead
  <2>6. /\ Over(server, W, row) \in Tables
        /\ \A q \in Rids : Over(server, W, row)[q] = IF q \in W THEN row ELSE server[q]
    <3>1. W \in SUBSET Rids
      BY <1>2
    <3> HIDE DEF W, row
    <3>2. QED BY <1>0, <1>2, <3>1, OverFacts
  <2>7. ~Abort.ok /\ Abort.log = {}
    BY RunFields
  <2>8. run.ok => run.table \in Tables
    <3> HIDE DEF W, row, loop, run
    <3>1. QED BY <2>1, <2>4, <2>6, <2>7
  <2>9. CASE \A r \in T : Readable(server[r])
    <3>1. W = T /\ Reaching(T) = "no"
      <4>1. W = T
        BY <2>9
      <4>2. ThroughView = "no"
        BY <1>5 DEF ThroughView
      <4> HIDE DEF T
      <4>3. QED BY <2>9, <4>1, <4>2 DEF Reaching
    <3>2. Over(server, T, row) = rows
      BY DEF Over
    <3>3. may => Logged({}, T, row) = Unread(may, rows, T)
      <4>1. \A q \in T : q \in Live(rows) /\ rows[q] = row
        <5> HIDE DEF T, rows, row
        <5>1. QED BY <1>2, <1>3 DEF Live
      <4> HIDE DEF T, rows, row, may
      <4>2. QED BY <4>1 DEF Logged, Unread
    <3>4. /\ T = {} => rows = server /\ reads /\ Unread(may, rows, T) = {}
          /\ ~may => Unread(may, rows, T) = {}
      <4>1. T = {} => rows = server
        BY <1>0 DEF Tables
      <4> HIDE DEF rows, may
      <4>2. QED BY <4>1 DEF Unread
    <3> HIDE DEF W, T, row, rows, may, reads, loop, run, Check
    <3>5. Matched(may, reads, rows, T, run)
      <4>1. CASE /\ loop.ok /\ loop.table = Over(server, T, row) /\ (T # {} => Check)
                 /\ config.hasPk /\ ~ReadPredicate.deny => loop.log = Logged({}, T, row)
        <5>1. may /\ run.ok /\ run.table = rows
          BY <2>2, <2>4, <3>2, <4>1
        <5>2. ~reads => \A r \in Rids : rows[r] # server[r] =>
                            r \in T /\ rows[r] # NoRow /\ ~Readable(rows[r])
          BY <1>2, <1>3, <2>5
        <5>3. config.hasPk /\ ~ReadPredicate.deny => run.log = Unread(may, rows, T)
          BY <2>4, <3>3, <4>1, <5>1
        <5>4. QED BY <5>1, <5>2, <5>3 DEF Matched
      <4>2. CASE loop = Abort /\ T # {} /\ ~Check
        <5>1. ~may
          BY <2>2, <4>2
        <5>2. QED BY <2>4, <2>7, <3>4, <4>2, <5>1 DEF Matched
      <4>3. CASE loop = Abort /\ T = {} /\ Denying
        <5>1. config.strictDeny
          BY <4>3
        <5>2. QED BY <2>4, <2>7, <3>4, <4>3, <5>1 DEF Matched
      <4> HIDE DEF Denying
      <4>4. QED BY <2>1, <3>1, <4>1, <4>2, <4>3
    <3>6. QED BY <1>1, <1>3, <2>8, <3>1, <3>5, FinishKeeps DEF Ended
  <2>10. CASE \E r \in T : ~Readable(server[r])
    <3>1. Reaching(T) = "blind" /\ T # {}
      <4>1. ThroughView = "no"
        BY <1>5 DEF ThroughView
      <4> HIDE DEF T
      <4>2. QED BY <2>10, <4>1 DEF Reaching
    <3>2. reads
      BY <2>10 DEF ServerTargets, MayRead
    <3>3. \A r \in T : r \in W \/ (server[r] # NoRow /\ ~Readable(server[r]))
      BY <1>2
    <3>4. W \subseteq T
      OBVIOUS
    <3> HIDE DEF W, T, row, rows, may, reads, loop, run, Check, Denying
    <3>5. OutOfSight(IF run.ok THEN run.table ELSE server, IF may /\ reads THEN rows ELSE server)
      <4>1. CASE loop.ok /\ loop.table = Over(server, W, row) /\ (W # {} => Check)
        <5>1. run.ok /\ run.table = Over(server, W, row)
          BY <2>4, <4>1
        <5>2. CASE may
          BY <1>3, <2>6, <3>2, <3>3, <3>4, <5>1, <5>2 DEF OutOfSight
        <5>3. CASE ~may
          <6>1. W = {}
            BY <2>2, <3>1, <4>1, <5>3
          <6>2. QED BY <2>6, <5>1, <5>3, <6>1 DEF OutOfSight
        <5>4. QED BY <5>2, <5>3
      <4>2. CASE loop = Abort /\ W # {} /\ ~Check
        <5>1. ~may /\ ~run.ok
          BY <2>2, <2>4, <2>7, <3>1, <4>2
        <5>2. QED BY <5>1 DEF OutOfSight
      <4>3. QED BY <2>1, <2>3, <3>1, <4>1, <4>2
    <3>6. QED BY <1>1, <1>3, <2>8, <3>1, <3>5, FinishKeeps DEF Ended
  <2>11. QED BY <2>9, <2>10
<1>6. QED BY <1>4, <1>5

\* The forwarding DELETE removes every row it matches.
LEMMA DeleteForwards ==
    ASSUME config \in Configs, config.write, NEW t \in Tables, NEW log \in Logs, NEW R \in SUBSET Rids,
           \A q \in R : Exempted \/ ServerAllows("Delete", "Using", t[q])
    PROVE  ForwardDelete!ForEachRow("none", R, Capacity, Run(t, log)) = Run(Over(t, R, NoRow), log)
<1> DEFINE J == {<<d, Run(Over(t, d, NoRow), log)>> : d \in SUBSET R}
           start == Run(t, log)
           result == ForwardDelete!ForEachRow("none", R, Capacity, start)
<1>1. NoRow \in TableRows
  BY RowFacts
<1>2. Capacity \in Nat /\ R \subseteq 1..Capacity
  BY ConfigsAssumption DEF Rids
<1>3. <<{}, start>> \in J
  BY <1>1, OverFacts
<1>4. ASSUME NEW d \in SUBSET R, NEW k \in R \ d, NEW run, <<d, run>> \in J
      PROVE  <<d \cup {k}, DeleteForward("none", run, k)>> \in J
  <2>1. run = Run(Over(t, d, NoRow), log)
    BY <1>4
  <2>2. run.table = Over(t, d, NoRow) /\ run.log = log
    BY <2>1, RunFields
  <2>3. k \in Rids /\ k \notin d /\ d \in SUBSET Rids
    OBVIOUS
  <2>4. /\ Over(t, d, NoRow)[k] = t[k]
        /\ [Over(t, d, NoRow) EXCEPT ![k] = NoRow] = Over(t, d \cup {k}, NoRow)
    <3>1. /\ \A q \in Rids : Over(t, d, NoRow)[q] = IF q \in d THEN NoRow ELSE t[q]
          /\ \A q \in Rids : [Over(t, d, NoRow) EXCEPT ![q] = NoRow] = Over(t, d \cup {q}, NoRow)
      BY <1>1, <2>3, OverFacts
    <3>2. QED BY <2>3, <3>1
  <2>5. ~config.exemption \/ exempt \/ ServerAllows("Delete", "Using", Over(t, d, NoRow)[k])
    BY <2>4 DEF Exempted
  <2>6. DeleteBacking(Over(t, d, NoRow), k, log) = Run([Over(t, d, NoRow) EXCEPT ![k] = NoRow], log)
    BY <2>5, DeleteBackingAgrees
  <2>7. DeleteForward("none", run, k) = Run(Over(t, d \cup {k}, NoRow), log)
    BY <2>2, <2>4, <2>6 DEF DeleteForward
  <2>8. QED BY <2>7
<1>5. DeleteForwardLoop!LoopInvariant(J, "none", R, start)
  <2> HIDE DEF J, start
  <2>1. QED BY <1>3, <1>4 DEF DeleteForwardLoop!LoopInvariant
<1>6. result = DeleteForwardLoop!ForEachRow("none", R, Capacity, start)
  BY DEF ForwardDelete!ForEachRow, DeleteForwardLoop!ForEachRow
<1>7. PICK d \in SUBSET R : <<d, result>> \in J /\ (result.ok => d = R)
  <2> HIDE DEF J, result, start
  <2>1. QED BY <1>2, <1>5, <1>6, DeleteForwardLoop!LoopKeeps
<1>8. result = Run(Over(t, d, NoRow), log)
  <2> HIDE DEF result
  <2>1. QED BY <1>7
<1>9. result.ok
  BY <1>8, RunFields
<1>10. QED BY <1>7, <1>8, <1>9

\* INSTEAD OF DELETE for one row of the view: it passes the row over, aborts
\* where nothing is granted and the caller wants that to fail, or removes the
\* backing rows the view row stands for.
LEMMA DeleteTriggerAgrees ==
    ASSUME config \in Configs, config.write, NEW t \in Tables, NEW log \in Logs,
           NEW id \in Rids, NEW old \in StoredRows, NEW R,
           config.hasPk => t[id] = old,
           R = Addressed("Delete", t, id, old)
    PROVE  \/ /\ DeleteTrigger(Run(t, log), id, old) = Abort
              /\ ~Exempted /\ DeleteUsing.deny /\ config.strictDeny
           \/ DeleteTrigger(Run(t, log), id, old) = Run(Over(t, R, NoRow), log)
<1> DEFINE run == Run(t, log)
           result == DeleteTrigger(run, id, old)
           denies == FilterPolicies("Delete") = {} \/ DeleteUsing.deny
           rows == {q \in Live(run.table) :
                      /\ RowIdentity(run.table, q, id, old)
                      /\ Exempted \/ (~denies /\ EvalCombined(DeleteUsing, old) = "T")}
<1>1. result = IF denies /\ ~Exempted THEN IF Denied THEN Abort ELSE run
               ELSE ForwardDelete!ForEachRow("none", rows, Capacity, run)
  BY DEF DeleteTrigger
<1>2. denies <=> DeleteUsing.deny
  BY Shortcuts
<1>3. EvalCombined(DeleteUsing, old) = "T" <=> ServerAllows("Delete", "Using", old)
  BY GuardsAgree
<1>4. DeleteUsing.deny => ~ServerAllows("Delete", "Using", old)
  BY <1>3, Shortcuts
<1>5. rows = R
  <2>1. run.table = t
    BY RunFields
  <2> HIDE DEF run, denies
  <2>2. QED BY <1>2, <1>3, <1>4, <2>1 DEF Addressed
<1>6. /\ R \in SUBSET Rids
      /\ \A q \in R : t[q] = old /\ (Exempted \/ ServerAllows("Delete", "Using", old))
  BY DEF Live, RowIdentity, Addressed
<1> HIDE DEF result, rows, denies
<1>7. CASE denies /\ ~Exempted
  <2>1. R = {}
    BY <1>2, <1>4, <1>7 DEF Addressed
  <2>2. Over(t, R, NoRow) = t
    BY <2>1, RowFacts, OverFacts
  <2>3. CASE config.strictDeny
    BY <1>1, <1>2, <1>7, <2>3 DEF Denied, result, run
  <2>4. CASE ~config.strictDeny
    <3>1. result = Run(Over(t, R, NoRow), log)
      BY <1>1, <1>7, <2>2, <2>4 DEF Denied
    <3>2. QED BY <3>1 DEF result, run
  <2>5. QED BY <2>3, <2>4
<1>8. CASE ~(denies /\ ~Exempted)
  <2>1. result = ForwardDelete!ForEachRow("none", R, Capacity, run)
    BY <1>1, <1>5, <1>8
  <2>2. \A q \in R : Exempted \/ ServerAllows("Delete", "Using", t[q])
    BY <1>6
  <2>3. result = Run(Over(t, R, NoRow), log)
    BY <1>6, <2>1, <2>2, DeleteForwards
  <2>4. QED BY <2>3 DEF result, run
<1>9. QED BY <1>7, <1>8

\* The loop of a DELETE over the view's rows.
LEMMA DeleteLoop ==
    ASSUME RowInv, stray = "no", config.write, NEW where, NEW T,
           T = {r \in ViewTargets(where) : Exempted \/ ServerAllows("Delete", "Using", server[r])},
           NEW loop, loop = DeleteView!ForEachRow("none", ViewTargets(where), Capacity, Run(replica, {}))
    PROVE  \/ loop.ok /\ loop.table = Over(server, T, NoRow) /\ loop.log = {}
           \/ loop = Abort /\ T = {} /\ ~Exempted /\ DeleteUsing.deny /\ config.strictDeny
<1>0. config \in Configs /\ replica = server /\ server \in Tables
  BY DEF RowInv
<1> DEFINE V == ViewTargets(where)
           start == Run(server, {})
<1>20. NoRow \in TableRows /\ T \in SUBSET Rids
  BY RowFacts DEF ViewTargets, Visible, Live
<1> DEFINE May(r) == Exempted \/ ServerAllows("Delete", "Using", server[r])
           Denying == ~Exempted /\ DeleteUsing.deny /\ config.strictDeny
           Going(d, t, l) == Progress(d, t, T, NoRow) /\ l = {}
           J == {x \in (SUBSET V) \X AnyRuns :
                   IF x[2].ok THEN Going(x[1], x[2].table, x[2].log) ELSE Denying}
<1>1. /\ V = {r \in Live(server) : Readable(server[r]) /\ Matches(where, server[r])}
      /\ T = {r \in V : May(r)}
  BY TargetsAgree
<1>2. V \in SUBSET Rids /\ \A r \in V : server[r] \in StoredRows /\ server[r] # NoRow
  BY <1>0, <1>1 DEF Live, Tables, TableRows
<1>3. DeleteUsing.deny => \A r \in V : ~ServerAllows("Delete", "Using", server[r])
  BY <1>0, GuardsAgree, Shortcuts
<1>4. {} \in Logs
  BY DEF Logs
<1>5. <<{}, start>> \in J
  <2>1. start.ok /\ start.table = server /\ start.log = {} /\ start \in AnyRuns
    BY <1>0, <1>4, RunFields DEF AnyRuns
  <2>2. Progress({}, server, T, NoRow)
    BY <1>0 DEF Progress
  <2> HIDE DEF start, V
  <2>3. Going({}, start.table, start.log)
    BY <2>1, <2>2
  <2> HIDE DEF Going, Denying
  <2>4. QED BY <2>1, <2>3
<1>6. ASSUME NEW d \in SUBSET V, NEW k \in V \ d, NEW x, <<d, x>> \in J, x.ok
      PROVE  <<d \cup {k}, DeleteFire("none", x, k)>> \in J
  <2>1. x \in AnyRuns /\ Going(d, x.table, x.log)
    <3> HIDE DEF Going, Denying, V
    <3>1. QED BY <1>6
  <2>2. PICK t \in Tables, l \in Logs : x = Run(t, l)
    BY <1>6, <2>1, RunFields DEF AnyRuns
  <2>3. Progress(d, t, T, NoRow) /\ l = {}
    BY <2>1, <2>2, RunFields
  <2> DEFINE old == server[k]
             R == Addressed("Delete", t, k, old)
             y == DeleteTrigger(Run(t, l), k, old)
  <2>4. DeleteFire("none", x, k) = y
    BY <1>0, <2>2 DEF DeleteFire
  <2>5. k \in Rids \ d /\ d \in SUBSET Rids /\ old \in StoredRows /\ old # NoRow
    BY <1>2
  <2>6. config.hasPk => t[k] = old
    BY <2>3, <2>5 DEF Progress
  <2>7. k \in T <=> May(k)
    BY <1>1
  <2>8. (y = Abort /\ Denying) \/ y = Run(Over(t, R, NoRow), l)
    <3>1. R = Addressed("Delete", t, k, old)
      OBVIOUS
    <3> HIDE DEF R, old
    <3>2. QED BY <1>0, <2>5, <2>6, <3>1, DeleteTriggerAgrees
  <2>9. CASE y = Abort /\ Denying
    <3>1. ~y.ok /\ y \in AnyRuns
      BY <2>9, RunFields DEF AnyRuns
    <3>2. d \cup {k} \in SUBSET V
      OBVIOUS
    <3> HIDE DEF Denying, Going, y, V
    <3>3. QED BY <2>4, <2>9, <3>1, <3>2
  <2>10. CASE y = Run(Over(t, R, NoRow), l)
    <3>1. R \in SUBSET Rids /\ \A q \in R : t[q] = old /\ k \in T /\ (config.hasPk => q = k)
      <4>1. \A q \in R : q \in Live(t) /\ RowIdentity(t, q, k, old) /\ May(k)
        BY DEF Addressed
      <4> HIDE DEF R, May
      <4>2. QED BY <2>6, <2>7, <4>1 DEF Live, RowIdentity
    <3>2. k \in T /\ t[k] = old => k \in R
      <4>1. k \in T => May(k)
        BY <2>7
      <4>2. t[k] = old => k \in Live(t) /\ RowIdentity(t, k, k, old)
        BY <2>5 DEF Live, RowIdentity
      <4>3. QED BY <4>1, <4>2 DEF Addressed
    <3>3. \A q \in Rids : k \in T /\ server[q] = old => q \in T
      BY <1>1, <2>5 DEF Live
    <3>4. Progress(d \cup {k}, Over(t, R, NoRow), T, NoRow)
      <4>1. old = server[k]
        OBVIOUS
      <4> HIDE DEF R, old
      <4>2. QED BY <1>20, <2>3, <2>5, <3>1, <3>2, <3>3, <4>1, ProgressStep
    <3>5. y.ok /\ y.table = Over(t, R, NoRow) /\ y.log = {}
      BY <2>3, <2>10, RunFields
    <3>6. Over(t, R, NoRow) \in Tables
      BY <3>4 DEF Progress
    <3>7. y \in AnyRuns
      <4> HIDE DEF y, R
      <4>1. QED BY <2>10, <3>6 DEF AnyRuns
    <3>8. Going(d \cup {k}, y.table, y.log)
      <4> HIDE DEF R, y
      <4>1. QED BY <3>4, <3>5
    <3>9. d \cup {k} \in SUBSET V
      OBVIOUS
    <3> HIDE DEF Going, Denying, y, V
    <3>10. QED BY <2>4, <3>5, <3>7, <3>8, <3>9
  <2> HIDE DEF J, y, R, Denying, V
  <2>11. QED BY <2>8, <2>9, <2>10
<1>7. DeleteViewLoop!LoopInvariant(J, "none", V, start)
  <2> HIDE DEF J, start, V
  <2>1. QED BY <1>5, <1>6 DEF DeleteViewLoop!LoopInvariant
<1>8. loop = DeleteViewLoop!ForEachRow("none", V, Capacity, start)
  <2>1. loop = DeleteView!ForEachRow("none", V, Capacity, start)
    BY <1>0
  <2>2. QED BY <2>1 DEF DeleteView!ForEachRow, DeleteViewLoop!ForEachRow
<1>9. PICK d \in SUBSET V : <<d, loop>> \in J /\ (loop.ok => d = V)
  <2>1. Capacity \in Nat /\ V \subseteq 1..Capacity
    BY <1>2, ConfigsAssumption DEF Rids
  <2> DEFINE last == DeleteViewLoop!ForEachRow("none", V, Capacity, start)
  <2> HIDE DEF J, start, V
  <2>2. \E d \in SUBSET V : <<d, last>> \in J /\ (last.ok => d = V)
    BY <1>7, <2>1, DeleteViewLoop!LoopKeeps
  <2>3. loop = last
    BY <1>8
  <2> HIDE DEF last
  <2>4. QED BY <2>2, <2>3
<1>10. /\ loop \in AnyRuns
       /\ loop.ok => Going(V, loop.table, loop.log)
       /\ ~loop.ok => Denying
  <2> HIDE DEF Going, Denying, V
  <2>1. QED BY <1>9
<1>12. V \cap T = T
  BY <1>1
<1>13. CASE loop.ok
  <2>1. Progress(V, loop.table, T, NoRow) /\ loop.log = {}
    BY <1>10, <1>13
  <2>2. loop.table = Over(server, T, NoRow)
    <3>1. /\ Over(server, T, NoRow) \in Tables
          /\ \A q \in Rids : Over(server, T, NoRow)[q] = IF q \in T THEN NoRow ELSE server[q]
      BY <1>0, <1>20, OverFacts
    <3>2. loop.table \in Tables /\ \A q \in Rids : loop.table[q] = Over(server, T, NoRow)[q]
      <4> HIDE DEF V
      <4>1. QED BY <1>20, <1>12, <2>1, <3>1 DEF Progress
    <3>3. QED BY <3>1, <3>2 DEF Tables
  <2>3. QED BY <1>13, <2>1, <2>2
<1>14. CASE ~loop.ok
  <2>1. loop = Abort
    <3>1. \A t, l : Run(t, l).ok
      BY RunFields
    <3>2. QED BY <1>10, <1>14, <3>1 DEF AnyRuns
  <2>2. Denying
    BY <1>10, <1>14
  <2>3. \A r \in V : ~May(r)
    BY <1>3, <2>2
  <2>4. T = {}
    <3> HIDE DEF V, May
    <3>1. QED BY <1>1, <2>3
  <2>5. QED BY <2>1, <2>2, <2>4
<1>15. QED BY <1>13, <1>14

\* DELETE through the view.
LEMMA DeleteKeeps ==
    ASSUME RowInv, NEW where, Delete(where)
    PROVE  RowInv'
<1> DEFINE T == ServerTargets("Delete", where)
           rows == [r \in Rids |-> IF r \in T THEN NoRow ELSE server[r]]
           loop == DeleteView!ForEachRow("none", ViewTargets(where), Capacity, Run(replica, {}))
           run == IF config.write THEN loop ELSE Abort
<1>1. Finish(Reaching(T), Granted, TRUE, rows, T, run)
  BY DEF Delete
<1>0. config \in Configs /\ stray = "no" /\ replica = server /\ server \in Tables
  BY <1>1 DEF RowInv, Finish
<1>2. NoRow \in TableRows /\ T \in SUBSET Rids /\ (\A r \in T : server[r] # NoRow)
  BY RowFacts DEF ServerTargets, Live
<1>3. /\ rows \in Tables
      /\ \A q \in Rids : rows[q] = IF q \in T THEN NoRow ELSE server[q]
  BY <1>0, <1>2 DEF Tables
<1>4. CASE ~config.write
  <2>1. Finish(Reaching(T), Granted, TRUE, rows, T, Abort)
    BY <1>1, <1>4
  <2>2. T = ServerTargets("Delete", where)
    OBVIOUS
  <2> HIDE DEF T, rows
  <2>3. QED BY <1>3, <1>4, <2>1, <2>2, UngrantedKeeps
<1>5. CASE config.write
  <2> DEFINE W == {r \in T : Readable(server[r])}
             Denying == ~Exempted /\ DeleteUsing.deny /\ config.strictDeny
  <2>1. \/ loop.ok /\ loop.table = Over(server, W, NoRow) /\ loop.log = {}
        \/ loop = Abort /\ Denying
    <3>1. W = {r \in ViewTargets(where) : Exempted \/ ServerAllows("Delete", "Using", server[r])}
      BY <1>0, <1>5, TargetsAgree
    <3>2. loop = DeleteView!ForEachRow("none", ViewTargets(where), Capacity, Run(replica, {}))
      OBVIOUS
    <3> HIDE DEF W, loop
    <3>3. QED BY <1>0, <1>5, <3>1, <3>2, DeleteLoop
  <2>2. Granted
    BY <1>5 DEF Granted
  <2>3. Denying => T = {}
    <3>1. DeleteUsing.deny => \A r \in T : ~ServerAllows("Delete", "Using", server[r])
      BY <1>0, GuardsAgree, Shortcuts
    <3>2. QED BY <3>1 DEF ServerTargets, ServerMay
  <2>4. run = loop
    BY <1>5
  <2>5. Unread(Granted, rows, T) = {}
    <3> HIDE DEF rows, T
    <3>1. QED BY <1>2, <1>3 DEF Unread, Live
  <2>6. /\ Over(server, W, NoRow) \in Tables
        /\ \A q \in Rids : Over(server, W, NoRow)[q] = IF q \in W THEN NoRow ELSE server[q]
    BY <1>0, <1>2, OverFacts
  <2>7. ~Abort.ok /\ Abort.log = {}
    BY RunFields
  <2>8. run.ok => run.table \in Tables
    <3> HIDE DEF W, loop, run
    <3>1. QED BY <2>1, <2>4, <2>6, <2>7
  <2>9. CASE \A r \in T : Readable(server[r])
    <3>1. W = T /\ Reaching(T) = "no"
      <4>1. W = T
        BY <2>9
      <4>2. ThroughView = "no"
        BY <1>5 DEF ThroughView
      <4> HIDE DEF T
      <4>3. QED BY <2>9, <4>1, <4>2 DEF Reaching
    <3>2. Over(server, T, NoRow) = rows /\ (T = {} => rows = server)
      BY <1>0 DEF Over, Tables
    <3>3. Denying => config.strictDeny
      OBVIOUS
    <3> HIDE DEF W, T, rows, loop, run, Denying
    <3>4. Matched(Granted, TRUE, rows, T, run)
      BY <2>1, <2>2, <2>3, <2>4, <2>5, <2>7, <3>1, <3>2, <3>3 DEF Matched
    <3>5. QED BY <1>1, <1>3, <2>8, <3>1, <3>4, FinishKeeps DEF Ended
  <2>10. CASE \E r \in T : ~Readable(server[r])
    <3>1. Reaching(T) = "blind" /\ T # {}
      <4>1. ThroughView = "no"
        BY <1>5 DEF ThroughView
      <4> HIDE DEF T
      <4>2. QED BY <2>10, <4>1 DEF Reaching
    <3>2. W \subseteq T /\ \A r \in T : r \in W \/ (server[r] # NoRow /\ ~Readable(server[r]))
      BY <1>2
    <3> HIDE DEF W, T, rows, loop, run, Denying
    <3>3. run.ok /\ run.table = Over(server, W, NoRow)
      BY <2>1, <2>3, <2>4, <3>1
    <3>4. OutOfSight(IF run.ok THEN run.table ELSE server, IF Granted /\ TRUE THEN rows ELSE server)
      BY <1>3, <2>2, <2>6, <3>2, <3>3 DEF OutOfSight
    <3>5. QED BY <1>1, <1>3, <2>8, <3>1, <3>4, FinishKeeps DEF Ended
  <2>11. QED BY <2>9, <2>10
<1>6. QED BY <1>4, <1>5

----------------------------------------------------------------------------
(* The theorems                                                            *)

\* The caller's exemption function changing its answer changes no row.
LEMMA SwitchKeeps ==
    ASSUME RowInv, config' = config, server' = server, replica' = replica,
           audit' = audit, unseen' = unseen, outcome' = outcome, stray' = stray
    PROVE  RowInv'
<1>1. \A row : Readable(row)' <=> Readable(row)
  BY ReadableKept
<1>2. Tables' = Tables /\ Rids' = Rids
  BY DEF Tables, Rids, TableRows, StoredRows
<1>3. OutOfSight(replica, server) => OutOfSight(replica, server)'
  BY <1>1 DEF OutOfSight, Rids, NoRow
<1>4. QED BY <1>1, <1>2, <1>3, ConfigKept DEF RowInv, NoRow

\* RowInv is inductive.
THEOREM RowInvariant == RowSpec => []RowInv
<1>1. RowInit => RowInv
  BY DEF RowInit, RowInv, Tables, TableRows
<1>2. RowInv /\ [RowNext]_rowVars => RowInv'
  <2>1. SUFFICES ASSUME RowInv, [RowNext]_rowVars PROVE RowInv'
    OBVIOUS
  <2>2. CASE UNCHANGED rowVars
    BY <2>1, <2>2, SwitchKeeps DEF rowVars
  <2>3. CASE Switch
    BY <2>1, <2>3, SwitchKeeps DEF Switch
  <2>4. ASSUME NEW r \in Rids, NEW o \in Written, NEW g \in {Null, "a"}, Insert(r, o, g)
        PROVE  RowInv'
    BY <2>1, <2>4, InsertKeeps
  <2>5. ASSUME NEW r \in Rids, NEW o \in Written, InsertReturning(r, o) \/ Upsert(r, o)
        PROVE  RowInv'
    BY <2>1, <2>5, InsertReturningKeeps, UpsertKeeps
  <2>6. ASSUME NEW where \in Vals \cup {"all"}, NEW o \in Written, Update(where, o)
        PROVE  RowInv'
    BY <2>1, <2>6, UpdateKeeps
  <2>7. ASSUME NEW where \in Vals \cup {"all"}, Delete(where)
        PROVE  RowInv'
    BY <2>1, <2>7, DeleteKeeps
  <2>8. ASSUME NEW r \in Rids, NEW row \in StoredRows \cup {NoRow}, Load(r, row)
        PROVE  RowInv'
    BY <2>1, <2>8, LoadKeeps DEF TableRows
  <2>9. QED BY <2>1, <2>2, <2>3, <2>4, <2>5, <2>6, <2>7, <2>8 DEF RowNext
<1>3. QED BY <1>1, <1>2, PTL DEF RowSpec

\* Whatever the policies, the options and the statements, the view shows what
\* the role may read, the backing table holds the server's rows up to the first
\* statement that strays, only a denial the caller asked for fails on one side,
\* and a statement that strays harms no more than its kind says (rls.rs).
THEOREM RowSecurityHolds == RowSpec => []RowSecurityAgrees
<1>1. RowInv => RowSecurityAgrees
  <2>1. SUFFICES ASSUME RowInv PROVE RowSecurityAgrees
    OBVIOUS
  <2>2. Visible(replica) = Live(replica) \ Hidden(replica)
    BY <2>1, VisibleAgrees DEF RowInv, Hidden
  <2>3. stray = "blind" => Differ \subseteq Hidden(server) \cup Hidden(replica)
    BY <2>1 DEF RowInv, OutOfSight, Differ, Hidden, Live
  <2>4. stray = "unread" =>
          /\ outcome.replica /\ ~outcome.server
          /\ Differ \subseteq Hidden(replica)
          /\ config.hasPk /\ ~ReadPredicate.deny => \A r \in Differ : <<r, replica[r]>> \in audit
    BY <2>1 DEF RowInv, Differ, Hidden, Live
  <2>5. QED BY <2>1, <2>2, <2>3, <2>4 DEF RowInv, RowSecurityAgrees
<1>2. QED BY <1>1, RowInvariant, PTL

\* With a primary key the audit table and the validation view list exactly the
\* rows that were written and cannot be read back (rls.rs monitors and
\* validation view).
THEOREM AuditHolds == RowSpec => []AuditIsExact
<1>1. RowInv => AuditIsExact
  <2>1. SUFFICES ASSUME RowInv, config.hasPk, ~ReadPredicate.deny
                 PROVE  /\ stray \in {"no", "unread"} => audit = unseen
                        /\ ValidationView(replica) = Hidden(replica)
    BY DEF AuditIsExact
  <2>2. Visible(replica) = {r \in Live(replica) : Readable(replica[r])}
    BY <2>1, VisibleAgrees DEF RowInv
  <2>3. ValidationView(replica) = {r \in Live(replica) : r \notin Visible(replica)}
    BY <2>1 DEF ValidationView
  <2>4. ValidationView(replica) = Hidden(replica)
    BY <2>2, <2>3 DEF Hidden
  <2>5. QED BY <2>1, <2>4 DEF RowInv
<1>2. QED BY <1>1, RowInvariant, PTL

----------------------------------------------------------------------------
(* References: what a column of a policy means after the rewriting         *)

\* A rewriting changes the qualifier alone.
LEMMA ReferenceType ==
    ASSUME NEW ref \in References
    PROVE  /\ ref.depth \in 0..1 /\ Backing \notin DOMAIN ref.from
           /\ ref.qualifier \notin PrefixNames /\ ref.qualifier # Backing
           /\ \A q : /\ [ref EXCEPT !.qualifier = q].qualifier = q
                     /\ [ref EXCEPT !.qualifier = q].from = ref.from
                     /\ [ref EXCEPT !.qualifier = q].depth = ref.depth
                     /\ [ref EXCEPT !.qualifier = q].column = ref.column
<1>1. /\ DOMAIN ref.from \subseteq Exposed /\ ref.depth \in 0..1
      /\ ref.qualifier \in {Bare} \cup Exposed
      /\ DOMAIN ref = {"from", "depth", "qualifier", "column"}
  BY ReferencesAssumption
<1>2. Backing \notin Exposed /\ Bare \notin PrefixNames /\ Exposed \cap PrefixNames = {} /\ Backing # Bare
  BY ReferencesAssumption DEF Exposed, Bare, PrefixNames
<1>3. \A q : /\ [ref EXCEPT !.qualifier = q].qualifier = q
             /\ [ref EXCEPT !.qualifier = q].from = ref.from
             /\ [ref EXCEPT !.qualifier = q].depth = ref.depth
             /\ [ref EXCEPT !.qualifier = q].column = ref.column
  BY <1>1
<1>4. QED BY <1>1, <1>2, <1>3

\* What a reference can mean in a statement over one table, or over none.
LEMMA OuterScopes ==
    ASSUME NEW ref
    PROVE  /\ \A t : Candidates(ref, Only(t)) =
                IF (IF ref.qualifier = Bare THEN ref.column \in Columns[t] ELSE ref.qualifier = t)
                THEN {t} ELSE {}
           /\ Candidates(ref, Nothing) = {}
BY DEF Candidates, Only, Nothing

\* The meaning of a reference the server accepts: the policy's own row, when
\* no table of the subquery answers to it, or one of the subquery's tables.
Own(ref) ==
    /\ ~(ref.depth = 1 /\ Candidates(ref, ref.from) # {})
    /\ IF ref.qualifier = Bare THEN ref.column \in Columns[Host] ELSE ref.qualifier = Host

Inner(ref, m) ==
    /\ ref.depth = 1 /\ Candidates(ref, ref.from) # {}
    /\ {<<1, n>> : n \in Candidates(ref, ref.from)} = {m} /\ m[1] = 1

LEMMA AcceptedMeaning ==
    ASSUME NEW ref, NEW m, ServerMeans(ref) = {m}
    PROVE  (Own(ref) /\ m[1] = 0) \/ Inner(ref, m)
<1>1. CASE ref.depth = 1 /\ Candidates(ref, ref.from) # {}
  <2>1. {<<1, n>> : n \in Candidates(ref, ref.from)} = {m}
    BY <1>1 DEF ServerMeans, Resolved
  <2>2. m[1] = 1
    BY <2>1
  <2>3. QED BY <1>1, <2>1, <2>2 DEF Inner
<1>2. CASE ~(ref.depth = 1 /\ Candidates(ref, ref.from) # {})
  <2>1. {<<0, n>> : n \in Candidates(ref, Only(Host))} = {m}
    BY <1>2 DEF ServerMeans, Resolved
  <2>2. m[1] = 0 /\ Candidates(ref, Only(Host)) # {}
    BY <2>1
  <2>3. QED BY <1>2, <2>2, OuterScopes DEF Own
<1>3. QED BY <1>1, <1>2

\* A reference to the policy's own row stays one, and a captured one becomes
\* one, in the view and in a trigger.
LEMMA OwnRowKept ==
    ASSUME NEW ref \in References, NEW prefix \in PrefixNames, Own(ref) \/ CapturedByHost(ref)
    PROVE  ReplicaMeans(Transform(ref, prefix), prefix) = {<<0, IF prefix = "none" THEN Backing ELSE prefix>>}
<1> DEFINE t == Transform(ref, prefix)
           to == IF prefix = "none" THEN Backing ELSE prefix
<1>0. Host # Bare /\ Host # Backing /\ Columns[Backing] = Columns[Host]
  BY ReferencesAssumption DEF Bare
<1>1. CASE ref.qualifier = Host
  <2>1. TransformOuterTableRefs(ref, prefix) = [ref EXCEPT !.qualifier = to]
    BY <1>1 DEF TransformOuterTableRefs
  <2>2. to # Bare
    BY ReferencesAssumption DEF Bare, PrefixNames
  <2>3. t = [ref EXCEPT !.qualifier = to]
    BY <1>0, <1>1, <2>1, <2>2, ReferenceType, ReferencesAssumption
       DEF Transform, TransformExpr, TransformSubqueryExpression, PrefixNames
  <2>4. t.qualifier = to /\ t.from = ref.from
    BY <2>3, ReferenceType
  <2> HIDE DEF t
  <2>5. CASE prefix = "none"
    <3>1. Candidates(t, t.from) = {}
      BY <2>2, <2>4, <2>5, ReferenceType DEF Candidates
    <3>2. Candidates(t, Only(Backing)) = {Backing}
      BY <2>2, <2>4, <2>5, OuterScopes
    <3>3. t.qualifier \notin {"NEW", "OLD"}
      BY <2>4, <2>5, ReferencesAssumption DEF PrefixNames
    <3>4. ReplicaMeans(t, prefix) = {<<0, Backing>>}
      BY <2>5, <3>1, <3>2, <3>3 DEF ReplicaMeans, Resolved
    <3>5. QED BY <2>5, <3>4 DEF t
  <2>6. CASE prefix # "none"
    <3>1. ReplicaMeans(t, prefix) = {<<0, prefix>>}
      BY <2>4, <2>6 DEF ReplicaMeans, PrefixNames
    <3>2. QED BY <2>6, <3>1 DEF t
  <2>7. QED BY <2>5, <2>6
<1>2. CASE ref.qualifier = Bare
  <2>1. /\ ref.column \in Columns[Host]
        /\ ~(ref.depth = 1 /\ Candidates(ref, ref.from) # {})
    BY <1>0, <1>2 DEF Own, CapturedByHost
  <2>2. ref.depth = 1 => ref.column \notin SubqueryColumns(ref)
    BY <1>2, <2>1 DEF Candidates, SubqueryColumns
  <2>3. TransformOuterTableRefs(ref, prefix) = ref
    BY <1>0, <1>2 DEF TransformOuterTableRefs
  <2>4. t = IF prefix = "none" THEN ref ELSE [ref EXCEPT !.qualifier = prefix]
    BY <1>0, <1>2, <2>1, <2>2, <2>3, ReferenceType
       DEF Transform, TransformExpr, TransformSubqueryExpression
  <2>5. CASE prefix = "none"
    <3>1. Candidates(ref, Only(Backing)) = {Backing}
      BY <1>0, <1>2, <2>1, OuterScopes
    <3>2. ref.qualifier \notin {"NEW", "OLD"}
      BY <1>2 DEF Bare
    <3>3. ReplicaMeans(ref, prefix) = {<<0, Backing>>}
      BY <2>1, <2>5, <3>1, <3>2 DEF ReplicaMeans, Resolved
    <3>4. QED BY <2>4, <2>5, <3>3
  <2>6. CASE prefix # "none"
    <3>1. t.qualifier = prefix
      BY <2>4, <2>6, ReferenceType
    <3> HIDE DEF t
    <3>2. ReplicaMeans(t, prefix) = {<<0, prefix>>}
      BY <2>6, <3>1 DEF ReplicaMeans, PrefixNames
    <3>3. QED BY <2>6, <3>2 DEF t
  <2>7. QED BY <2>5, <2>6
<1>3. QED BY <1>1, <1>2 DEF Own, CapturedByHost

\* Any other reference is left as it was written, and means the same table of
\* the subquery.
LEMMA InnerRowKept ==
    ASSUME NEW ref \in References, NEW prefix \in PrefixNames, NEW m, Inner(ref, m), ~CapturedByHost(ref)
    PROVE  ReplicaMeans(Transform(ref, prefix), prefix) = {m}
<1>1. ref.depth = 1 /\ Candidates(ref, ref.from) # {}
  BY DEF Inner
<1>2. ref.qualifier # Host
  <2>1. Host # Bare
    BY ReferencesAssumption DEF Bare
  <2>2. QED BY <1>1, <2>1 DEF Candidates, CapturedByHost
<1>3. ref.qualifier = Bare => ref.column \in SubqueryColumns(ref)
  BY <1>1 DEF Candidates, SubqueryColumns
<1>4. Transform(ref, prefix) = ref
  BY <1>1, <1>2, <1>3 DEF Transform, TransformExpr, TransformSubqueryExpression, TransformOuterTableRefs
<1>5. ref.qualifier \notin {"NEW", "OLD"}
  BY ReferenceType DEF PrefixNames
<1>6. ReplicaMeans(ref, prefix) = {m}
  BY <1>1, <1>5 DEF ReplicaMeans, Resolved, Inner
<1>7. QED BY <1>4, <1>6

\* For any tables, columns, aliases and references, each reference of a policy
\* keeps the row it means, a captured one excepted, which becomes the policy's
\* own row (rls.rs transform_expr, transform_subquery_expression).
THEOREM ReferencesHold ==
    ReferenceInit /\ [][Rewrite]_reference => []ReferencesKeepTheirRow
<1> DEFINE Accepted == reference # NoReference => reference \in References /\ \E m : ServerMeans(reference) = {m}
<1>1. ReferenceInit => Accepted
  BY DEF ReferenceInit
<1>2. Accepted /\ [Rewrite]_reference => Accepted'
  <2>1. SUFFICES ASSUME Accepted, [Rewrite]_reference PROVE Accepted'
    OBVIOUS
  <2>2. CASE UNCHANGED reference
    BY <2>1, <2>2 DEF NoReference, Nothing, Bare, ServerMeans, Resolved, Candidates, Only
  <2>3. CASE Rewrite
    BY <2>3 DEF Rewrite, NoReference, Nothing, Bare, ServerMeans, Resolved, Candidates, Only
  <2>4. QED BY <2>1, <2>2, <2>3
<1>3. Accepted => ReferencesKeepTheirRow
  <2>1. SUFFICES ASSUME Accepted, reference # NoReference, NEW prefix \in TranslatedPrefixes(reference)
                 PROVE  LET before == CHOOSE m \in ServerMeans(reference) : TRUE
                            own == <<0, IF prefix = "none" THEN Backing ELSE prefix>>
                        IN  ReplicaMeans(Transform(reference, prefix), prefix)
                              = {IF before[1] = 0 \/ CapturedByHost(reference) THEN own ELSE before}
    BY DEF ReferencesKeepTheirRow
  <2>2. PICK m : ServerMeans(reference) = {m}
    BY <2>1
  <2>3. (CHOOSE n \in ServerMeans(reference) : TRUE) = m
    BY <2>2
  <2>4. prefix \in PrefixNames /\ reference \in References
    BY <2>1 DEF TranslatedPrefixes, PrefixNames
  <2>5. (Own(reference) /\ m[1] = 0) \/ Inner(reference, m)
    BY <2>2, AcceptedMeaning
  <2>6. CASE CapturedByHost(reference) \/ (Own(reference) /\ m[1] = 0)
    BY <2>3, <2>4, <2>6, OwnRowKept
  <2>7. CASE ~CapturedByHost(reference) /\ Inner(reference, m)
    <3>1. m[1] # 0
      BY <2>7 DEF Inner
    <3>2. QED BY <2>3, <2>4, <2>7, <3>1, InnerRowKept
  <2>8. QED BY <2>5, <2>6, <2>7
<1>4. QED BY <1>1, <1>2, <1>3, PTL
=============================================================================
