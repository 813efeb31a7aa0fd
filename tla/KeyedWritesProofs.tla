------------------------- MODULE KeyedWritesProofs -------------------------
(***************************************************************************)
(* The two databases agree on every write, for any declared tables, any    *)
(* statements of the forms of WritesAssumption, and any number of them.    *)
(***************************************************************************)
EXTENDS KeyedWrites, TLAPS

\* No row lacks its key or has one the integer type cannot hold, and no two
\* rows have the same key.
Keyed(R) ==
    \A x \in R : /\ x.id \notin {Null, Big}
                 /\ \A y \in R : x.id = y.id => x = y

\* A key that the emitted table, unbounded, would store and the server not.
Fits(d, r) == Generates(d) => r.id # Big

\* As long as the counters were not moved apart they are equal, and no key
\* is above them.
Counted ==
    Generates(decl) /\ ~loose =>
        /\ mark \in Nat /\ sequence = mark
        /\ \A x \in rows : x.id \in 1..mark

\* The inductive invariant: while nothing is excused, the two sides agree,
\* their rows have the keys of a table, and the counters count them.
Together ==
    /\ serverRows = rows
    /\ outcome.server = outcome.replica
    /\ sequence \in Nat
    /\ loose \in BOOLEAN
    /\ Keyed(rows)
    /\ Counted

KeyedInv ==
    /\ decl \in Declarations /\ ~TableRefused(decl)
    /\ ~excused => Together

----------------------------------------------------------------------------
(* Constraints: what the server checks is what the emitted table checks    *)

\* The constants that stand where a value is written are distinct.
LEMMA Marks ==
    /\ Omitted = -1 /\ Default = -2 /\ Null = -3 /\ Excluded = -4 /\ Big = 99
    /\ \A n \in Nat : n \notin {Omitted, Default, Null, Excluded}
BY DEF Omitted, Default, Null, Excluded, Big

\* A foreign key that is not MATCH FULL leaves the same NOT NULLs and bounds
\* on both sides.
LEMMA RefusesAgree ==
    ASSUME NEW d, NEW r, Fits(d, r), d.match # "full"
    PROVE  Refuses("server", d, r) <=> Refuses("replica", d, r)
BY DEF Refuses, BoundChecks, KeyColumn, MatchFullGuard, Fits

\* Storing a row has the same result on both sides: the row a CHECK refuses
\* on the replica is the one the foreign key refuses on the server.
LEMMA StoreAgrees ==
    ASSUME NEW d, NEW R, NEW Gone, NEW r, Fits(d, r)
    PROVE  Store("server", d, R, Gone, r) = Store("replica", d, R, Gone, r)
<1>1. Refuses("server", d, r) \/ Orphans("server", d, r)
        <=> Refuses("replica", d, r) \/ Orphans("replica", d, r)
  BY DEF Refuses, BoundChecks, KeyColumn, MatchFullGuard, Fits, Orphans
<1>2. QED BY <1>1 DEF Store

LEMMA RunFields == \A R : Failure(R).rows = R /\ Success(R).rows = R
BY DEF Failure, Success

\* What a store leaves: the keys of a table, all of them old ones or the new
\* row's.
LEMMA StoreKeeps ==
    ASSUME NEW d, NEW R, NEW Gone, NEW r, Keyed(R)
    PROVE  LET run == Store("server", d, R, Gone, r) IN
           /\ Keyed(run.rows)
           /\ run.rows \subseteq R \cup {r}
<1> DEFINE refused == \/ Refuses("server", d, r)
                      \/ \E i \in Indices(d), x \in R \ Gone : Collides(i, r, x)
                      \/ Orphans("server", d, r)
<1>1. CASE refused
  <2>1. Store("server", d, R, Gone, r) = Failure(R)
    BY <1>1 DEF Store
  <2>2. QED BY <2>1, RunFields
<1>2. CASE ~refused
  <2>1. Store("server", d, R, Gone, r) = Success((R \ Gone) \cup {r})
    BY <1>2 DEF Store
  <2>2. r.id \notin {Null, Big}
    BY <1>2 DEF Refuses
  <2>3. \A x \in R \ Gone : ~Collides(Index("id", {}), r, x)
    BY <1>2 DEF Indices
  <2>4. \A x \in R \ Gone : r.id # x.id
    <3> SUFFICES ASSUME NEW x \in R \ Gone, r.id = x.id PROVE FALSE
      OBVIOUS
    <3>1. Index("id", {}).on = "id" /\ Index("id", {}).terms = {}
      BY DEF Index
    <3>2. Collides(Index("id", {}), r, x)
      BY <2>2, <3>1 DEF Collides, Selects
    <3>3. QED BY <3>2, <2>3
  <2>5. Keyed((R \ Gone) \cup {r})
    BY <2>2, <2>4 DEF Keyed
  <2>6. QED BY <2>1, <2>5, RunFields
<1>3. QED BY <1>1, <1>2

----------------------------------------------------------------------------
(* Inserts and updates of a row                                            *)

Chosen(S) == CHOOSE x \in S : TRUE

\* InsertRow, case by case.
InsertMeans(side, d, R, r, A, s) ==
    LET run == InsertRow(side, d, R, r, A, s)
        x == Chosen(Hits(R, r, A))
    IN  /\ Refuses(side, d, r) => run = Failure(R)
        /\ ~Refuses(side, d, r) /\ Hits(R, r, A) # {} /\ s.action = "nothing" => run = Success(R)
        /\ ~Refuses(side, d, r) /\ Hits(R, r, A) # {} /\ s.action = "update"
             => run = Store(side, d, R, {x}, Assigned(d, s.set, x, r))
        /\ ~Refuses(side, d, r) /\ (Hits(R, r, A) = {} \/ s.action \notin {"nothing", "update"})
             => run = Store(side, d, R, {}, r)

LEMMA InsertCases ==
    ASSUME NEW side, NEW d, NEW R, NEW r, NEW A, NEW s
    PROVE  InsertMeans(side, d, R, r, A, s)
<1> DEFINE hits == Hits(R, r, A)
           run == InsertRow(side, d, R, r, A, s)
<1> DEFINE stored == Store(side, d, R, {Chosen(hits)}, Assigned(d, s.set, Chosen(hits), r))
<1>1. run = IF Refuses(side, d, r) THEN Failure(R)
            ELSE CASE hits # {} /\ s.action = "nothing" -> Success(R)
                   [] hits # {} /\ s.action = "update" -> stored
                   [] OTHER -> Store(side, d, R, {}, r)
  BY Zenon DEF InsertRow, Chosen
<1> HIDE DEF hits, run, stored
<1>2. /\ Refuses(side, d, r) => run = Failure(R)
      /\ ~Refuses(side, d, r) /\ hits # {} /\ s.action = "nothing" => run = Success(R)
      /\ ~Refuses(side, d, r) /\ hits # {} /\ s.action = "update" => run = stored
      /\ ~Refuses(side, d, r) /\ (hits = {} \/ s.action \notin {"nothing", "update"})
            => run = Store(side, d, R, {}, r)
  BY <1>1
<1>3. QED BY <1>2 DEF hits, run, stored, InsertMeans

\* An assignment that leaves the key alone keeps it.
LEMMA AssignedKey ==
    ASSUME NEW d, NEW set, NEW x, NEW r, "id" \notin DOMAIN set
    PROVE  Assigned(d, set, x, r).id = x.id
BY DEF Assigned

\* An insert has the same result on both sides, with or without a conflict
\* clause, when both see the same row and the same arbiters.
LEMMA InsertAgrees ==
    ASSUME NEW d, NEW R, NEW r, NEW A, NEW s, NEW t,
           s.action = t.action, s.set = t.set, "id" \notin DOMAIN s.set,
           Keyed(R), Fits(d, r), d.match = "full" => A = {}
    PROVE  InsertRow("server", d, R, r, A, s) = InsertRow("replica", d, R, r, A, t)
<1> DEFINE x == Chosen(Hits(R, r, A))
           n == Assigned(d, s.set, x, r)
<1>1. Store("server", d, R, {}, r) = Store("replica", d, R, {}, r)
  BY StoreAgrees
<1>2. CASE d.match = "full"
  <2>1. Hits(R, r, A) = {}
    BY <1>2 DEF Hits
  <2>2. ASSUME NEW side, NEW u
        PROVE  InsertRow(side, d, R, r, A, u) = Store(side, d, R, {}, r)
    <3>1. Refuses(side, d, r) => Store(side, d, R, {}, r) = Failure(R)
      BY DEF Store
    <3>2. InsertMeans(side, d, R, r, A, u)
      BY InsertCases
    <3>3. QED BY <2>1, <3>1, <3>2 DEF InsertMeans
  <2>3. QED BY <1>1, <2>2
<1>3. CASE d.match # "full"
  <2>1. Refuses("server", d, r) <=> Refuses("replica", d, r)
    BY <1>3, RefusesAgree
  <2>2. ASSUME Hits(R, r, A) # {}
        PROVE  Store("server", d, R, {x}, n) = Store("replica", d, R, {x}, n)
    <3>1. x \in R
      BY <2>2 DEF Hits, Chosen
    <3>2. n.id = x.id
      BY AssignedKey
    <3>3. Fits(d, n)
      BY <3>1, <3>2 DEF Fits, Keyed
    <3>4. QED BY <3>3, StoreAgrees
  <2>3. t.set = s.set /\ t.action = s.action
    OBVIOUS
  <2> HIDE DEF n
  <2>4. n = Assigned(d, s.set, x, r) /\ n = Assigned(d, t.set, x, r)
    BY <2>3 DEF n
  <2> HIDE DEF x
  <2>5. x = Chosen(Hits(R, r, A))
    BY DEF x
  <2>6. InsertMeans("server", d, R, r, A, s) /\ InsertMeans("replica", d, R, r, A, t)
    BY InsertCases
  <2>7. QED BY <1>1, <2>1, <2>2, <2>3, <2>4, <2>5, <2>6 DEF InsertMeans
<1>4. QED BY <1>2, <1>3

\* What an insert leaves: the keys of a table, all of them old ones or the
\* new row's.
LEMMA InsertKeeps ==
    ASSUME NEW d, NEW R, NEW r, NEW A, NEW s, "id" \notin DOMAIN s.set, Keyed(R)
    PROVE  LET run == InsertRow("server", d, R, r, A, s) IN
           /\ Keyed(run.rows)
           /\ \A y \in run.rows : y.id = r.id \/ \E x \in R : y.id = x.id
<1> DEFINE x == Chosen(Hits(R, r, A))
           n == Assigned(d, s.set, x, r)
           run == InsertRow("server", d, R, r, A, s)
           Kept == Keyed(run.rows) /\ \A y \in run.rows : y.id = r.id \/ \E z \in R : y.id = z.id
<1>1. CASE run = Failure(R) \/ run = Success(R)
  BY <1>1, RunFields
<1>2. CASE run = Store("server", d, R, {}, r)
  BY <1>2, StoreKeeps
<1>3. CASE Hits(R, r, A) # {} /\ run = Store("server", d, R, {x}, n)
  <2>1. x \in R
    BY <1>3 DEF Hits, Chosen
  <2>2. n.id = x.id
    BY AssignedKey
  <2>3. Keyed(run.rows) /\ run.rows \subseteq R \cup {n}
    BY <1>3, StoreKeeps
  <2>4. QED BY <2>1, <2>2, <2>3
<1>4. InsertMeans("server", d, R, r, A, s)
  BY InsertCases
<1> HIDE DEF run
<1>5. \/ run = Failure(R) \/ run = Success(R)
      \/ run = Store("server", d, R, {}, r)
      \/ Hits(R, r, A) # {} /\ run = Store("server", d, R, {x}, n)
  BY <1>4 DEF InsertMeans, run
<1>6. QED BY <1>1, <1>2, <1>3, <1>5 DEF run

\* An update has the same result on both sides, and leaves the keys of a
\* table; if it assigns no key, no new one.
LEMMA UpdateAgrees ==
    ASSUME NEW d, NEW R, NEW s, Keyed(R),
           "id" \in DOMAIN s.set /\ Generates(d) => s.set["id"] \notin {Excluded, Big}
    PROVE  /\ UpdateRow("server", d, R, s) = UpdateRow("replica", d, R, s)
           /\ Keyed(UpdateRow("server", d, R, s).rows)
           /\ "id" \notin DOMAIN s.set =>
                \A y \in UpdateRow("server", d, R, s).rows : \E x \in R : y.id = x.id
<1> DEFINE at == {x \in R : x.id = s.row}
           x == Chosen(at)
           n == Assigned(d, s.set, x, x)
<1>1. CASE at = {}
  <2>1. \A side : UpdateRow(side, d, R, s) = Success(R)
    BY <1>1 DEF UpdateRow
  <2>2. QED BY <2>1, RunFields
<1>2. CASE at # {}
  <2>1. x \in R
    BY <1>2 DEF Chosen
  <2>2. \A side : UpdateRow(side, d, R, s) = Store(side, d, R, {x}, n)
    BY <1>2 DEF UpdateRow, Chosen
  <2>3. n.id = IF "id" \notin DOMAIN s.set THEN x.id
               ELSE IF s.set["id"] = Excluded THEN x.id ELSE s.set["id"]
    BY DEF Assigned
  <2>4. Fits(d, n)
    BY <2>1, <2>3 DEF Fits, Keyed
  <2>5. Store("server", d, R, {x}, n) = Store("replica", d, R, {x}, n)
    BY <2>4, StoreAgrees
  <2>6. Keyed(Store("server", d, R, {x}, n).rows)
        /\ Store("server", d, R, {x}, n).rows \subseteq R \cup {n}
    BY StoreKeeps
  <2> HIDE DEF n, x, at
  <2>7. QED BY <2>1, <2>2, <2>3, <2>5, <2>6
<1>3. QED BY <1>1, <1>2

----------------------------------------------------------------------------
(* Translation: conflict targets                                           *)

\* What a statement's target resolves to on the server is what its
\* translation resolves to on the replica.
SameArbiters(d, target, t) ==
    /\ ServerArbiters(d, target) = ReplicaArbiters(d, t)
    /\ Unresolved(target, ServerArbiters(d, target)) <=> Unresolved(t, ReplicaArbiters(d, t))

LEMMA IndexFields == \A c, terms : Index(c, terms).on = c /\ Index(c, terms).terms = terms
BY DEF Index

LEMMA IndexForms ==
    ASSUME NEW d, NEW i \in Indices(d)
    PROVE  /\ i = Index(i.on, i.terms) /\ i.on \in {"id", "a"}
           /\ i.on = "a" => i.terms \in d.unique
<1>1. CASE i = Index("id", {})
  BY <1>1, IndexFields
<1>2. CASE \E terms \in d.unique : i = Index("a", terms)
  BY <1>2, IndexFields
<1>3. QED BY <1>1, <1>2 DEF Indices

LEMMA ConstraintForms ==
    ASSUME NEW d, NEW i \in Constraints(d)
    PROVE  i = Index(i.on, {}) /\ i.terms = {} /\ i.on \in {"id", "a"} /\ i \in Indices(d)
<1>1. CASE i = Index("id", {})
  BY <1>1, IndexFields DEF Indices
<1>2. CASE {} \in d.unique /\ i = Index("a", {})
  BY <1>2, IndexFields DEF Indices
<1>3. QED BY <1>1, <1>2 DEF Constraints

\* A target with a predicate is kept only when a single partial index
\* answers it, and then names that index's predicate.
LEMMA PredicateTarget ==
    ASSUME NEW d, NEW target, DOMAIN target = {"kind", "on", "terms", "name"},
           target.kind = "columns", target.terms # {},
           NEW t \in ConflictTarget(d, target)
    PROVE  SameArbiters(d, target, t)
<1>1. PICK u \in PartialArbiters(d, target) :
            PartialArbiters(d, target) = {u} /\ t = [target EXCEPT !.terms = u]
  BY DEF ConflictTarget
<1>2. t.kind = "columns" /\ t.on = target.on /\ t.terms = u
  BY <1>1
<1>3. target.on = "a" /\ u \subseteq target.terms
  BY <1>1 DEF PartialArbiters
<1>4. \A terms \in d.unique : terms \subseteq target.terms <=> terms \in {{}, u}
  BY <1>1, <1>3 DEF PartialArbiters
<1>5. \A i \in Indices(d) : i.on = "a" => i.terms \in d.unique
  BY IndexForms
<1>6. ServerArbiters(d, target) = {i \in Indices(d) : i.on = "a" /\ i.terms \subseteq target.terms}
  BY <1>3 DEF ServerArbiters
<1>7. ReplicaArbiters(d, t) = {i \in Indices(d) : i.on = "a" /\ i.terms \in {{}, u}}
  BY <1>2, <1>3 DEF ReplicaArbiters
<1>8. ServerArbiters(d, target) = ReplicaArbiters(d, t)
  BY <1>4, <1>5, <1>6, <1>7
<1>9. QED BY <1>2, <1>8 DEF SameArbiters, Unresolved

\* A constraint name stands for the columns of the one constraint that has it.
LEMMA NamedTarget ==
    ASSUME NEW d, NEW target, IsDeclaration(d), target.kind = "constraint",
           target.name = "t_a_key" => d.name = "",
           NEW t \in ConflictTarget(d, target)
    PROVE  SameArbiters(d, target, t)
<1> DEFINE named == {i \in Constraints(d) : Answers(d, i, target.name)}
           found == Chosen(named)
<1>1. named # {} /\ t = [kind |-> "columns", on |-> found.on, terms |-> {}, name |-> ""]
  BY DEF ConflictTarget, Chosen
<1>2. found \in Constraints(d) /\ Answers(d, found, target.name)
  BY <1>1 DEF Chosen
<1>3. t.kind = "columns" /\ t.on = found.on /\ t.terms = {}
  BY <1>1
<1> HIDE DEF named, found
<1>4. ServerArbiters(d, target)
        = {i \in Constraints(d) : IF i.on = "a" /\ d.name # "" THEN target.name = d.name
                                  ELSE target.name = PostgresConstraintName(i)}
  BY DEF ServerArbiters
<1>5. \A i \in Constraints(d) :
        Answers(d, i, target.name)
          <=> IF i.on = "a" /\ d.name # "" THEN target.name = d.name
              ELSE target.name = PostgresConstraintName(i)
  BY ConstraintForms DEF Answers, PostgresConstraintName
<1>6. \A i \in Constraints(d) : Answers(d, i, target.name) => i.on = found.on
  BY <1>2, ConstraintForms DEF Answers, PostgresConstraintName, IsDeclaration
<1>7. \A i \in Constraints(d) : i.on = found.on => i = found
  <2> SUFFICES ASSUME NEW i \in Constraints(d), i.on = found.on PROVE i = found
    OBVIOUS
  <2>1. i = Index(i.on, {}) /\ found = Index(found.on, {})
    BY <1>2, ConstraintForms
  <2>2. QED BY <2>1
<1>8. ServerArbiters(d, target) = {found}
  BY <1>2, <1>4, <1>5, <1>6, <1>7
<1>9. ReplicaArbiters(d, t) = {i \in Indices(d) : i.on = found.on /\ i.terms = {}}
  BY <1>3 DEF ReplicaArbiters
<1>10. \A i \in Indices(d) : i.terms = {} => i = Index(i.on, {})
  BY IndexForms
<1>11. found = Index(found.on, {}) /\ found.terms = {} /\ found \in Indices(d)
  BY <1>2, ConstraintForms
<1>12. ReplicaArbiters(d, t) = {found}
  BY <1>9, <1>10, <1>11
<1>13. QED BY <1>8, <1>12 DEF SameArbiters, Unresolved

LEMMA TargetsAgree ==
    ASSUME NEW d, NEW target, IsDeclaration(d),
           DOMAIN target = {"kind", "on", "terms", "name"},
           target.kind \in {"none", "any", "columns", "constraint"},
           target.name = "t_a_key" => d.name = "",
           NEW t \in ConflictTarget(d, target)
    PROVE  SameArbiters(d, target, t) /\ (target.kind = "none" => ServerArbiters(d, target) = {})
<1>1. CASE target.kind \in {"none", "any"}
  <2>1. t = target
    BY <1>1 DEF ConflictTarget
  <2>2. QED BY <1>1, <2>1 DEF SameArbiters, ServerArbiters, ReplicaArbiters
<1>2. CASE target.kind = "columns" /\ target.terms = {}
  <2>1. t = target
    BY <1>2 DEF ConflictTarget
  <2>2. \A terms : terms \subseteq {} <=> terms \in {{}, {}}
    OBVIOUS
  <2>3. ServerArbiters(d, target) = ReplicaArbiters(d, t)
    BY <1>2, <2>1, <2>2 DEF ServerArbiters, ReplicaArbiters
  <2>4. QED BY <1>2, <2>1, <2>3 DEF SameArbiters
<1>3. CASE target.kind = "columns" /\ target.terms # {}
  BY <1>3, PredicateTarget
<1>4. CASE target.kind = "constraint"
  BY <1>4, NamedTarget
<1>5. QED BY <1>1, <1>2, <1>3, <1>4

----------------------------------------------------------------------------
(* Translation: rows and generated keys                                    *)

\* A default is no marker of an omitted or defaulted value.
LEMMA DefaultFacts ==
    ASSUME NEW d, IsDeclaration(d), NEW c
    PROVE  DefaultExprForColumn(d, c) \notin {Omitted, Default, Excluded}
BY Marks DEF DefaultExprForColumn, IsDeclaration

\* The fields of a translated insert.
LEMMA TranslatedFields ==
    ASSUME NEW d, NEW s, IsStatement(s)
    PROVE  LET t == TranslateInsert(d, s) IN
           /\ t.op = s.op /\ t.action = s.action
           /\ t.row = (IF s.row = Default THEN DefaultExprForColumn(d, "id") ELSE s.row)
           /\ t.a = (IF s.a = Default THEN DefaultExprForColumn(d, "a") ELSE s.a)
           /\ t.b = (IF s.b = Default THEN DefaultExprForColumn(d, "b") ELSE s.b)
           /\ t.set = SubstitutedAssignments(d, s.set)
           /\ t.target = Chosen(ConflictTarget(d, s.target))
<1> DEFINE u == SubstituteDefaultValues(d, s)
<1>1. /\ DOMAIN u = DOMAIN s /\ u.op = s.op /\ u.action = s.action
      /\ u.row = (IF s.row = Default THEN DefaultExprForColumn(d, "id") ELSE s.row)
      /\ u.a = (IF s.a = Default THEN DefaultExprForColumn(d, "a") ELSE s.a)
      /\ u.b = (IF s.b = Default THEN DefaultExprForColumn(d, "b") ELSE s.b)
  BY DEF IsStatement, SubstituteDefaultValues
<1> HIDE DEF u
<1>2. TranslateInsert(d, s)
        = [u EXCEPT !.set = SubstitutedAssignments(d, s.set), !.target = Chosen(ConflictTarget(d, s.target))]
  BY DEF TranslateInsert, u, Chosen
<1>3. QED BY <1>1, <1>2 DEF IsStatement

\* The row of a translated insert is the server's row, once the key that
\* each side generates is the same.
LEMMA RowsAgree ==
    ASSUME NEW d, NEW s, NEW next, IsDeclaration(d), IsStatement(s), s.op = "insert",
           IsKey(d, s.row) \/ (Generates(d) /\ s.row \in {Omitted, Default}),
           Draws(d, s) => NextRowid(d) = next
    PROVE  ServerRow(d, s, next) = ReplicaRow(d, TranslateInsert(d, s))
<1> DEFINE t == TranslateInsert(d, s)
<1>1. /\ t.row = (IF s.row = Default THEN DefaultExprForColumn(d, "id") ELSE s.row)
      /\ t.a = (IF s.a = Default THEN DefaultExprForColumn(d, "a") ELSE s.a)
      /\ t.b = (IF s.b = Default THEN DefaultExprForColumn(d, "b") ELSE s.b)
  BY TranslatedFields
<1> HIDE DEF t
<1>2. DefaultExprForColumn(d, "id") = Null /\ DefaultExprForColumn(d, "b") = Null
  BY DEF DefaultExprForColumn
<1>3. IsKey(d, s.row) => s.row \notin {Omitted, Default, Null}
  BY Marks DEF IsKey
<1>4. (IF Draws(d, s) THEN next ELSE Given(d, "id", s.row))
        = (IF t.row \in {Omitted, Null} THEN NextRowid(d) ELSE t.row)
  BY <1>1, <1>2, <1>3, Marks DEF Draws, Given
<1>5. Given(d, "a", s.a) = IF t.a = Omitted THEN DefaultExprForColumn(d, "a") ELSE t.a
  BY <1>1, DefaultFacts DEF Given
<1>6. Given(d, "b", s.b) = IF t.b = Omitted THEN Null ELSE t.b
  BY <1>1, <1>2, Marks DEF Given
<1>7. QED BY <1>4, <1>5, <1>6 DEF ServerRow, ReplicaRow, t

LEMMA MaxIs ==
    ASSUME NEW S, NEW m \in S, m \in Int, \A x \in S : x \in Int /\ x <= m
    PROVE  Max(S) = m
<1>1. PICK k \in S : k = Max(S) /\ \A y \in S : k >= y
  BY DEF Max
<1>2. QED BY <1>1

\* A table whose key the server generates counts its rowids from the
\* high-water mark.
LEMMA Autoincrement ==
    ASSUME NEW d, IsDeclaration(d), ~TableRefused(d), Generates(d)
    PROVE  KeyColumn(d).autoincrement
<1>1. d.at \in {"column", "table"}
  BY DEF TableRefused, IsRowidAlias, IsDeclaration
<1>2. QED BY <1>1 DEF KeyColumn, FoldedPrimaryKey

\* While the counters are together the next rowid is the sequence's next
\* value.
LEMMA NextKeys ==
    ASSUME IsDeclaration(decl), ~TableRefused(decl), Together, Generates(decl), ~loose
    PROVE  NextRowid(decl) = sequence + 1
<1>1. mark \in Nat /\ sequence = mark /\ \A x \in rows : x.id \in 1..mark
  BY DEF Together, Counted
<1>2. NextRowid(decl) = Max({x.id : x \in rows} \cup {mark}) + 1
  BY Autoincrement DEF NextRowid
<1> DEFINE S == {x.id : x \in rows} \cup {mark}
<1>3. \A k \in S : k \in Int /\ k <= mark
  BY <1>1
<1>4. Max(S) = mark
  <2> HIDE DEF S
  <2>1. mark \in S
    BY DEF S
  <2>2. QED BY <1>1, <1>3, <2>1, MaxIs
<1>5. QED BY <1>1, <1>2, <1>4

----------------------------------------------------------------------------
(* Steps                                                                   *)

\* What the two runs of a statement leave: a drawn key is the mark's next
\* one and the only new one; a statement that neither draws a key nor is
\* given one adds none.
NewKeys(run, drawn, used) ==
    /\ used \in Int
    /\ drawn => Generates(decl) /\ used = mark + 1
    /\ ~drawn => used >= 0
    /\ drawn \/ used = 0 =>
         \A y \in run.rows : (y.id = used /\ drawn) \/ \E x \in rows : y.id = x.id

\* Two runs with the same result keep the two sides together.
LEMMA RunKeeps ==
    ASSUME Together, IsDeclaration(decl), ~TableRefused(decl),
           NEW server, NEW replica, NEW drawn, NEW used,
           Run(server, replica, drawn, used), UNCHANGED decl,
           server = replica, Keyed(server.rows), loose => ~drawn,
           Generates(decl) => NewKeys(server, drawn, used)
    PROVE  Together'
<1>1. serverRows' = rows' /\ rows' = server.rows
  BY DEF Run
<1>2. outcome'.server = outcome'.replica
  BY DEF Run
<1>3. sequence' \in Nat /\ loose' \in BOOLEAN
  BY DEF Run, Together
<1>4. Keyed(rows')
  BY <1>1
<1>5. ASSUME Generates(decl), ~loose'
      PROVE  mark' \in Nat /\ sequence' = mark' /\ \A y \in rows' : y.id \in 1..mark'
  <2>1. ~loose /\ (IF drawn THEN server.done ELSE ~(used > 0))
    BY <1>5 DEF Run, Together
  <2>2. mark \in Nat /\ sequence = mark /\ \A x \in rows : x.id \in 1..mark
    BY <1>5, <2>1 DEF Together, Counted
  <2>3. NewKeys(server, drawn, used)
    BY <1>5
  <2>4. mark' = IF replica.done THEN Max({mark, used}) ELSE mark
    BY <1>5, Autoincrement DEF Run
  <2>5. CASE drawn
    <3>1. used = mark + 1 /\ replica.done
      BY <2>1, <2>3, <2>5 DEF NewKeys
    <3>2. Max({mark, used}) = used
      BY <2>2, <3>1, MaxIs
    <3>3. mark' = mark + 1 /\ sequence' = mark + 1
      BY <2>2, <2>4, <2>5, <3>1, <3>2 DEF Run
    <3>4. \A y \in rows' : y.id = mark + 1 \/ \E x \in rows : y.id = x.id
      BY <1>1, <2>3, <2>5, <3>1 DEF NewKeys
    <3>5. QED BY <2>2, <3>3, <3>4
  <2>6. CASE ~drawn
    <3>1. used = 0
      BY <2>1, <2>3, <2>6 DEF NewKeys
    <3>2. Max({mark, used}) = mark
      BY <2>2, <3>1, MaxIs
    <3>3. mark' = mark /\ sequence' = mark
      BY <2>2, <2>4, <2>6, <3>2 DEF Run
    <3>4. \A y \in rows' : \E x \in rows : y.id = x.id
      BY <1>1, <2>3, <2>6, <3>1 DEF NewKeys
    <3>5. QED BY <2>2, <3>3, <3>4
  <2>7. QED BY <2>5, <2>6
<1>6. Generates(decl') = Generates(decl)
  OBVIOUS
<1>7. QED BY <1>1, <1>2, <1>3, <1>4, <1>5, <1>6 DEF Together, Counted

\* A refused statement runs nowhere.
LEMMA RefusalKeeps ==
    ASSUME Together, Refusal, UNCHANGED decl PROVE Together'
BY DEF Together, Refusal, Counted

\* An insert on the two sides.
LEMMA InsertRuns ==
    ASSUME Together, Within, decl \in Declarations, ~TableRefused(decl),
           NEW s \in WriteStatements(decl), ~(loose /\ Draws(decl, s)), s.op = "insert", ~RefusedInsert(decl, s)
    PROVE  LET t == TranslateInsert(decl, s) IN
           /\ ServerRun(decl, s) = ReplicaRun(decl, t)
           /\ Keyed(ServerRun(decl, s).rows)
           /\ NewKeys(ServerRun(decl, s), Draws(decl, s), ReplicaRow(decl, t).id)
<1> DEFINE d == decl
           t == TranslateInsert(d, s)
           r == ServerRow(d, s, sequence + 1)
           A == ServerArbiters(d, s.target)
           u == [s EXCEPT !.set = SubstitutedAssignments(d, s.set)]
<1>1. /\ IsDeclaration(d) /\ IsStatement(s)
      /\ IsKey(d, s.row) \/ (Generates(d) /\ s.row \in {Omitted, Default})
      /\ "id" \notin DOMAIN s.set
      /\ d.match = "full" => s.target.kind = "none"
      /\ s.target.name = "t_a_key" => d.name = ""
  BY WritesAssumption DEF Expressible
<1>2. sequence \in Nat /\ sequence < MaxKey /\ serverRows = rows /\ Keyed(rows)
  BY DEF Together, Within
<1>3. Draws(d, s) => ~loose /\ Generates(d) /\ sequence = mark /\ NextRowid(d) = sequence + 1
  BY <1>1, NextKeys DEF Draws, Together, Counted
<1>4. r = ReplicaRow(d, t)
  BY <1>1, <1>3, RowsAgree
<1>5. /\ Draws(d, s) => r.id = sequence + 1
      /\ ~Draws(d, s) => r.id = s.row /\ IsKey(d, s.row)
  BY <1>1, Marks DEF ServerRow, Draws, Given, IsKey
<1>6. Fits(d, r)
  <2>1. MaxKey \in Nat /\ MaxKey < 99 /\ sequence \in Nat /\ sequence < MaxKey
    BY <1>2, WritesAssumption DEF Big
  <2>2. sequence + 1 # Big
    BY <2>1 DEF Big
  <2> HIDE DEF r
  <2>3. QED BY <1>5, <2>2 DEF Fits, IsKey
<1>7. /\ t.op = "insert" /\ t.action = s.action /\ t.set = SubstitutedAssignments(d, s.set)
      /\ t.target \in ConflictTarget(d, s.target)
  <2>1. ConflictTarget(d, s.target) # {}
    BY DEF RefusedInsert
  <2>2. Chosen(ConflictTarget(d, s.target)) \in ConflictTarget(d, s.target)
    BY <2>1 DEF Chosen
  <2>3. QED BY <1>1, <2>2, TranslatedFields
<1>8. u.action = s.action /\ u.set = SubstitutedAssignments(d, s.set) /\ "id" \notin DOMAIN u.set
  BY <1>1 DEF IsStatement, SubstitutedAssignments
<1> HIDE DEF t, u, r
<1>9. SameArbiters(d, s.target, t.target) /\ (s.target.kind = "none" => A = {})
  BY <1>1, <1>7, TargetsAgree DEF IsStatement
<1>10. CASE Unresolved(s.target, A)
  <2>1. ServerRun(d, s) = Failure(rows)
    BY <1>2, <1>10 DEF ServerRun, ServerRejects
  <2>2. ReplicaRun(d, t) = Failure(rows)
    BY <1>7, <1>9, <1>10 DEF ReplicaRun, SameArbiters
  <2>3. NewKeys(Failure(rows), Draws(d, s), r.id)
    BY <1>2, <1>3, <1>5, RunFields DEF NewKeys, IsKey
  <2>4. QED BY <1>2, <1>4, <2>1, <2>2, <2>3, RunFields DEF t
<1>11. CASE ~Unresolved(s.target, A)
  <2>1. ~ServerRejects(d, s)
    BY <1>11 DEF ServerRejects, RefusedInsert
  <2>2. ServerRun(d, s) = InsertRow("server", d, rows, r, A, u)
    BY <1>2, <2>1 DEF ServerRun, r, u
  <2>3. ReplicaRun(d, t) = InsertRow("replica", d, rows, r, A, t)
    BY <1>4, <1>7, <1>9, <1>11 DEF ReplicaRun, SameArbiters
  <2>4. InsertRow("server", d, rows, r, A, u) = InsertRow("replica", d, rows, r, A, t)
    BY <1>1, <1>2, <1>6, <1>7, <1>8, <1>9, InsertAgrees
  <2>5. /\ Keyed(InsertRow("server", d, rows, r, A, u).rows)
        /\ \A y \in InsertRow("server", d, rows, r, A, u).rows : y.id = r.id \/ \E x \in rows : y.id = x.id
    BY <1>2, <1>8, InsertKeeps
  <2>6. NewKeys(ServerRun(d, s), Draws(d, s), r.id)
    BY <1>2, <1>3, <1>5, <2>2, <2>5 DEF NewKeys, IsKey
  <2>7. QED BY <1>4, <2>2, <2>3, <2>4, <2>5, <2>6 DEF t
<1>12. QED BY <1>10, <1>11

LEMMA InsertKeepsTogether ==
    ASSUME Together, Within, UNCHANGED decl, decl \in Declarations, ~TableRefused(decl), ~excused',
           NEW s \in WriteStatements(decl), Insert(s)
    PROVE  Together'
<1>1. CASE RefusedInsert(decl, s)
  BY <1>1, RefusalKeeps DEF Insert
<1>2. CASE ~RefusedInsert(decl, s)
  <2> DEFINE t == TranslateInsert(decl, s)
             drawn == Draws(decl, s)
             server == ServerRun(decl, s)
             replica == ReplicaRun(decl, t)
             used == ReplicaRow(decl, t).id
  <2>1. s.op = "insert" /\ Run(server, replica, drawn, used)
    BY <1>2 DEF Insert
  <2>2. ~(loose /\ drawn)
    BY <2>1 DEF Run
  <2>3. server = replica /\ Keyed(server.rows) /\ NewKeys(server, drawn, used)
    BY <1>2, <2>1, <2>2, InsertRuns
  <2>4. IsDeclaration(decl)
    BY WritesAssumption
  <2> HIDE DEF t, drawn, server, replica, used
  <2>5. QED BY <2>1, <2>2, <2>3, <2>4, RunKeeps
<1>3. QED BY <1>1, <1>2

LEMMA UpdateKeepsTogether ==
    ASSUME Together, UNCHANGED decl, decl \in Declarations, ~TableRefused(decl),
           NEW s \in WriteStatements(decl), Update(s)
    PROVE  Together'
<1>1. CASE RefusedUpdate(decl, s)
  BY <1>1, RefusalKeeps DEF Update
<1>2. CASE ~RefusedUpdate(decl, s)
  <2> DEFINE t == TranslateUpdate(decl, s)
             server == ServerRun(decl, s)
             replica == ReplicaRun(decl, t)
             given == "id" \in DOMAIN s.set /\ s.set["id"] # Default
             used == IF given THEN s.set["id"] ELSE 0
  <2>1. s.op = "update" /\ Run(server, replica, FALSE, used)
    BY <1>2 DEF Update
  <2>2. /\ IsDeclaration(decl) /\ IsStatement(s)
        /\ "id" \in DOMAIN s.set => s.set["id"] = Default \/ IsKey(decl, s.set["id"])
    BY <2>1, WritesAssumption DEF Expressible
  <2>3. serverRows = rows /\ Keyed(rows)
    BY DEF Together
  <2>4. t.op = "update" /\ t.set = SubstitutedAssignments(decl, s.set)
    BY <2>1, <2>2 DEF TranslateUpdate, IsStatement
  <2>5. /\ DOMAIN t.set = DOMAIN s.set
        /\ "id" \in DOMAIN s.set /\ s.set["id"] # Default => t.set["id"] = s.set["id"]
    BY <2>4 DEF SubstitutedAssignments
  <2>6. "id" \in DOMAIN s.set /\ s.set["id"] = Default => ~Generates(decl)
    BY <1>2 DEF RefusedUpdate, RejectGeneratedKeyAssignment
  <2>7. ~ServerRejects(decl, s)
    BY <1>2, <2>1 DEF ServerRejects, RefusedUpdate, RejectGeneratedKeyAssignment
  <2> HIDE DEF t
  <2>8. server = UpdateRow("server", decl, rows, t)
    BY <2>1, <2>3, <2>7 DEF ServerRun, t
  <2>9. replica = UpdateRow("replica", decl, rows, t)
    BY <2>4 DEF ReplicaRun
  <2>10. "id" \in DOMAIN t.set /\ Generates(decl) => t.set["id"] \notin {Excluded, Big}
    BY <2>2, <2>5, <2>6, Marks DEF IsKey
  <2>11. /\ UpdateRow("server", decl, rows, t) = UpdateRow("replica", decl, rows, t)
         /\ Keyed(UpdateRow("server", decl, rows, t).rows)
         /\ "id" \notin DOMAIN t.set =>
               \A y \in UpdateRow("server", decl, rows, t).rows : \E x \in rows : y.id = x.id
    BY <2>3, <2>10, UpdateAgrees
  <2>12. used \in Int /\ used >= 0 /\ (used = 0 /\ Generates(decl) => "id" \notin DOMAIN t.set)
    BY <2>2, <2>5, <2>6 DEF IsKey
  <2> HIDE DEF server, replica, given, used
  <2>13. Generates(decl) => NewKeys(server, FALSE, used)
    BY <2>8, <2>11, <2>12 DEF NewKeys
  <2>14. QED BY <2>1, <2>2, <2>8, <2>9, <2>11, <2>13, RunKeeps
<1>3. QED BY <1>1, <1>2

LEMMA DeleteKeepsTogether ==
    ASSUME Together, UNCHANGED decl, decl \in Declarations, ~TableRefused(decl),
           NEW s \in WriteStatements(decl), Delete(s)
    PROVE  Together'
<1> DEFINE left == {x \in rows : x.id # s.row}
           server == ServerRun(decl, s)
           replica == ReplicaRun(decl, s)
<1>1. s.op = "delete" /\ Run(server, replica, FALSE, 0)
  BY DEF Delete
<1>2. serverRows = rows /\ Keyed(rows)
  BY DEF Together
<1>3. server = Success(left) /\ replica = Success(left)
  BY <1>1, <1>2 DEF ServerRun, ServerRejects, ReplicaRun
<1>4. server.rows = left
  BY <1>3, RunFields
<1>5. Keyed(left)
  BY <1>2 DEF Keyed
<1> HIDE DEF server, replica
<1>6. NewKeys(server, FALSE, 0)
  BY <1>4 DEF NewKeys
<1>7. IsDeclaration(decl)
  BY WritesAssumption
<1>8. QED BY <1>1, <1>3, <1>4, <1>5, <1>6, <1>7, RunKeeps

\* A replaced row on the two sides: with the primary key as the only index
\* in the way, deleting what collides and updating it in place leave the
\* same row.
LEMMA ReplaceRuns ==
    ASSUME Together, decl \in Declarations,
           NEW s \in WriteStatements(decl), s.op = "replace", ~RefusedReplace(decl, s)
    PROVE  LET u == BuildUpsertOnConflict(s)
               server == ServerRun(decl, u)
           IN /\ server = ReplaceRow(decl, s)
              /\ Keyed(server.rows)
              /\ ~Draws(decl, u)
              /\ ReplicaRow(decl, s).id \in Nat \ {0}
<1> DEFINE d == decl
           u == BuildUpsertOnConflict(s)
           r == ReplicaRow(d, s)
           upsert == [u EXCEPT !.set = SubstitutedAssignments(d, u.set)]
           key == Index("id", {})
           hits == Hits(rows, r, {key})
<1>1. /\ IsDeclaration(d) /\ IsStatement(s)
      /\ IsKey(d, s.row) /\ s.a # Default /\ s.b # Default
      /\ d.key # "always" /\ d.unique \subseteq {{}}
  BY WritesAssumption DEF Expressible
<1>2. serverRows = rows /\ Keyed(rows)
  BY DEF Together
<1>3. d.unique = {}
  BY <1>1 DEF RefusedReplace, RejectUnfaithfulReplace
<1>4. Indices(d) = {key}
  BY <1>3 DEF Indices
<1>5. s.row \in Nat \ {0} /\ s.row \notin {Omitted, Default, Null}
  BY <1>1, Marks DEF IsKey
<1>6. /\ u.op = "insert" /\ u.action = "update" /\ u.row = s.row /\ u.a = s.a /\ u.b = s.b
      /\ u.target.kind = "columns" /\ u.target.on = "id" /\ u.target.terms = {}
      /\ u.set = [c \in {"a", "b"} |-> IF s[c] = Omitted THEN Default ELSE Excluded]
      /\ DOMAIN u = DOMAIN s
  BY <1>1 DEF BuildUpsertOnConflict, IsStatement
<1>7. r.id = s.row /\ Fits(d, r)
  BY <1>1, <1>5 DEF ReplicaRow, Fits, IsKey
<1> HIDE DEF u
<1>8. ~Draws(d, u)
  BY <1>5, <1>6 DEF Draws
<1>9. ServerRow(d, u, sequence + 1) = r
  <2>1. Given(d, "id", u.row) = s.row
    BY <1>5, <1>6 DEF Given
  <2>2. Given(d, "a", u.a) = IF s.a = Omitted THEN DefaultExprForColumn(d, "a") ELSE s.a
    BY <1>1, <1>6 DEF Given
  <2>3. Given(d, "b", u.b) = IF s.b = Omitted THEN Null ELSE s.b
    BY <1>1, <1>6 DEF Given, DefaultExprForColumn
  <2>4. QED BY <1>5, <1>8, <2>1, <2>2, <2>3 DEF ServerRow, ReplicaRow
<1>10. ServerArbiters(d, u.target) = {key}
  <2>1. key.on = "id" /\ key.terms = {}
    BY IndexFields
  <2>2. QED BY <1>4, <1>6, <2>1 DEF ServerArbiters
<1>11. ~ServerRejects(d, u)
  BY <1>1, <1>6, <1>10 DEF ServerRejects, Unresolved, RejectExplicitIdentityValues
<1>12. ServerRun(d, u) = InsertRow("server", d, rows, r, {key}, upsert)
  BY <1>2, <1>6, <1>9, <1>10, <1>11 DEF ServerRun
<1>13. /\ upsert.action = "update" /\ "id" \notin DOMAIN upsert.set
       /\ upsert.set = SubstitutedAssignments(d, u.set)
  BY <1>1, <1>6 DEF IsStatement, SubstitutedAssignments
<1>14. \A x \in rows : Collides(key, r, x) <=> x.id = r.id
  <2>1. key.on = "id" /\ key.terms = {} /\ r.id # Null
    BY <1>5, <1>7, IndexFields
  <2>2. QED BY <2>1 DEF Collides, Selects
<1>15. hits = {x \in rows : x.id = r.id}
  BY <1>14 DEF Hits
<1>16. ReplaceRow(d, s) = Store("replica", d, rows, hits, r)
  BY <1>4 DEF ReplaceRow
<1>17. Store("replica", d, rows, hits, r) = Store("server", d, rows, hits, r)
  BY <1>7, StoreAgrees
<1>18. ASSUME NEW x, x.id = r.id PROVE Assigned(d, upsert.set, x, r) = r
  <2>1. \A c \in {"a", "b"} : upsert.set[c] = IF s[c] = Omitted THEN DefaultExprForColumn(d, c) ELSE Excluded
    BY <1>6, <1>13, Marks DEF SubstitutedAssignments
  <2>2. \A c : DefaultExprForColumn(d, c) # Excluded
    BY <1>1, DefaultFacts
  <2>3. DOMAIN upsert.set = {"a", "b"}
    BY <1>6, <1>13 DEF SubstitutedAssignments
  <2> HIDE DEF upsert
  <2>4. /\ r.a = IF s.a = Omitted THEN DefaultExprForColumn(d, "a") ELSE s.a
        /\ r.b = IF s.b = Omitted THEN DefaultExprForColumn(d, "b") ELSE s.b
    BY DEF ReplicaRow, DefaultExprForColumn
  <2>5. r = [c \in {"id", "a", "b"} |-> r[c]]
    BY DEF ReplicaRow
  <2> HIDE DEF r
  <2>6. \A c \in {"id", "a", "b"} : Assigned(d, upsert.set, x, r)[c] = r[c]
    BY <1>18, <2>1, <2>2, <2>3, <2>4 DEF Assigned
  <2>7. Assigned(d, upsert.set, x, r)
          = [c \in {"id", "a", "b"} |-> Assigned(d, upsert.set, x, r)[c]]
    BY DEF Assigned
  <2>8. QED BY <2>5, <2>6, <2>7
<1> HIDE DEF upsert, r, key, hits
<1>19. InsertRow("server", d, rows, r, {key}, upsert) = Store("server", d, rows, hits, r)
  <2>1. InsertMeans("server", d, rows, r, {key}, upsert)
    BY InsertCases
  <2>2. CASE Refuses("server", d, r)
    BY <2>1, <2>2 DEF InsertMeans, Store
  <2>3. CASE ~Refuses("server", d, r) /\ hits = {}
    BY <2>1, <2>3 DEF InsertMeans, hits
  <2>4. CASE ~Refuses("server", d, r) /\ hits # {}
    <3> DEFINE x == Chosen(hits)
    <3>1. x \in hits
      BY <2>4 DEF Chosen
    <3>2. hits = {x} /\ x.id = r.id
      BY <1>2, <1>15, <3>1 DEF Keyed
    <3>3. InsertRow("server", d, rows, r, {key}, upsert)
            = Store("server", d, rows, {x}, Assigned(d, upsert.set, x, r))
      BY <1>13, <2>1, <2>4 DEF InsertMeans, hits
    <3>4. QED BY <1>18, <3>2, <3>3
  <2>5. QED BY <2>2, <2>3, <2>4
<1>20. Keyed(Store("server", d, rows, hits, r).rows)
  BY <1>2, StoreKeeps
<1>21. ServerRun(d, u) = ReplaceRow(d, s) /\ Keyed(ServerRun(d, u).rows)
  BY <1>12, <1>16, <1>17, <1>19, <1>20
<1>22. r.id \in Nat \ {0}
  BY <1>5, <1>7
<1>23. QED BY <1>8, <1>21, <1>22 DEF u, r

LEMMA ReplaceKeepsTogether ==
    ASSUME Together, UNCHANGED decl, decl \in Declarations, ~TableRefused(decl),
           NEW s \in WriteStatements(decl), Replace(s)
    PROVE  Together'
<1> DEFINE u == BuildUpsertOnConflict(s)
           server == ServerRun(decl, u)
           replica == ReplaceRow(decl, s)
           drawn == Draws(decl, u)
           used == ReplicaRow(decl, s).id
<1>1. s.op = "replace" /\ ~RefusedReplace(decl, s) /\ Run(server, replica, drawn, used)
  BY DEF Replace
<1>2. server = replica /\ Keyed(server.rows) /\ ~drawn /\ used \in Nat \ {0}
  BY <1>1, ReplaceRuns
<1>3. IsDeclaration(decl)
  BY WritesAssumption
<1> HIDE DEF u, server, replica, drawn, used
<1>4. NewKeys(server, drawn, used)
  BY <1>2 DEF NewKeys
<1>5. QED BY <1>1, <1>2, <1>3, <1>4, RunKeeps

----------------------------------------------------------------------------
(* The theorems                                                            *)

LEMMA KeyedStarts == KeyedInit => KeyedInv
<1> SUFFICES ASSUME KeyedInit PROVE KeyedInv
  OBVIOUS
<1>1. decl \in Declarations /\ ~TableRefused(decl)
  BY DEF KeyedInit
<1>2. outcome.server = outcome.replica
  BY DEF KeyedInit, NoOutcome
<1>3. serverRows = rows /\ rows = {} /\ sequence = 0 /\ mark = 0 /\ loose = FALSE
  BY DEF KeyedInit
<1>4. QED BY <1>1, <1>2, <1>3 DEF KeyedInv, Together, Counted, Keyed

LEMMA KeyedKeeps == KeyedInv /\ [KeyedNext]_keyedVars => KeyedInv'
<1> SUFFICES ASSUME KeyedInv, [KeyedNext]_keyedVars PROVE KeyedInv'
  OBVIOUS
<1>1. CASE UNCHANGED keyedVars
  BY <1>1 DEF KeyedInv, keyedVars, Together, Counted
<1>2. CASE KeyedNext
  <2>1. PICK s \in WriteStatements(decl) : Insert(s) \/ Update(s) \/ Delete(s) \/ Replace(s)
    BY <1>2 DEF KeyedNext
  <2>2. UNCHANGED decl /\ Within
    BY <1>2 DEF KeyedNext
  <2>3. decl' \in Declarations /\ ~TableRefused(decl')
    BY <2>2 DEF KeyedInv
  <2>4. excused => excused'
    BY <2>1 DEF Insert, Update, Delete, Replace, Refusal, Run
  <2>5. ASSUME ~excused' PROVE Together'
    <3>1. decl \in Declarations /\ ~TableRefused(decl) /\ Together
      BY <2>4, <2>5 DEF KeyedInv
    <3>2. QED
      BY <2>1, <2>2, <2>5, <3>1, InsertKeepsTogether, UpdateKeepsTogether,
         DeleteKeepsTogether, ReplaceKeepsTogether
  <2>6. QED BY <2>3, <2>5 DEF KeyedInv
<1>3. QED BY <1>1, <1>2

\* While no key is drawn from counters that were moved apart, the two sides
\* are together and the counters count the keys.
THEOREM KeyedInvariant == KeyedSpec => []KeyedInv
BY KeyedStarts, KeyedKeeps, PTL DEF KeyedSpec

\* Every insert, upsert, update, delete and reversed REPLACE that runs has
\* the same outcome and leaves the same rows on the server and the replica
\* (insert.rs, shared_helpers.rs, column.rs), unless it draws a key after one of the
\* two events that report_rowid_sequence_divergence warns of.
THEOREM WritesHold == KeyedSpec => []WritesAgree
<1>1. KeyedInv => WritesAgree
  BY DEF KeyedInv, WritesAgree, Together
<1>2. QED BY <1>1, KeyedInvariant, PTL

============================================================================
