------------------------ MODULE EmittedNamespaceProofs ------------------------
(***************************************************************************)
(* The walk over the emitted script keeps the names SQLite keeps, for any  *)
(* schemas and identifiers and scripts of any length: what it lets through *)
(* runs, what it refuses would not, and no object of the source is lost.   *)
(***************************************************************************)
EXTENDS EmittedNamespace, TLAPS

Mapping(f) == f = [x \in DOMAIN f |-> f[x]]

\* What the server keeps: indexes and triggers hang off tables that are there,
\* tables and views off themselves.
RelationsOK(relations) ==
    /\ Mapping(relations)
    /\ DOMAIN relations \subseteq Names
    /\ \A n \in DOMAIN relations :
          LET r == relations[n] IN
          /\ r = [kind |-> r.kind, owner |-> r.owner]
          /\ r.kind \in {"table", "view", "index"}
          /\ r.kind # "index" => r.owner = n
          /\ r.kind = "index" => r.owner \in DOMAIN relations /\ relations[r.owner].kind = "table"

TriggersOK(relations, triggers) ==
    \A t \in triggers :
       /\ t = [text |-> t.text, owner |-> t.owner]
       /\ t.text \in Texts
       /\ t.owner \in DOMAIN relations /\ relations[t.owner].kind = "table"

\* How SQLite files a relation of the server.
Filed(r) == [kind |-> r.kind, owner |-> IF r.kind = "index" THEN Key(r.owner) ELSE NoOwner]

RelationsKept(relations, objects) ==
    /\ Mapping(objects)
    /\ \A n, m \in DOMAIN relations : Key(n) = Key(m) => n = m
    /\ DOMAIN objects = {Key(n) : n \in DOMAIN relations}
    /\ \A n \in DOMAIN relations : objects[Key(n)] = Filed(relations[n])

TriggersKept(triggers, fired) ==
    /\ Mapping(fired)
    /\ \A t, u \in triggers : Lower[t.text] = Lower[u.text] => t = u
    /\ DOMAIN fired = {Lower[t.text] : t \in triggers}
    /\ \A t \in triggers : fired[Lower[t.text]] = Key(t.owner)

\* A replica in which nothing has gone wrong, and the walk's maps of it.
Running(objects, fired) ==
    [objects |-> objects, triggers |-> fired, failed |-> FALSE, skipped |-> FALSE]

Owners(objects) == [k \in DOMAIN objects |-> objects[k].owner]

Walked(objects, fired) == [objects |-> Owners(objects), triggers |-> fired]

\* Server, replica and walk hold the same names.
InStep(s, w, r) ==
    /\ s = [relations |-> s.relations, triggers |-> s.triggers]
    /\ r = Running(r.objects, r.triggers)
    /\ RelationsOK(s.relations)
    /\ TriggersOK(s.relations, s.triggers)
    /\ RelationsKept(s.relations, r.objects)
    /\ TriggersKept(s.triggers, r.triggers)
    /\ w = Walked(r.objects, r.triggers)

\* The inductive invariant: the parties are in step until the walk refuses, and
\* it refuses only with the replica.
NamespaceInv ==
    /\ ~refused => InStep(server, walk, replica)
    /\ refused => replica.failed \/ replica.skipped

-----------------------------------------------------------------------------
(* The operators on maps.                                                  *)

LEMMA MappingsEqual ==
    ASSUME NEW f, NEW g, Mapping(f), Mapping(g), DOMAIN f = DOMAIN g,
           \A x \in DOMAIN f : f[x] = g[x]
    PROVE  f = g
  BY DEF Mapping

LEMMA KeyType == \A n \in Names : Key(n) \in Texts /\ Key(n) # NoOwner
  BY LowerAssumption DEF Names, Key

-----------------------------------------------------------------------------
(* What a change to the server and the same change to the replica keep.    *)

\* A relation whose key is free (define_object after its lookup).
LEMMA AddKeepsRelations ==
    ASSUME NEW R, NEW O, NEW n \in Names, NEW r,
           RelationsOK(R), RelationsKept(R, O), n \notin DOMAIN R, Key(n) \notin DOMAIN O,
           r = [kind |-> r.kind, owner |-> r.owner], r.kind \in {"table", "view", "index"},
           r.kind # "index" => r.owner = n,
           r.kind = "index" => r.owner \in DOMAIN R /\ R[r.owner].kind = "table"
    PROVE  /\ RelationsOK(Adding(R, n, r))
           /\ RelationsKept(Adding(R, n, r), Adding(O, Key(n), Filed(r)))
<1> DEFINE S == Adding(R, n, r)
           P == Adding(O, Key(n), Filed(r))
<1>1. /\ Mapping(S) /\ DOMAIN S = DOMAIN R \cup {n}
      /\ S[n] = r /\ \A x \in DOMAIN R : S[x] = R[x]
  BY DEF Adding, Mapping
<1>2. /\ Mapping(P) /\ DOMAIN P = DOMAIN O \cup {Key(n)}
      /\ P[Key(n)] = Filed(r) /\ \A x \in DOMAIN O : P[x] = O[x]
  BY DEF Adding, Mapping
<1> HIDE DEF S, P
<1>3. RelationsOK(S)
  BY <1>1 DEF RelationsOK
<1>4. \A m \in DOMAIN R : Key(m) \in DOMAIN O /\ Key(m) # Key(n)
  BY DEF RelationsKept
<1>5. \A m, k \in DOMAIN S : Key(m) = Key(k) => m = k
  BY <1>1, <1>4 DEF RelationsKept
<1>6. DOMAIN P = {Key(m) : m \in DOMAIN S}
  BY <1>1, <1>2 DEF RelationsKept
<1>7. \A m \in DOMAIN S : P[Key(m)] = Filed(S[m])
  BY <1>1, <1>2, <1>4 DEF RelationsKept
<1>8. RelationsKept(S, P)
  BY <1>2, <1>5, <1>6, <1>7 DEF RelationsKept
<1> QED
  BY <1>3, <1>8 DEF S, P

\* Adding a relation disturbs no trigger.
LEMMA AddKeepsTriggers ==
    ASSUME NEW R, NEW T, NEW n, NEW r, TriggersOK(R, T), n \notin DOMAIN R
    PROVE  TriggersOK(Adding(R, n, r), T)
  BY DEF TriggersOK, Adding

\* Relations that leave together, with all that hangs off them.
LEMMA DropKeepsRelations ==
    ASSUME NEW R, NEW O, NEW N, RelationsOK(R), RelationsKept(R, O), N \subseteq DOMAIN R,
           \A m \in DOMAIN R : R[m].owner \in N => m \in N
    PROVE  /\ RelationsOK(Dropping(R, N))
           /\ RelationsKept(Dropping(R, N), Dropping(O, {Key(m) : m \in N}))
<1> DEFINE K == {Key(m) : m \in N}
           S == Dropping(R, N)
           P == Dropping(O, K)
<1>1. Mapping(S) /\ DOMAIN S = DOMAIN R \ N /\ \A x \in DOMAIN S : S[x] = R[x]
  BY DEF Dropping, Restrict, Mapping
<1>2. Mapping(P) /\ DOMAIN P = DOMAIN O \ K /\ \A x \in DOMAIN P : P[x] = O[x]
  BY DEF Dropping, Restrict, Mapping
<1>3. \A m \in DOMAIN R : Key(m) \in K <=> m \in N
  BY DEF RelationsKept
<1> HIDE DEF S, P, K
<1>4. RelationsOK(S)
  BY <1>1 DEF RelationsOK
<1>5. DOMAIN P = {Key(m) : m \in DOMAIN S}
  BY <1>1, <1>2, <1>3 DEF RelationsKept
<1>6. \A m \in DOMAIN S : Key(m) \in DOMAIN P /\ P[Key(m)] = Filed(S[m])
  BY <1>1, <1>2, <1>5 DEF RelationsKept
<1>7. RelationsKept(S, P)
  BY <1>1, <1>2, <1>5, <1>6 DEF RelationsKept
<1> QED
  BY <1>4, <1>7 DEF S, P, K

\* Triggers that leave together.
LEMMA DropKeepsTriggers ==
    ASSUME NEW T, NEW G, NEW U, TriggersKept(T, G), U \subseteq T
    PROVE  TriggersKept(T \ U, Dropping(G, {Lower[t.text] : t \in U}))
<1> DEFINE K == {Lower[t.text] : t \in U}
           P == Dropping(G, K)
<1>1. Mapping(P) /\ DOMAIN P = DOMAIN G \ K /\ \A x \in DOMAIN P : P[x] = G[x]
  BY DEF Dropping, Restrict, Mapping
<1>2. \A t \in T : Lower[t.text] \in K <=> t \in U
  BY DEF TriggersKept
<1> HIDE DEF P, K
<1>3. DOMAIN P = {Lower[t.text] : t \in T \ U}
  BY <1>1, <1>2 DEF TriggersKept
<1>4. TriggersKept(T \ U, P)
  BY <1>1, <1>3 DEF TriggersKept
<1> QED
  BY <1>4 DEF P, K

\* ALTER TABLE ... RENAME TO a key that is free: the table and what hangs off
\* it move together (rename_object).
Followed(o, n, m) == IF o = n THEN m ELSE o

Origin(k, n, m) == IF k = m THEN n ELSE k

RelationsRenamed(R, n, m) ==
    [k \in (DOMAIN R \ {n}) \cup {m} |->
        [kind  |-> R[Origin(k, n, m)].kind,
         owner |-> Followed(R[Origin(k, n, m)].owner, n, m)]]

LEMMA RenameKeepsRelations ==
    ASSUME NEW R, NEW O, NEW n \in DOMAIN R, NEW m \in Names,
           RelationsOK(R), RelationsKept(R, O), R[n].kind = "table",
           m \notin DOMAIN R, Key(m) \notin DOMAIN O
    PROVE  /\ RelationsOK(RelationsRenamed(R, n, m))
           /\ RelationsKept(RelationsRenamed(R, n, m), RelationsRenamed(O, Key(n), Key(m)))
<1> DEFINE S == RelationsRenamed(R, n, m)
           P == RelationsRenamed(O, Key(n), Key(m))
<1>1. /\ Mapping(S) /\ DOMAIN S = (DOMAIN R \ {n}) \cup {m}
      /\ S[m] = [kind |-> "table", owner |-> m]
      /\ \A x \in DOMAIN R \ {n} : S[x] = [kind |-> R[x].kind, owner |-> Followed(R[x].owner, n, m)]
  BY DEF RelationsRenamed, Origin, Followed, Mapping, RelationsOK
<1>2. Key(n) \in DOMAIN O /\ O[Key(n)] = [kind |-> "table", owner |-> NoOwner] /\ Key(n) # Key(m)
  BY DEF RelationsKept, Filed
<1>3. Key(n) # NoOwner /\ Key(m) # NoOwner
  BY KeyType DEF RelationsOK
<1>4. /\ Mapping(P) /\ DOMAIN P = (DOMAIN O \ {Key(n)}) \cup {Key(m)}
      /\ P[Key(m)] = [kind |-> "table", owner |-> NoOwner]
      /\ \A x \in DOMAIN O \ {Key(n)} :
           P[x] = [kind |-> O[x].kind, owner |-> Followed(O[x].owner, Key(n), Key(m))]
  BY <1>2, <1>3 DEF RelationsRenamed, Origin, Followed, Mapping
<1> HIDE DEF S, P
<1>5. RelationsOK(S)
  <2>1. ASSUME NEW k \in DOMAIN S
        PROVE  /\ S[k] = [kind |-> S[k].kind, owner |-> S[k].owner]
               /\ S[k].kind \in {"table", "view", "index"}
               /\ S[k].kind # "index" => S[k].owner = k
               /\ S[k].kind = "index" => S[k].owner \in DOMAIN S /\ S[S[k].owner].kind = "table"
    <3>1. CASE k = m
      BY <1>1, <3>1
    <3>2. CASE k \in DOMAIN R \ {n}
      <4>1. S[k] = [kind |-> R[k].kind, owner |-> Followed(R[k].owner, n, m)]
        BY <1>1, <3>2
      <4>2. CASE R[k].kind # "index"
        BY <3>2, <4>1, <4>2 DEF RelationsOK, Followed
      <4>3. CASE R[k].kind = "index"
        <5>1. R[k].owner \in DOMAIN R /\ R[R[k].owner].kind = "table"
          BY <3>2, <4>3 DEF RelationsOK
        <5>2. Followed(R[k].owner, n, m) \in DOMAIN S /\ S[Followed(R[k].owner, n, m)].kind = "table"
          <6>1. CASE R[k].owner = n
            BY <1>1, <6>1 DEF Followed
          <6>2. CASE R[k].owner # n
            <7>1. S[R[k].owner] = [kind |-> R[R[k].owner].kind, owner |-> Followed(R[R[k].owner].owner, n, m)]
              BY <1>1, <5>1, <6>2
            <7> QED
              BY <1>1, <5>1, <6>2, <7>1 DEF Followed
          <6> QED
            BY <6>1, <6>2
        <5> QED
          BY <4>1, <4>3, <5>2
      <4> QED
        BY <4>2, <4>3
    <3> QED
      BY <1>1, <3>1, <3>2
  <2>2. DOMAIN S \subseteq Names
    BY <1>1 DEF RelationsOK
  <2> QED
    BY <1>1, <2>1, <2>2 DEF RelationsOK
<1>6. \A k \in DOMAIN R \ {n} : Key(k) \in DOMAIN O /\ Key(k) # Key(n) /\ Key(k) # Key(m)
  BY DEF RelationsKept
<1>7. \A k, l \in DOMAIN S : Key(k) = Key(l) => k = l
  BY <1>1, <1>6 DEF RelationsKept
<1>8. DOMAIN P = {Key(k) : k \in DOMAIN S}
  BY <1>1, <1>4, <1>6 DEF RelationsKept
<1>9. ASSUME NEW k \in DOMAIN S PROVE P[Key(k)] = Filed(S[k])
  <2>1. CASE k = m
    BY <1>1, <1>4, <2>1 DEF Filed
  <2>2. CASE k \in DOMAIN R \ {n}
    <3>1. P[Key(k)] = [kind |-> O[Key(k)].kind, owner |-> Followed(O[Key(k)].owner, Key(n), Key(m))]
      BY <1>4, <1>6, <2>2
    <3>2. O[Key(k)] = Filed(R[k])
      BY <2>2 DEF RelationsKept
    <3>0. S[k].kind = R[k].kind /\ S[k].owner = Followed(R[k].owner, n, m)
      <4>1. S[k] = [kind |-> R[k].kind, owner |-> Followed(R[k].owner, n, m)]
        BY <1>1, <2>2
      <4> QED
        BY <4>1
    <3>3. CASE R[k].kind = "index"
      <4>1. R[k].owner \in DOMAIN R /\ (Key(R[k].owner) = Key(n) <=> R[k].owner = n)
        BY <2>2, <3>3 DEF RelationsOK, RelationsKept
      <4>2. O[Key(k)].kind = "index" /\ O[Key(k)].owner = Key(R[k].owner)
        BY <3>2, <3>3 DEF Filed
      <4>3. Followed(Key(R[k].owner), Key(n), Key(m)) = Key(Followed(R[k].owner, n, m))
        BY <4>1 DEF Followed
      <4>4. Filed(S[k]) = [kind |-> "index", owner |-> Key(Followed(R[k].owner, n, m))]
        BY <3>0, <3>3 DEF Filed
      <4> QED
        BY <3>1, <4>2, <4>3, <4>4
    <3>4. CASE R[k].kind # "index"
      <4>1. O[Key(k)].kind = R[k].kind /\ O[Key(k)].owner = NoOwner
        BY <3>2, <3>4 DEF Filed
      <4>2. Filed(S[k]) = [kind |-> R[k].kind, owner |-> NoOwner]
        BY <3>0, <3>4 DEF Filed
      <4> QED
        BY <1>3, <3>1, <4>1, <4>2 DEF Followed
    <3> QED
      BY <3>3, <3>4
  <2> QED
    BY <1>1, <2>1, <2>2
<1>10. RelationsKept(S, P)
  BY <1>4, <1>7, <1>8, <1>9 DEF RelationsKept
<1> QED
  BY <1>5, <1>10 DEF S, P

TriggersRenamed(T, n, m) == {[t EXCEPT !.owner = Followed(@, n, m)] : t \in T}

FiredRenamed(G, n, m) == [k \in DOMAIN G |-> Followed(G[k], n, m)]

LEMMA RenameKeepsTriggers ==
    ASSUME NEW R, NEW O, NEW T, NEW G, NEW n \in DOMAIN R, NEW m \in Names,
           RelationsOK(R), RelationsKept(R, O), TriggersOK(R, T), TriggersKept(T, G),
           R[n].kind = "table", m \notin DOMAIN R
    PROVE  /\ TriggersOK(RelationsRenamed(R, n, m), TriggersRenamed(T, n, m))
           /\ TriggersKept(TriggersRenamed(T, n, m), FiredRenamed(G, Key(n), Key(m)))
<1> DEFINE U == TriggersRenamed(T, n, m)
           P == FiredRenamed(G, Key(n), Key(m))
           S == RelationsRenamed(R, n, m)
           Moved(t) == [text |-> t.text, owner |-> Followed(t.owner, n, m)]
<1>1. U = {Moved(t) : t \in T}
  <2>1. \A t \in T : [t EXCEPT !.owner = Followed(@, n, m)] = Moved(t)
    BY DEF TriggersOK
  <2>2. \A x : x \in U <=> \E t \in T : x = Moved(t)
    BY <2>1 DEF TriggersRenamed
  <2> QED
    BY <2>2
<1>2. Mapping(P) /\ DOMAIN P = DOMAIN G /\ \A k \in DOMAIN G : P[k] = Followed(G[k], Key(n), Key(m))
  BY DEF FiredRenamed, Mapping
<1>3. \A k \in DOMAIN R : Followed(k, n, m) \in DOMAIN S /\ S[Followed(k, n, m)].kind = R[k].kind
  <2>1. /\ DOMAIN S = (DOMAIN R \ {n}) \cup {m}
        /\ \A k \in DOMAIN S : S[k].kind = R[Origin(k, n, m)].kind
    BY DEF RelationsRenamed
  <2> QED
    BY <2>1 DEF Followed, Origin
<1>4. \A t \in T : Key(Followed(t.owner, n, m)) = Followed(Key(t.owner), Key(n), Key(m))
  BY DEF TriggersOK, RelationsKept, Followed
<1> HIDE DEF U, P, S
<1>5. TriggersOK(S, U)
  BY <1>1, <1>3 DEF TriggersOK
<1>6. \A t, u \in U : Lower[t.text] = Lower[u.text] => t = u
  BY <1>1 DEF TriggersKept
<1>7. DOMAIN P = {Lower[t.text] : t \in U}
  <2>1. \A x : x \in DOMAIN P <=> \E t \in T : x = Lower[t.text]
    BY <1>2 DEF TriggersKept
  <2>2. \A t \in T : Moved(t) \in U /\ Moved(t).text = t.text
    BY <1>1
  <2>3. \A u \in U : \E t \in T : u = Moved(t) /\ u.text = t.text
    BY <1>1
  <2>4. \A x : (\E t \in T : x = Lower[t.text]) <=> (\E u \in U : x = Lower[u.text])
    BY <2>2, <2>3
  <2> QED
    BY <2>1, <2>4
<1>8. \A t \in U : P[Lower[t.text]] = Key(t.owner)
  BY <1>1, <1>2, <1>4 DEF TriggersKept
<1>9. TriggersKept(U, P)
  BY <1>2, <1>6, <1>7, <1>8 DEF TriggersKept
<1> QED
  BY <1>5, <1>9 DEF S, U, P

-----------------------------------------------------------------------------
(* The walk follows the replica.                                           *)

LEMMA RunningExcept ==
    ASSUME NEW O, NEW G, NEW P, NEW H
    PROVE  /\ [Running(O, G) EXCEPT !.triggers = H] = Running(O, H)
           /\ [Running(O, G) EXCEPT !.objects = P] = Running(P, G)
<1> DEFINE no == FALSE
           record(o, g) == [objects |-> o, triggers |-> g, failed |-> no, skipped |-> no]
<1>1. \A o, g : Running(o, g) = record(o, g)
  BY DEF Running
<1> HIDE DEF no
<1>2. /\ [record(O, G) EXCEPT !.triggers = H] = record(O, H)
      /\ [record(O, G) EXCEPT !.objects = P] = record(P, G)
  OBVIOUS
<1> QED
  BY <1>1, <1>2

LEMMA WalkDefines ==
    ASSUME NEW O, NEW G, NEW k, NEW kind, NEW owner, NEW guarded, k \notin DOMAIN O
    PROVE  LET P == Adding(O, k, [kind |-> kind, owner |-> owner]) IN
           /\ ~DefineObject(Walked(O, G), k, owner).refused
           /\ DefineObject(Walked(O, G), k, owner).walk = Walked(P, G)
           /\ ReplicaDefine(Running(O, G), k, kind, owner, guarded) = Running(P, G)
<1> DEFINE entry == [kind |-> kind, owner |-> owner]
           P == Adding(O, k, entry)
<1>1. ReplicaDefine(Running(O, G), k, kind, owner, guarded) = Running(P, G)
  <2> HIDE DEF entry
  <2>1. ReplicaDefine(Running(O, G), k, kind, owner, guarded)
        = [Running(O, G) EXCEPT !.objects = Adding(O, k, entry)]
    BY DEF ReplicaDefine, Running, entry
  <2> QED
    BY <2>1 DEF Running
<1>2. Adding(Owners(O), k, owner) = Owners(P)
  <2>1. DOMAIN P = DOMAIN O \cup {k} /\ P[k] = entry /\ \A x \in DOMAIN O : P[x] = O[x]
    BY DEF Adding
  <2> HIDE DEF P
  <2> QED
    BY <2>1 DEF Adding, Owners
<1>3. /\ ~DefineObject(Walked(O, G), k, owner).refused
      /\ DefineObject(Walked(O, G), k, owner).walk = Walked(P, G)
  <2> DEFINE w == Walked(O, G)
  <2>1. w.objects = Owners(O) /\ k \notin DOMAIN w.objects
    BY DEF Walked, Owners
  <2>2. [w EXCEPT !.objects = Adding(@, k, owner)] = Walked(P, G)
    <3> HIDE DEF P
    <3>1. [w EXCEPT !.objects = Adding(@, k, owner)] = [w EXCEPT !.objects = Owners(P)]
      BY <1>2, <2>1
    <3> QED
      BY <3>1 DEF Walked
  <2> HIDE DEF P, w
  <2>3. ~DefineObject(w, k, owner).refused
    <3>1. (k \in DOMAIN w.objects) = FALSE
      BY <2>1
    <3> QED
      BY <3>1 DEF DefineObject
  <2>4. DefineObject(w, k, owner).walk = Walked(P, G)
    BY <2>2 DEF DefineObject
  <2> QED
    BY <2>3, <2>4 DEF w
<1> QED
  BY <1>1, <1>3

LEMMA WalkDefinesTrigger ==
    ASSUME NEW O, NEW G, NEW k, NEW owner, k \notin DOMAIN G
    PROVE  /\ ~DefineTrigger(Walked(O, G), k, owner).refused
           /\ DefineTrigger(Walked(O, G), k, owner).walk = Walked(O, Adding(G, k, owner))
           /\ ReplicaTrigger(Running(O, G), k, owner) = Running(O, Adding(G, k, owner))
<1> DEFINE w == Walked(O, G)
           r == Running(O, G)
<1>1. w.triggers = G /\ r.triggers = G
  BY DEF Walked, Running
<1>2. [w EXCEPT !.triggers = Adding(@, k, owner)] = Walked(O, Adding(G, k, owner))
  BY DEF Walked
<1>3. [r EXCEPT !.triggers = Adding(@, k, owner)] = Running(O, Adding(G, k, owner))
  <2> DEFINE H == Adding(G, k, owner)
  <2>1. [r EXCEPT !.triggers = Adding(@, k, owner)] = [r EXCEPT !.triggers = H]
    BY <1>1
  <2> HIDE DEF H
  <2>2. [r EXCEPT !.triggers = H] = Running(O, H)
    BY RunningExcept
  <2> QED
    BY <2>1, <2>2 DEF H
<1> HIDE DEF w, r
<1>4. ~DefineTrigger(w, k, owner).refused
  <2>1. (k \in DOMAIN w.triggers) = FALSE
    BY <1>1
  <2> QED
    BY <2>1 DEF DefineTrigger
<1>5. DefineTrigger(w, k, owner).walk = Walked(O, Adding(G, k, owner))
  BY <1>2 DEF DefineTrigger
<1>6. ReplicaTrigger(r, k, owner) = Running(O, Adding(G, k, owner))
  BY <1>1, <1>3 DEF ReplicaTrigger
<1> QED
  BY <1>4, <1>5, <1>6 DEF w, r

\* A key that is taken: the walk refuses what SQLite rejects or passes over.
LEMMA WalkRefuses ==
    ASSUME NEW O, NEW G, NEW k, NEW owner
    PROVE  /\ k \in DOMAIN O =>
                /\ DefineObject(Walked(O, G), k, owner).refused
                /\ \A kind, guarded : LET r == ReplicaDefine(Running(O, G), k, kind, owner, guarded)
                                      IN  r.failed \/ r.skipped
           /\ k \in DOMAIN G =>
                /\ DefineTrigger(Walked(O, G), k, owner).refused
                /\ ReplicaTrigger(Running(O, G), k, owner).failed
<1>1. DOMAIN Owners(O) = DOMAIN O
  BY DEF Owners
<1>2. ASSUME k \in DOMAIN O
      PROVE  DefineObject(Walked(O, G), k, owner).refused
  BY <1>1, <1>2 DEF DefineObject, Walked
<1>3. ASSUME k \in DOMAIN O, NEW kind, NEW guarded
      PROVE  LET r == ReplicaDefine(Running(O, G), k, kind, owner, guarded)
             IN  r.failed \/ r.skipped
  BY <1>3 DEF ReplicaDefine, Running
<1>4. ASSUME k \in DOMAIN G
      PROVE  /\ DefineTrigger(Walked(O, G), k, owner).refused
             /\ ReplicaTrigger(Running(O, G), k, owner).failed
  BY <1>4 DEF DefineTrigger, ReplicaTrigger, Walked, Running
<1> QED
  BY <1>2, <1>3, <1>4

Hanging(O, k) == {x \in DOMAIN O : O[x].owner = k}

FiredBy(G, k) == {x \in DOMAIN G : G[x] = k}

LEMMA WalkDrops ==
    ASSUME NEW O, NEW G, NEW k, NEW kind, NEW guarded
    PROVE  LET P == Dropping(O, {k} \cup Hanging(O, k))
               H == Dropping(G, FiredBy(G, k))
           IN  /\ ~DropObject(Walked(O, G), k).refused
               /\ DropObject(Walked(O, G), k).walk = Walked(P, H)
               /\ k \in DOMAIN O /\ O[k].kind = kind =>
                     ReplicaDrop(Running(O, G), k, kind, guarded) = Running(P, H)
<1> DEFINE K == {k} \cup Hanging(O, k)
           P == Dropping(O, K)
           H == Dropping(G, FiredBy(G, k))
<1>1. Dropping(Owners(O), {k} \cup {x \in DOMAIN Owners(O) : Owners(O)[x] = k}) = Owners(P)
  <2>1. {x \in DOMAIN Owners(O) : Owners(O)[x] = k} = Hanging(O, k)
    BY DEF Owners, Hanging
  <2> HIDE DEF K
  <2>2. Dropping(Owners(O), K) = Owners(P)
    BY DEF Dropping, Restrict, Owners
  <2> QED
    BY <2>1, <2>2 DEF K
<1>2. /\ ~DropObject(Walked(O, G), k).refused
      /\ DropObject(Walked(O, G), k).walk = Walked(P, H)
  <2> HIDE DEF P
  <2> QED
    BY <1>1 DEF DropObject, Walked, FiredBy
<1>3. ASSUME k \in DOMAIN O, O[k].kind = kind
      PROVE  ReplicaDrop(Running(O, G), k, kind, guarded) = Running(P, H)
  <2> DEFINE r == Running(O, G)
  <2>1. r.objects = O /\ r.triggers = G
    BY DEF Running
  <2>2. ReplicaDrop(r, k, kind, guarded) = [r EXCEPT !.objects = P, !.triggers = H]
    BY <1>3, <2>1 DEF ReplicaDrop, Hanging, FiredBy, Running
  <2> HIDE DEF P, H
  <2> QED
    BY <2>2 DEF Running
<1> QED
  BY <1>2, <1>3

LEMMA WalkRenames ==
    ASSUME NEW O, NEW G, NEW k \in DOMAIN O, NEW l, l \notin DOMAIN O, k # NoOwner,
           O[k].owner = NoOwner
    PROVE  LET P == RelationsRenamed(O, k, l)
               H == FiredRenamed(G, k, l)
           IN  /\ ~RenameObject(Walked(O, G), k, l).refused
               /\ RenameObject(Walked(O, G), k, l).walk = Walked(P, H)
               /\ ReplicaRename(Running(O, G), k, l) = Running(P, H)
<1> DEFINE P == RelationsRenamed(O, k, l)
           H == FiredRenamed(G, k, l)
           r == Running(O, G)
           moved == Adding(Dropping(Owners(O), {k}), l, Owners(O)[k])
           reowned == [x \in DOMAIN moved |-> IF moved[x] = k THEN l ELSE moved[x]]
<1>1. ReplicaRename(r, k, l) = Running(P, H)
  <2>1. r.objects = O /\ r.triggers = G
    BY DEF Running
  <2>2. ReplicaRename(r, k, l) = [r EXCEPT !.objects = P, !.triggers = H]
    BY <2>1 DEF ReplicaRename, RelationsRenamed, FiredRenamed, Followed, Origin, Running
  <2> HIDE DEF P, H
  <2> QED
    BY <2>2 DEF Running
<1>2. DOMAIN Owners(O) = DOMAIN O /\ \A x \in DOMAIN O : Owners(O)[x] = O[x].owner
  BY DEF Owners
<1>3. reowned = Owners(P)
  <2>1. /\ DOMAIN moved = (DOMAIN O \ {k}) \cup {l}
        /\ moved[l] = NoOwner
        /\ \A x \in DOMAIN O \ {k} : moved[x] = O[x].owner
    BY <1>2 DEF Adding, Dropping, Restrict
  <2>2. /\ DOMAIN P = (DOMAIN O \ {k}) \cup {l}
        /\ P[l].owner = NoOwner
        /\ \A x \in DOMAIN O \ {k} : P[x].owner = IF O[x].owner = k THEN l ELSE O[x].owner
    BY DEF RelationsRenamed, Followed, Origin
  <2> HIDE DEF P, moved
  <2> QED
    BY <2>1, <2>2 DEF Owners
<1>4. /\ ~RenameObject(Walked(O, G), k, l).refused
      /\ RenameObject(Walked(O, G), k, l).walk = Walked(P, H)
  <2>1. H = [x \in DOMAIN G |-> IF G[x] = k THEN l ELSE G[x]]
    BY DEF FiredRenamed, Followed
  <2> DEFINE w == Walked(O, G)
  <2>2. w.objects = Owners(O) /\ w.triggers = G
    BY DEF Walked
  <2> HIDE DEF P, H, w
  <2>3. ~RenameObject(w, k, l).refused
    <3>1. (l \in DOMAIN w.objects) = FALSE
      BY <1>2, <2>2
    <3> QED
      BY <3>1 DEF RenameObject
  <2>4. RenameObject(w, k, l).walk = [objects |-> reowned, triggers |-> H]
    BY <1>2, <2>1, <2>2 DEF RenameObject
  <2> QED
    BY <1>3, <2>3, <2>4 DEF Walked, w
<1> QED
  BY <1>1, <1>4

LEMMA WalkRefusesRename ==
    ASSUME NEW O, NEW G, NEW k, NEW l \in DOMAIN O
    PROVE  /\ RenameObject(Walked(O, G), k, l).refused
           /\ ReplicaRename(Running(O, G), k, l).failed
<1>1. DOMAIN Owners(O) = DOMAIN O
  BY DEF Owners
<1> QED
  BY <1>1 DEF RenameObject, ReplicaRename, Walked, Running

-----------------------------------------------------------------------------
(* One lemma per statement.                                                *)

LEMMA StatementTaken ==
    ASSUME NEW R, NEW T, NEW P, NEW H, NEW w, NEW r, Emitted(w, r),
           server' = [relations |-> R, triggers |-> T],
           ~w.refused, w.walk = Walked(P, H), r = Running(P, H),
           RelationsOK(R), TriggersOK(R, T), RelationsKept(R, P), TriggersKept(T, H)
    PROVE  NamespaceInv'
<1>1. ~refused' /\ walk' = Walked(P, H) /\ replica' = Running(P, H)
  BY DEF Emitted
<1>2. replica'.objects = P /\ replica'.triggers = H
  BY <1>1 DEF Running
<1>3. server'.relations = R /\ server'.triggers = T
  OBVIOUS
<1>4. InStep(server, walk, replica)'
  BY <1>1, <1>2, <1>3 DEF InStep
<1> QED
  BY <1>1, <1>4 DEF NamespaceInv

LEMMA StatementRefused ==
    ASSUME NEW w, NEW r, Emitted(w, r), w.refused, r.failed \/ r.skipped
    PROVE  NamespaceInv'
  BY DEF Emitted, NamespaceInv

LEMMA RelationStep ==
    ASSUME NEW n \in Names, NEW kind \in {"table", "view"}, NEW guarded \in BOOLEAN,
           InStep(server, walk, replica), CreateRelation(n, kind, guarded)
    PROVE  NamespaceInv'
<1> DEFINE R == server.relations
           T == server.triggers
           O == replica.objects
           G == replica.triggers
           entry == [kind |-> kind, owner |-> n]
<1>1. /\ n \notin DOMAIN R
      /\ Emitted(DefineObject(Walked(O, G), Key(n), NoOwner),
                 ReplicaDefine(Running(O, G), Key(n), kind, NoOwner, guarded))
  BY DEF CreateRelation, InStep, Relations
<1>2. server' = [relations |-> Adding(R, n, entry), triggers |-> T]
  BY DEF CreateRelation, InStep, AddRelation
<1>3. RelationsOK(R) /\ TriggersOK(R, T) /\ RelationsKept(R, O) /\ TriggersKept(T, G)
  BY DEF InStep
<1> HIDE DEF R, T, O, G
<1>4. CASE Key(n) \in DOMAIN O
  BY <1>1, <1>4, WalkRefuses, StatementRefused
<1>5. CASE Key(n) \notin DOMAIN O
  <2>1. Filed(entry) = [kind |-> kind, owner |-> NoOwner]
    BY DEF Filed
  <2>2. /\ RelationsOK(Adding(R, n, entry))
        /\ RelationsKept(Adding(R, n, entry), Adding(O, Key(n), [kind |-> kind, owner |-> NoOwner]))
    BY <1>1, <1>3, <1>5, <2>1, AddKeepsRelations
  <2>3. TriggersOK(Adding(R, n, entry), T)
    BY <1>1, <1>3, AddKeepsTriggers
  <2> DEFINE S == Adding(R, n, entry)
             P == Adding(O, Key(n), [kind |-> kind, owner |-> NoOwner])
             w == DefineObject(Walked(O, G), Key(n), NoOwner)
             r == ReplicaDefine(Running(O, G), Key(n), kind, NoOwner, guarded)
  <2>4. ~w.refused /\ w.walk = Walked(P, G) /\ r = Running(P, G)
    BY <1>5, WalkDefines
  <2>5. Emitted(w, r) /\ server' = [relations |-> S, triggers |-> T]
    BY <1>1, <1>2
  <2> HIDE DEF S, P, w, r
  <2> QED
    BY <1>3, <2>2, <2>3, <2>4, <2>5, StatementTaken DEF S, P
<1> QED
  BY <1>4, <1>5

LEMMA IndexStep ==
    ASSUME NEW n \in Names, NEW t \in Names,
           InStep(server, walk, replica), CreateIndex(n, t)
    PROVE  NamespaceInv'
<1> DEFINE R == server.relations
           T == server.triggers
           O == replica.objects
           G == replica.triggers
           entry == [kind |-> "index", owner |-> t]
           guarded == FALSE
<1>1. /\ n \notin DOMAIN R /\ t \in DOMAIN R /\ R[t].kind = "table"
      /\ Emitted(DefineObject(Walked(O, G), Key(n), Key(t)),
                 ReplicaDefine(Running(O, G), Key(n), "index", Key(t), guarded))
  BY DEF CreateIndex, InStep, Relations, Tables
<1>2. server' = [relations |-> Adding(R, n, entry), triggers |-> T]
  BY DEF CreateIndex, InStep, AddRelation
<1>3. RelationsOK(R) /\ TriggersOK(R, T) /\ RelationsKept(R, O) /\ TriggersKept(T, G)
  BY DEF InStep
<1> HIDE DEF R, T, O, G, guarded
<1>4. CASE Key(n) \in DOMAIN O
  BY <1>1, <1>4, WalkRefuses, StatementRefused
<1>5. CASE Key(n) \notin DOMAIN O
  <2>1. Filed(entry) = [kind |-> "index", owner |-> Key(t)]
    BY DEF Filed
  <2>2. /\ RelationsOK(Adding(R, n, entry))
        /\ RelationsKept(Adding(R, n, entry), Adding(O, Key(n), [kind |-> "index", owner |-> Key(t)]))
    BY <1>1, <1>3, <1>5, <2>1, AddKeepsRelations
  <2>3. TriggersOK(Adding(R, n, entry), T)
    BY <1>1, <1>3, AddKeepsTriggers
  <2> DEFINE S == Adding(R, n, entry)
             P == Adding(O, Key(n), [kind |-> "index", owner |-> Key(t)])
             w == DefineObject(Walked(O, G), Key(n), Key(t))
             r == ReplicaDefine(Running(O, G), Key(n), "index", Key(t), guarded)
  <2>4. ~w.refused /\ w.walk = Walked(P, G) /\ r = Running(P, G)
    BY <1>5, WalkDefines
  <2>5. Emitted(w, r) /\ server' = [relations |-> S, triggers |-> T]
    BY <1>1, <1>2
  <2> HIDE DEF S, P, w, r
  <2> QED
    BY <1>3, <2>2, <2>3, <2>4, <2>5, StatementTaken DEF S, P
<1> QED
  BY <1>4, <1>5

LEMMA TriggerStep ==
    ASSUME NEW x \in Texts, NEW t \in Names,
           InStep(server, walk, replica), CreateTrigger(x, t)
    PROVE  NamespaceInv'
<1> DEFINE R == server.relations
           T == server.triggers
           O == replica.objects
           G == replica.triggers
           trigger == [text |-> x, owner |-> t]
           U == T \cup {trigger}
           H == Adding(G, Lower[x], Key(t))
<1>1. /\ t \in DOMAIN R /\ R[t].kind = "table"
      /\ Emitted(DefineTrigger(Walked(O, G), Lower[x], Key(t)),
                 ReplicaTrigger(Running(O, G), Lower[x], Key(t)))
  BY DEF CreateTrigger, InStep, Relations, Tables
<1>2. server' = [relations |-> R, triggers |-> U]
  BY DEF CreateTrigger, InStep
<1>3. RelationsOK(R) /\ TriggersOK(R, T) /\ RelationsKept(R, O) /\ TriggersKept(T, G)
  BY DEF InStep
<1> HIDE DEF R, T, O, G
<1>4. CASE Lower[x] \in DOMAIN G
  BY <1>1, <1>4, WalkRefuses, StatementRefused
<1>5. CASE Lower[x] \notin DOMAIN G
  <2>1. TriggersOK(R, U)
    BY <1>1, <1>3 DEF TriggersOK
  <2>2. TriggersKept(U, H)
    <3>1. /\ Mapping(H) /\ DOMAIN H = DOMAIN G \cup {Lower[x]} /\ H[Lower[x]] = Key(t)
          /\ \A k \in DOMAIN G : H[k] = G[k]
      BY <1>5 DEF Adding, Mapping
    <3>2. \A u \in T : Lower[u.text] \in DOMAIN G /\ Lower[u.text] # Lower[x]
      BY <1>3, <1>5 DEF TriggersKept
    <3> HIDE DEF H
    <3>3. \A u, v \in U : Lower[u.text] = Lower[v.text] => u = v
      BY <1>3, <3>2 DEF TriggersKept
    <3>4. DOMAIN H = {Lower[u.text] : u \in U}
      <4>1. \A k : k \in DOMAIN H <=> (\E u \in T : k = Lower[u.text]) \/ k = Lower[trigger.text]
        BY <1>3, <3>1 DEF TriggersKept
      <4>2. \A k : k \in DOMAIN H <=> \E u \in U : k = Lower[u.text]
        BY <4>1
      <4> QED
        BY <4>2
    <3>5. \A u \in U : H[Lower[u.text]] = Key(u.owner)
      BY <1>3, <3>1, <3>2 DEF TriggersKept
    <3> QED
      BY <3>1, <3>3, <3>4, <3>5 DEF TriggersKept
  <2> DEFINE w == DefineTrigger(Walked(O, G), Lower[x], Key(t))
             r == ReplicaTrigger(Running(O, G), Lower[x], Key(t))
  <2>3. ~w.refused /\ w.walk = Walked(O, H) /\ r = Running(O, H)
    BY <1>5, WalkDefinesTrigger
  <2>4. Emitted(w, r)
    BY <1>1
  <2> HIDE DEF U, H, w, r
  <2> QED
    BY <1>2, <1>3, <2>1, <2>2, <2>3, <2>4, StatementTaken
<1> QED
  BY <1>4, <1>5

LEMMA FiledAs ==
    ASSUME NEW R, NEW O, NEW n \in DOMAIN R, RelationsKept(R, O)
    PROVE  /\ Key(n) \in DOMAIN O
           /\ O[Key(n)].kind = R[n].kind
           /\ O[Key(n)].owner = IF R[n].kind = "index" THEN Key(R[n].owner) ELSE NoOwner
<1>1. Key(n) \in DOMAIN O /\ O[Key(n)] = Filed(R[n])
  BY DEF RelationsKept
<1>2. \A r : Filed(r).kind = r.kind /\ Filed(r).owner = IF r.kind = "index" THEN Key(r.owner) ELSE NoOwner
  BY DEF Filed
<1> QED
  BY <1>1, <1>2

\* The keys that hang off a relation's key are those of what hangs off it.
LEMMA HangingKeys ==
    ASSUME NEW R, NEW T, NEW O, NEW G, NEW n \in DOMAIN R,
           RelationsOK(R), TriggersOK(R, T), RelationsKept(R, O), TriggersKept(T, G)
    PROVE  LET N == {n} \cup {m \in DOMAIN R : R[m].owner = n}
               U == {t \in T : t.owner = n}
           IN  /\ {Key(n)} \cup Hanging(O, Key(n)) = {Key(m) : m \in N}
               /\ FiredBy(G, Key(n)) = {Lower[t.text] : t \in U}
               /\ \A m \in DOMAIN R : R[m].owner \in N => m \in N
<1> DEFINE N == {n} \cup {m \in DOMAIN R : R[m].owner = n}
           U == {t \in T : t.owner = n}
<1>1. Key(n) # NoOwner
  BY KeyType DEF RelationsOK
<1>2. ASSUME NEW m \in DOMAIN R PROVE O[Key(m)].owner = Key(n) => R[m].owner = n
  <2>1. O[Key(m)].owner = IF R[m].kind = "index" THEN Key(R[m].owner) ELSE NoOwner
    BY FiledAs
  <2> QED
    BY <1>1, <2>1 DEF RelationsOK, RelationsKept
<1>3. ASSUME NEW m \in DOMAIN R, R[m].owner = n PROVE m = n \/ O[Key(m)].owner = Key(n)
  <2>1. O[Key(m)].owner = IF R[m].kind = "index" THEN Key(R[m].owner) ELSE NoOwner
    BY FiledAs
  <2> QED
    BY <1>3, <2>1 DEF RelationsOK
<1>4. {Key(n)} \cup Hanging(O, Key(n)) = {Key(m) : m \in N}
  <2>1. \A k \in DOMAIN O : \E m \in DOMAIN R : k = Key(m)
    BY DEF RelationsKept
  <2>2. \A m \in DOMAIN R : Key(m) \in DOMAIN O
    BY DEF RelationsKept
  <2>3. \A k : k \in {Key(n)} \cup Hanging(O, Key(n)) <=> \E m \in N : k = Key(m)
    BY <1>2, <1>3, <2>1, <2>2 DEF Hanging
  <2> QED
    BY <2>3
<1>5. \A t \in T : G[Lower[t.text]] = Key(n) <=> t.owner = n
  BY DEF TriggersOK, TriggersKept, RelationsKept
<1>6. FiredBy(G, Key(n)) = {Lower[t.text] : t \in U}
  <2>1. \A k \in DOMAIN G : \E t \in T : k = Lower[t.text]
    BY DEF TriggersKept
  <2>2. \A t \in T : Lower[t.text] \in DOMAIN G
    BY DEF TriggersKept
  <2>3. \A k : k \in FiredBy(G, Key(n)) <=> \E t \in U : k = Lower[t.text]
    BY <1>5, <2>1, <2>2 DEF FiredBy
  <2> QED
    BY <2>3
<1>7. \A m \in DOMAIN R : R[m].owner \in N => m \in N
  BY DEF RelationsOK
<1> QED
  BY <1>4, <1>6, <1>7

LEMMA DropStep ==
    ASSUME NEW n \in Names, InStep(server, walk, replica), DropRelation(n)
    PROVE  NamespaceInv'
<1> DEFINE R == server.relations
           T == server.triggers
           O == replica.objects
           G == replica.triggers
           N == {n} \cup {m \in DOMAIN R : R[m].owner = n}
           U == {t \in T : t.owner = n}
           S == Dropping(R, N)
           P == Dropping(O, {Key(n)} \cup Hanging(O, Key(n)))
           H == Dropping(G, FiredBy(G, Key(n)))
           guarded == FALSE
           w == DropObject(Walked(O, G), Key(n))
           r == ReplicaDrop(Running(O, G), Key(n), R[n].kind, guarded)
<1>1. n \in DOMAIN R /\ Emitted(w, r)
  BY DEF DropRelation, InStep, Relations
<1>2. server' = [relations |-> S, triggers |-> {t \in T : t.owner # n}]
  BY DEF DropRelation, InStep, Relations
<1>3. RelationsOK(R) /\ TriggersOK(R, T) /\ RelationsKept(R, O) /\ TriggersKept(T, G)
  BY DEF InStep
<1> HIDE DEF R, T, O, G, guarded
<1>4. Key(n) \in DOMAIN O /\ O[Key(n)].kind = R[n].kind
  BY <1>1, <1>3, FiledAs
<1>5. ~w.refused /\ w.walk = Walked(P, H) /\ r = Running(P, H)
  <2> DEFINE kind == R[n].kind
  <2>1. O[Key(n)].kind = kind
    BY <1>4
  <2> HIDE DEF kind
  <2>2. ReplicaDrop(Running(O, G), Key(n), kind, guarded) = Running(P, H)
    BY <1>4, <2>1, WalkDrops
  <2>3. ~w.refused /\ w.walk = Walked(P, H)
    BY WalkDrops
  <2> QED
    BY <2>2, <2>3 DEF kind
<1>6. /\ {Key(n)} \cup Hanging(O, Key(n)) = {Key(m) : m \in N}
      /\ FiredBy(G, Key(n)) = {Lower[t.text] : t \in U}
      /\ \A m \in DOMAIN R : R[m].owner \in N => m \in N
  BY <1>1, <1>3, HangingKeys
<1>7. RelationsOK(S) /\ RelationsKept(S, P)
  <2>1. N \subseteq DOMAIN R
    BY <1>1
  <2> HIDE DEF N
  <2> QED
    BY <1>3, <1>6, <2>1, DropKeepsRelations
<1>8. TriggersKept(T \ U, H)
  <2>1. U \subseteq T
    OBVIOUS
  <2> HIDE DEF U
  <2> QED
    BY <1>3, <1>6, <2>1, DropKeepsTriggers
<1>9. T \ U = {t \in T : t.owner # n}
  OBVIOUS
<1>10. TriggersOK(S, T \ U)
  <2>1. ASSUME NEW t \in T \ U PROVE t.owner \in DOMAIN R \ N /\ R[t.owner].kind = "table"
    BY <1>3 DEF TriggersOK, RelationsOK
  <2>2. DOMAIN S = DOMAIN R \ N /\ \A m \in DOMAIN R \ N : S[m] = R[m]
    BY DEF Dropping, Restrict
  <2> HIDE DEF S, N, U
  <2> QED
    BY <1>3, <2>1, <2>2 DEF TriggersOK
<1> HIDE DEF S, P, H, w, r, N, U
<1> QED
  BY <1>1, <1>2, <1>5, <1>7, <1>8, <1>9, <1>10, StatementTaken

LEMMA DropTriggerStep ==
    ASSUME NEW x \in Texts, NEW t \in Names,
           InStep(server, walk, replica), DropTrigger(x, t)
    PROVE  NamespaceInv'
<1> DEFINE R == server.relations
           T == server.triggers
           O == replica.objects
           G == replica.triggers
           trigger == [text |-> x, owner |-> t]
           H == Dropping(G, {Lower[x]})
           w == ForgetTrigger(Walked(O, G), Lower[x])
           r == [Running(O, G) EXCEPT !.triggers = Dropping(@, {Lower[x]})]
<1>1. trigger \in T /\ Emitted(w, r)
  BY DEF DropTrigger, InStep
<1>2. server' = [relations |-> R, triggers |-> T \ {trigger}]
  BY DEF DropTrigger, InStep
<1>3. RelationsOK(R) /\ TriggersOK(R, T) /\ RelationsKept(R, O) /\ TriggersKept(T, G)
  BY DEF InStep
<1> HIDE DEF R, T, O, G
<1>4. r = Running(O, H)
  <2>1. r = [Running(O, G) EXCEPT !.triggers = H]
    BY DEF Running
  <2> HIDE DEF H
  <2> QED
    BY <2>1, RunningExcept
<1>5. ~w.refused /\ w.walk = Walked(O, H)
  BY DEF ForgetTrigger, Walked
<1>6. TriggersKept(T \ {trigger}, H)
  <2>1. {Lower[u.text] : u \in {trigger}} = {Lower[x]}
    OBVIOUS
  <2> HIDE DEF trigger
  <2> QED
    BY <1>1, <1>3, <2>1, DropKeepsTriggers
<1>7. TriggersOK(R, T \ {trigger})
  BY <1>3 DEF TriggersOK
<1> HIDE DEF trigger, H, w, r
<1> QED
  BY <1>1, <1>2, <1>3, <1>4, <1>5, <1>6, <1>7, StatementTaken

LEMMA RenameStep ==
    ASSUME NEW n \in Names, NEW m \in Names,
           InStep(server, walk, replica), RenameTable(n, m)
    PROVE  NamespaceInv'
<1> DEFINE R == server.relations
           T == server.triggers
           O == replica.objects
           G == replica.triggers
           S == RelationsRenamed(R, n, m)
           U == TriggersRenamed(T, n, m)
           w == RenameObject(Walked(O, G), Key(n), Key(m))
           r == ReplicaRename(Running(O, G), Key(n), Key(m))
<1>1. n \in DOMAIN R /\ R[n].kind = "table" /\ m \notin DOMAIN R /\ Emitted(w, r)
  BY DEF RenameTable, InStep, Relations, Tables
<1>2. server' = [relations |-> S, triggers |-> U]
  BY DEF RenameTable, Relations, RelationsRenamed, TriggersRenamed, Followed, Origin
<1>3. RelationsOK(R) /\ TriggersOK(R, T) /\ RelationsKept(R, O) /\ TriggersKept(T, G)
  BY DEF InStep
<1> HIDE DEF R, T, O, G
<1>4. CASE Key(m) \in DOMAIN O
  BY <1>1, <1>4, WalkRefusesRename, StatementRefused
<1>5. CASE Key(m) \notin DOMAIN O
  <2> DEFINE P == RelationsRenamed(O, Key(n), Key(m))
             H == FiredRenamed(G, Key(n), Key(m))
  <2>1. Key(n) \in DOMAIN O /\ O[Key(n)].owner = NoOwner /\ Key(n) # NoOwner
    BY <1>1, <1>3, FiledAs, KeyType
  <2>2. ~w.refused /\ w.walk = Walked(P, H) /\ r = Running(P, H)
    BY <1>5, <2>1, WalkRenames
  <2>3. RelationsOK(S) /\ RelationsKept(S, P)
    BY <1>1, <1>3, <1>5, RenameKeepsRelations
  <2>4. TriggersOK(S, U) /\ TriggersKept(U, H)
    BY <1>1, <1>3, RenameKeepsTriggers
  <2> HIDE DEF S, U, P, H, w, r
  <2> QED
    BY <1>1, <1>2, <2>2, <2>3, <2>4, StatementTaken
<1> QED
  BY <1>4, <1>5

LEMMA ViewStep ==
    ASSUME NEW n \in Names, InStep(server, walk, replica), ~Shadows(n), CreateOrReplaceView(n)
    PROVE  NamespaceInv'
<1> DEFINE R == server.relations
           T == server.triggers
           O == replica.objects
           G == replica.triggers
           entry == [kind |-> "view", owner |-> n]
           filed == [kind |-> "view", owner |-> NoOwner]
           P == Dropping(O, {Key(n)} \cup Hanging(O, Key(n)))
           H == Dropping(G, FiredBy(G, Key(n)))
           yes == TRUE
           no == FALSE
           gone == ReplicaDrop(Running(O, G), Key(n), "view", yes)
           w == DefineObject(DropObject(Walked(O, G), Key(n)).walk, Key(n), NoOwner)
           r == IF gone.failed THEN gone ELSE ReplicaDefine(gone, Key(n), "view", NoOwner, no)
<1>1. /\ n \in DOMAIN R => R[n].kind = "view"
      /\ Emitted(w, r)
  BY DEF CreateOrReplaceView, InStep, Relations
<1>2. server' = [relations |-> Adding(R, n, entry), triggers |-> T]
  BY DEF CreateOrReplaceView, InStep, AddRelation
<1>3. RelationsOK(R) /\ TriggersOK(R, T) /\ RelationsKept(R, O) /\ TriggersKept(T, G)
  BY DEF InStep
<1>4. \A m \in DOMAIN R : Key(m) = Key(n) => m = n
  BY DEF Shadows, Relations
<1> HIDE DEF R, T, O, G, yes, no
\* Nothing hangs off a view, nor off a key that is free.
<1>5. Hanging(O, Key(n)) = {} /\ FiredBy(G, Key(n)) = {}
  <2>1. \A k \in DOMAIN O : \E m \in DOMAIN R : k = Key(m)
    BY <1>3 DEF RelationsKept
  <2>2. ASSUME NEW m \in DOMAIN R PROVE O[Key(m)].owner # Key(n)
    <3>1. O[Key(m)].owner = IF R[m].kind = "index" THEN Key(R[m].owner) ELSE NoOwner
      BY <1>3, FiledAs
    <3>2. R[m].kind = "index" => R[m].owner \in DOMAIN R /\ R[R[m].owner].kind = "table"
      BY <1>3 DEF RelationsOK
    <3> QED
      BY <1>1, <1>4, <3>1, <3>2, KeyType
  <2>3. \A k \in DOMAIN G : \E t \in T : k = Lower[t.text] /\ G[k] = Key(t.owner)
    BY <1>3 DEF TriggersKept
  <2>4. \A t \in T : Key(t.owner) # Key(n)
    BY <1>1, <1>3, <1>4 DEF TriggersOK
  <2>5. Hanging(O, Key(n)) = {}
    BY <2>1, <2>2 DEF Hanging
  <2>6. FiredBy(G, Key(n)) = {}
    BY <2>3, <2>4 DEF FiredBy
  <2> QED
    BY <2>5, <2>6
<1>6. H = G
  <2>1. Mapping(G)
    BY <1>3 DEF TriggersKept
  <2> QED
    BY <1>5, <2>1 DEF Dropping, Restrict, Mapping
<1>7. Mapping(P) /\ DOMAIN P = DOMAIN O \ {Key(n)} /\ \A k \in DOMAIN P : P[k] = O[k]
  BY <1>5 DEF Dropping, Restrict, Mapping
<1>8. DropObject(Walked(O, G), Key(n)).walk = Walked(P, G)
  <2>1. DropObject(Walked(O, G), Key(n)).walk = Walked(P, H)
    BY WalkDrops
  <2> QED
    BY <1>6, <2>1
<1>9. gone = Running(P, G)
  <2>1. CASE n \in DOMAIN R
    <3>1. Key(n) \in DOMAIN O /\ O[Key(n)].kind = "view"
      BY <1>1, <1>3, <2>1, FiledAs
    <3> QED
      BY <1>6, <3>1, WalkDrops
  <2>2. CASE n \notin DOMAIN R
    <3>1. Key(n) \notin DOMAIN O
      BY <1>3, <1>4, <2>2 DEF RelationsKept
    <3>2. P = O
      <4>1. Mapping(O)
        BY <1>3 DEF RelationsKept
      <4> HIDE DEF P
      <4> QED
        BY <1>7, <3>1, <4>1, MappingsEqual
    <3>3. gone = Running(O, G)
      BY <3>1 DEF ReplicaDrop, Running, yes
    <3> HIDE DEF P
    <3> QED
      BY <3>2, <3>3
  <2> QED
    BY <2>1, <2>2
<1> HIDE DEF P
<1>10. ~gone.failed
  <2> HIDE DEF gone
  <2> QED
    BY <1>9 DEF Running
<1> DEFINE Q == Adding(P, Key(n), filed)
<1>11. ~w.refused /\ w.walk = Walked(Q, G)
  <2>1. Key(n) \notin DOMAIN P
    BY <1>7
  <2>2. /\ ~DefineObject(Walked(P, G), Key(n), NoOwner).refused
        /\ DefineObject(Walked(P, G), Key(n), NoOwner).walk = Walked(Q, G)
    BY <2>1, WalkDefines
  <2> QED
    BY <1>8, <2>2
<1>12. r = Running(Q, G)
  <2>1. r = ReplicaDefine(Running(P, G), Key(n), "view", NoOwner, no)
    BY <1>9, <1>10
  <2> QED
    BY <1>7, <2>1, WalkDefines
<1>13. /\ RelationsOK(Adding(R, n, entry))
       /\ RelationsKept(Adding(R, n, entry), Q)
       /\ TriggersOK(Adding(R, n, entry), T)
  <2>1. CASE n \notin DOMAIN R
    <3>1. Key(n) \notin DOMAIN O
      BY <1>3, <1>4, <2>1 DEF RelationsKept
    <3>2. P = O
      <4>1. Mapping(O)
        BY <1>3 DEF RelationsKept
      <4> QED
        BY <1>7, <3>1, <4>1, MappingsEqual
    <3>3. Filed(entry) = filed
      BY DEF Filed
    <3> QED
      BY <1>3, <2>1, <3>1, <3>2, <3>3, AddKeepsRelations, AddKeepsTriggers
  <2>2. CASE n \in DOMAIN R
    <3>1. R[n] = entry
      BY <1>1, <1>3, <2>2 DEF RelationsOK
    <3>2. Adding(R, n, entry) = R
      <4>1. Mapping(R)
        BY <1>3 DEF RelationsOK
      <4> QED
        BY <2>2, <3>1, <4>1 DEF Adding, Mapping
    <3>3. Key(n) \in DOMAIN O /\ O[Key(n)] = filed
      BY <1>3, <2>2, <3>1 DEF RelationsKept, Filed
    <3>4. Q = O
      <4>1. Mapping(O)
        BY <1>3 DEF RelationsKept
      <4>2. Mapping(Q) /\ DOMAIN Q = DOMAIN P \cup {Key(n)} /\ \A k \in DOMAIN Q : Q[k] = IF k = Key(n) THEN filed ELSE P[k]
        BY DEF Adding, Mapping
      <4> HIDE DEF Q, filed
      <4> QED
        BY <1>7, <3>3, <4>1, <4>2, MappingsEqual
    <3> HIDE DEF Q
    <3> QED
      BY <1>3, <3>2, <3>4
  <2> QED
    BY <2>1, <2>2
<1> HIDE DEF Q, w, r, entry
<1> QED
  BY <1>1, <1>2, <1>3, <1>11, <1>12, <1>13, StatementTaken

-----------------------------------------------------------------------------
(* What the invariant says of the maps as they are written in the model.   *)

\* The relation filed under a key is the one the seed finds for it.
LEMMA ChosenRelation ==
    ASSUME NEW R, NEW O, RelationsKept(R, O), NEW k \in DOMAIN O
    PROVE  LET n == CHOOSE m \in DOMAIN R : Key(m) = k
           IN  /\ n \in DOMAIN R /\ Key(n) = k
               /\ O[k] = Filed(R[n])
<1> DEFINE n == CHOOSE m \in DOMAIN R : Key(m) = k
<1>1. \E m \in DOMAIN R : Key(m) = k
  BY DEF RelationsKept
<1>2. n \in DOMAIN R /\ Key(n) = k
  BY <1>1
<1> HIDE DEF n
<1>3. O[k] = Filed(R[n])
  BY <1>2 DEF RelationsKept
<1> QED
  BY <1>2, <1>3 DEF n

LEMMA ChosenTrigger ==
    ASSUME NEW T, NEW G, TriggersKept(T, G), NEW k \in DOMAIN G
    PROVE  G[k] = Key((CHOOSE t \in T : Lower[t.text] = k).owner)
<1> DEFINE t == CHOOSE u \in T : Lower[u.text] = k
<1>1. \E u \in T : Lower[u.text] = k
  BY DEF TriggersKept
<1>2. t \in T /\ Lower[t.text] = k
  BY <1>1
<1> HIDE DEF t
<1>3. G[k] = Key(t.owner)
  BY <1>2 DEF TriggersKept
<1> QED
  BY <1>3 DEF t

LEMMA FiredIsChosen ==
    ASSUME NEW T, NEW G, TriggersKept(T, G)
    PROVE  G = [k \in {Lower[t.text] : t \in T} |->
                  Key((CHOOSE t \in T : Lower[t.text] = k).owner)]
<1> DEFINE D == {Lower[t.text] : t \in T}
           F == [k \in D |-> Key((CHOOSE t \in T : Lower[t.text] = k).owner)]
<1>1. Mapping(G) /\ DOMAIN G = D
  BY DEF TriggersKept
<1>2. \A k \in DOMAIN G : G[k] = Key((CHOOSE t \in T : Lower[t.text] = k).owner)
  BY ChosenTrigger
<1>3. Mapping(F) /\ DOMAIN F = DOMAIN G /\ \A k \in DOMAIN G : F[k] = G[k]
  BY <1>1, <1>2 DEF Mapping
<1> HIDE DEF F
<1>4. G = F
  BY <1>1, <1>3, MappingsEqual
<1> QED
  BY <1>4 DEF F

\* The seed is what the walk would have arrived at (Namespaces::seed).
LEMMA SeedIsWalk ==
    ASSUME NEW R, NEW T, NEW O, NEW G, RelationsKept(R, O), TriggersKept(T, G)
    PROVE  Seed([relations |-> R, triggers |-> T]) = Walked(O, G)
<1> DEFINE D == {Key(n) : n \in DOMAIN R}
           chosen(k) == CHOOSE m \in DOMAIN R : Key(m) = k
           F == [k \in D |-> IF R[chosen(k)].kind = "index" THEN Key(R[chosen(k)].owner) ELSE NoOwner]
<1>1. DOMAIN O = D
  BY DEF RelationsKept
<1>2. \A k \in DOMAIN O : F[k] = O[k].owner
  <2>1. ASSUME NEW k \in DOMAIN O
        PROVE  O[k].owner = IF R[chosen(k)].kind = "index" THEN Key(R[chosen(k)].owner) ELSE NoOwner
    <3>1. O[k] = Filed(R[chosen(k)])
      BY ChosenRelation
    <3> HIDE DEF chosen
    <3> QED
      BY <3>1 DEF Filed
  <2> HIDE DEF chosen
  <2> QED
    BY <1>1, <2>1
<1>3. F = Owners(O)
  <2> HIDE DEF chosen
  <2> QED
    BY <1>1, <1>2 DEF Owners
<1>4. G = [k \in {Lower[t.text] : t \in T} |-> Key((CHOOSE t \in T : Lower[t.text] = k).owner)]
  BY FiredIsChosen
<1> QED
  BY <1>3, <1>4 DEF Seed, Walked

LEMMA BatchStep ==
    ASSUME InStep(server, walk, replica), NextBatch
    PROVE  NamespaceInv'
<1> DEFINE R == server.relations
           T == server.triggers
           O == replica.objects
           G == replica.triggers
<1>1. server = [relations |-> R, triggers |-> T] /\ RelationsKept(R, O) /\ TriggersKept(T, G)
  BY DEF InStep
<1>2. walk' = Seed(server) /\ server' = server /\ replica' = replica /\ refused' = refused /\ ~refused
  BY DEF NextBatch, Reading
<1>3. Seed(server) = Walked(O, G)
  BY <1>1, SeedIsWalk
<1>4. walk' = walk
  BY <1>2, <1>3 DEF InStep
<1>5. InStep(server, walk, replica)'
  BY <1>2, <1>4 DEF InStep
<1> QED
  BY <1>2, <1>5 DEF NamespaceInv

LEMMA NamespaceInvInit == NamespaceInit => NamespaceInv
<1> SUFFICES ASSUME NamespaceInit PROVE NamespaceInv
  OBVIOUS
<1> DEFINE none == << >>
<1>1. none = [x \in {} |-> x] /\ DOMAIN none = {}
  OBVIOUS
<1>2. /\ server = [relations |-> none, triggers |-> {}]
      /\ walk = [objects |-> none, triggers |-> none]
      /\ replica = Running(none, none)
      /\ ~refused
  BY DEF NamespaceInit, Running
<1> HIDE DEF none
<1>3. Mapping(none) /\ Owners(none) = none
  BY <1>1 DEF Mapping, Owners
<1>4. RelationsOK(none) /\ TriggersOK(none, {}) /\ RelationsKept(none, none) /\ TriggersKept({}, none)
  BY <1>1, <1>3 DEF RelationsOK, TriggersOK, RelationsKept, TriggersKept
<1>5. /\ server.relations = none /\ server.triggers = {}
      /\ replica.objects = none /\ replica.triggers = none
  BY <1>2 DEF Running
<1>6. InStep(server, walk, replica)
  BY <1>2, <1>3, <1>4, <1>5 DEF InStep, Walked
<1> QED
  BY <1>2, <1>6 DEF NamespaceInv

LEMMA NamespaceInvStep ==
    ASSUME NamespaceInv, [NamespaceNext]_namespaceVars
    PROVE  NamespaceInv'
<1>1. CASE UNCHANGED namespaceVars
  BY <1>1 DEF NamespaceInv, InStep, namespaceVars
<1>2. CASE NamespaceNext
  <2>1. InStep(server, walk, replica)
    <3>1. ~refused
      BY <1>2 DEF NamespaceNext, Definition, CreateRelation, CreateIndex, CreateTrigger,
                  DropRelation, DropTrigger, RenameTable, CreateOrReplaceView, NextBatch, Reading
    <3> QED
      BY <3>1 DEF NamespaceInv
  <2> QED
    BY <1>2, <2>1, RelationStep, IndexStep, TriggerStep, DropStep, DropTriggerStep, RenameStep,
       ViewStep, BatchStep
       DEF NamespaceNext, Definition
<1> QED
  BY <1>1, <1>2

-----------------------------------------------------------------------------
(* The theorems.                                                           *)

LEMMA AcceptedFollows == NamespaceInv => AcceptedScriptApplies
<1> SUFFICES ASSUME NamespaceInv, ~refused PROVE ~replica.failed /\ ~replica.skipped /\ WalkIsReplica
  BY DEF AcceptedScriptApplies
<1>1. InStep(server, walk, replica)
  BY DEF NamespaceInv
<1>2. ~replica.failed /\ ~replica.skipped
  BY <1>1 DEF InStep, Running
<1>3. WalkIsReplica
  BY <1>1 DEF InStep, Walked, Owners, WalkIsReplica
<1> QED
  BY <1>2, <1>3

\* For any schemas, identifiers and case folding, a script of any length that
\* the walk lets through runs on SQLite, and the walk holds the names SQLite
\* holds (emitted_namespace.rs: check_statements).
THEOREM AcceptedScriptsApply == NamespaceSpec => []AcceptedScriptApplies
<1>1. NamespaceInit => NamespaceInv
  BY NamespaceInvInit
<1>2. NamespaceInv /\ [NamespaceNext]_namespaceVars => NamespaceInv'
  BY NamespaceInvStep
<1>3. NamespaceInv => AcceptedScriptApplies
  BY AcceptedFollows
<1> QED
  BY <1>1, <1>2, <1>3, PTL DEF NamespaceSpec

\* The walk refuses only a script that SQLite would reject, or run with a
\* definition passed over (emitted_namespace.rs: define_object, rename_object).
THEOREM RefusalsAreNeeded == NamespaceSpec => []RefusalIsNeeded
<1>1. NamespaceInit => NamespaceInv
  BY NamespaceInvInit
<1>2. NamespaceInv /\ [NamespaceNext]_namespaceVars => NamespaceInv'
  BY NamespaceInvStep
<1>3. NamespaceInv => RefusalIsNeeded
  BY DEF NamespaceInv, RefusalIsNeeded
<1> QED
  BY <1>1, <1>2, <1>3, PTL DEF NamespaceSpec

LEMMA HoldsFollows == NamespaceInv => ReplicaHoldsServer
<1> SUFFICES ASSUME NamespaceInv, ~refused
             PROVE  /\ \A n, m \in DOMAIN server.relations : Key(n) = Key(m) => n = m
                    /\ replica.objects =
                         [k \in {Key(n) : n \in DOMAIN server.relations} |->
                            Filed(server.relations[CHOOSE m \in DOMAIN server.relations : Key(m) = k])]
                    /\ \A t, u \in server.triggers : Lower[t.text] = Lower[u.text] => t = u
                    /\ replica.triggers =
                         [k \in {Lower[t.text] : t \in server.triggers} |->
                            Key((CHOOSE t \in server.triggers : Lower[t.text] = k).owner)]
  BY DEF ReplicaHoldsServer, Filed
<1> DEFINE R == server.relations
           T == server.triggers
           O == replica.objects
           G == replica.triggers
           F == [k \in {Key(n) : n \in DOMAIN R} |-> Filed(R[CHOOSE m \in DOMAIN R : Key(m) = k])]
<1>1. RelationsKept(R, O) /\ TriggersKept(T, G)
  BY DEF NamespaceInv, InStep
<1> HIDE DEF R, T, O, G
<1>2. O = F
  <2>1. Mapping(O) /\ DOMAIN O = {Key(n) : n \in DOMAIN R}
    BY <1>1 DEF RelationsKept
  <2>2. \A k \in DOMAIN O : O[k] = Filed(R[CHOOSE m \in DOMAIN R : Key(m) = k])
    BY <1>1, ChosenRelation
  <2>3. Mapping(F) /\ DOMAIN F = DOMAIN O /\ \A k \in DOMAIN O : O[k] = F[k]
    BY <2>1, <2>2 DEF Mapping
  <2> HIDE DEF F
  <2> QED
    BY <2>1, <2>3, MappingsEqual
<1>3. G = [k \in {Lower[t.text] : t \in T} |-> Key((CHOOSE t \in T : Lower[t.text] = k).owner)]
  BY <1>1, FiredIsChosen
<1>4. /\ \A n, m \in DOMAIN R : Key(n) = Key(m) => n = m
      /\ \A t, u \in T : Lower[t.text] = Lower[u.text] => t = u
  BY <1>1 DEF RelationsKept, TriggersKept
<1> QED
  BY <1>2, <1>3, <1>4 DEF R, T, O, G

\* Whatever the walk lets through, every relation and trigger of the source is
\* an object of the replica of its own, of its kind and hanging off the same
\* table, although the schema and the case of its name are gone.
THEOREM ReplicasHoldServer == NamespaceSpec => []ReplicaHoldsServer
<1>1. NamespaceInit => NamespaceInv
  BY NamespaceInvInit
<1>2. NamespaceInv /\ [NamespaceNext]_namespaceVars => NamespaceInv'
  BY NamespaceInvStep
<1>3. NamespaceInv => ReplicaHoldsServer
  BY HoldsFollows
<1> QED
  BY <1>1, <1>2, <1>3, PTL DEF NamespaceSpec
=============================================================================
