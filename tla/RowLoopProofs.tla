--------------------------- MODULE RowLoopProofs ---------------------------
(***************************************************************************)
(* What a loop over rows leaves, from what each firing preserves.          *)
(***************************************************************************)
EXTENDS RowLoop, NaturalsInduction, WellFoundedInduction, TLAPS

Next1(ctx, S, run, k) == IF k \in S /\ run.ok THEN Fire(ctx, run, k) ELSE run

IsLoop(f, ctx, S, n, start) ==
    f = [k \in 0..n |-> IF k = 0 THEN start ELSE Next1(ctx, S, f[k - 1], k)]

\* A set of naturals that is not empty has a least element.
LEMMA LeastNumber ==
    ASSUME NEW D \in SUBSET Nat, D # {}
    PROVE  \E m \in D : \A k \in D : m <= k
<1>1. PICK m \in D : \A k \in D : ~(<<k, m>> \in OpToRel(<, Nat))
  BY WFMin, NatLessThanWellFounded
<1>2. \A k \in D : ~(k < m)
  BY <1>1 DEF OpToRel
<1>3. QED BY <1>2

LEMMA LoopExists ==
    ASSUME NEW ctx, NEW S, NEW n \in Nat, NEW start
    PROVE  \E f : IsLoop(f, ctx, S, n, start)
<1> DEFINE Bad == {m \in Nat : ~\E f : IsLoop(f, ctx, S, m, start)}
<1>1. SUFFICES ASSUME Bad # {} PROVE FALSE
  OBVIOUS
<1>2. PICK m \in Bad : \A k \in Bad : m <= k
  <2>1. Bad \in SUBSET Nat
    OBVIOUS
  <2> HIDE DEF Bad
  <2>2. QED BY <1>1, <2>1, LeastNumber
<1>3. m \in Nat /\ ~\E f : IsLoop(f, ctx, S, m, start)
  BY <1>2
<1>4. CASE m = 0
  <2>1. IsLoop([k \in 0..m |-> start], ctx, S, m, start)
    BY <1>4 DEF IsLoop
  <2>2. QED BY <2>1, <1>3
<1>5. CASE m # 0
  <2>1. m - 1 \in Nat /\ m - 1 \notin Bad
    BY <1>2, <1>3, <1>5
  <2>2. PICK f : IsLoop(f, ctx, S, m - 1, start)
    BY <2>1
  <2> DEFINE g == [k \in 0..m |-> IF k = m THEN Next1(ctx, S, f[m - 1], m) ELSE f[k]]
  <2>3. ASSUME NEW k \in 0..m
        PROVE  g[k] = IF k = 0 THEN start ELSE Next1(ctx, S, g[k - 1], k)
    <3>1. CASE k = m
      <4>1. m - 1 \in 0..m /\ m - 1 # m /\ g[m - 1] = f[m - 1]
        BY <1>3, <1>5
      <4>2. g[m] = Next1(ctx, S, f[m - 1], m)
        BY <1>3
      <4>3. QED BY <4>1, <4>2, <3>1, <1>5
    <3>2. CASE k # m
      <4>1. k \in 0..(m - 1) /\ k \in 0..m
        BY <3>2, <1>3
      <4>2. g[k] = f[k]
        BY <3>2
      <4>3. f[k] = IF k = 0 THEN start ELSE Next1(ctx, S, f[k - 1], k)
        BY <4>1, <2>2 DEF IsLoop
      <4>4. ASSUME k # 0 PROVE g[k - 1] = f[k - 1]
        BY <4>4, <4>1, <3>2, <1>3
      <4>5. QED BY <4>2, <4>3, <4>4
    <3>3. QED BY <3>1, <3>2
  <2>4. IsLoop(g, ctx, S, m, start)
    <3>1. g = [k \in 0..m |-> g[k]]
      OBVIOUS
    <3> HIDE DEF g
    <3>2. QED BY <3>1, <2>3 DEF IsLoop
  <2>5. QED BY <2>4, <1>3
<1>6. QED BY <1>4, <1>5

\* J relates the rows passed so far to the run: true at the start, and kept by
\* each firing that a run which is not aborted makes.
LoopInvariant(J, ctx, S, start) ==
    /\ <<{}, start>> \in J
    /\ \A d \in SUBSET S : \A k \in S \ d : \A run :
          <<d, run>> \in J /\ run.ok => <<d \cup {k}, Fire(ctx, run, k)>> \in J

\* A run satisfies what every firing keeps, for the rows it passed, which are
\* all of them when nothing aborted.
THEOREM LoopKeeps ==
    ASSUME NEW ctx, NEW S, NEW n \in Nat, NEW start, S \subseteq 1..n,
           NEW J, LoopInvariant(J, ctx, S, start)
    PROVE  \E d \in SUBSET S :
              /\ <<d, ForEachRow(ctx, S, n, start)>> \in J
              /\ ForEachRow(ctx, S, n, start).ok => d = S
<1> DEFINE Is(f) == IsLoop(f, ctx, S, n, start)
           f == CHOOSE f : Is(f)
<1>1. ForEachRow(ctx, S, n, start) = f[n]
  BY DEF ForEachRow, IsLoop, Next1
<1>2. IsLoop(f, ctx, S, n, start)
  BY LoopExists
<1> HIDE DEF f
<1> DEFINE Upto(k) == {r \in S : r <= k}
           Good(k) == \E d \in SUBSET Upto(k) :
                        <<d, f[k]>> \in J /\ (f[k].ok => d = Upto(k))
           Bad == {k \in 0..n : ~Good(k)}
<1>0. \A r \in S : r \in Nat /\ 1 <= r /\ r <= n
  OBVIOUS
<1>3. f[0] = start
  BY <1>2 DEF IsLoop
<1>4. \A k \in 1..n : f[k] = Next1(ctx, S, f[k - 1], k)
  BY <1>2 DEF IsLoop
<1>5. Bad = {}
  <2>1. SUFFICES ASSUME Bad # {} PROVE FALSE
    OBVIOUS
  <2>2. PICK k \in Bad : \A j \in Bad : k <= j
    <3>1. Bad \in SUBSET Nat
      OBVIOUS
    <3> HIDE DEF Bad
    <3>2. QED BY <2>1, <3>1, LeastNumber
  <2>3. k \in 0..n /\ ~Good(k)
    BY <2>2
  <2>4. CASE k = 0
    <3>1. Upto(k) = {}
      <4>1. \A r \in S : ~(r <= 0)
        BY <1>0
      <4>2. QED BY <2>4, <4>1
    <3>2. <<{}, f[k]>> \in J
      BY <2>4, <1>3 DEF LoopInvariant
    <3>3. QED BY <3>1, <3>2, <2>3
  <2>5. CASE k # 0
    <3>1. k \in 1..n /\ k - 1 \in 0..n /\ k - 1 \notin Bad
      <4>1. k \in 1..n /\ k - 1 \in 0..n /\ ~(k <= k - 1)
        BY <2>3, <2>5
      <4> HIDE DEF Bad
      <4>2. QED BY <4>1, <2>2
    <3>2. Good(k - 1)
      BY <3>1
    <3>3. PICK d \in SUBSET Upto(k - 1) :
             <<d, f[k - 1]>> \in J /\ (f[k - 1].ok => d = Upto(k - 1))
      BY <3>2
    <3>4. f[k] = Next1(ctx, S, f[k - 1], k)
      BY <3>1, <1>4
    <3>5. k \notin d /\ d \in SUBSET S /\ d \in SUBSET Upto(k)
      BY <3>1, <3>3
    <3>6. CASE k \in S /\ f[k - 1].ok
      <4>1. f[k] = Fire(ctx, f[k - 1], k)
        BY <3>4, <3>6 DEF Next1
      <4>2. <<d \cup {k}, f[k]>> \in J
        BY <4>1, <3>3, <3>5, <3>6 DEF LoopInvariant
      <4>3. d \cup {k} = Upto(k)
        <5>1. d = Upto(k - 1)
          BY <3>3, <3>6
        <5>2. \A r \in S : r <= k <=> r <= k - 1 \/ r = k
          BY <1>0, <3>1
        <5>3. QED BY <5>1, <5>2, <3>6
      <4>4. QED BY <4>2, <4>3, <2>3
    <3>7. CASE ~(k \in S /\ f[k - 1].ok)
      <4>1. f[k] = f[k - 1]
        BY <3>4, <3>7 DEF Next1
      <4>2. f[k].ok => k \notin S
        BY <4>1, <3>7
      <4>3. f[k].ok => Upto(k) = Upto(k - 1)
        <5>1. SUFFICES ASSUME k \notin S PROVE Upto(k) = Upto(k - 1)
          BY <4>2
        <5>2. \A r \in S : r <= k <=> r <= k - 1
          BY <1>0, <3>1, <5>1
        <5>3. QED BY <5>2
      <4>4. QED BY <4>1, <4>3, <3>3, <3>5, <2>3
    <3>8. QED BY <3>6, <3>7
  <2>6. QED BY <2>4, <2>5
<1>6. Good(n)
  <2>1. n \in 0..n
    OBVIOUS
  <2> HIDE DEF Good
  <2>2. QED BY <1>5, <2>1
<1>7. Upto(n) = S
  BY <1>0
<1>8. QED BY <1>1, <1>6, <1>7
=============================================================================
