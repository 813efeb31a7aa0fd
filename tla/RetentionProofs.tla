---------------------------- MODULE RetentionProofs ----------------------------
(***************************************************************************)
(* The retention loop computes the least closed set of units, for every    *)
(* number of units and every set of objects.                               *)
(***************************************************************************)
EXTENDS Retention, TLAPS

\* Keeping one more unit adds what it touches and reads to what is needed
\* (the inner loop of history/mod.rs retention).
LEMMA NeededByOneMore ==
    ASSUME NEW kept \in SUBSET Units, NEW u \in Units
    PROVE  NeededBy(kept \cup {u}) = NeededBy(kept) \cup touches[u] \cup reads[u]
BY DEF NeededBy

\* More units need more objects.
LEMMA NeededByMonotone ==
    ASSUME NEW kept, NEW more, kept \subseteq more
    PROVE  NeededBy(kept) \subseteq NeededBy(more)
BY DEF NeededBy

\* A step of the loop keeps the types (history/mod.rs retention).
LEMMA RetentionTypeStep ==
    ASSUME RetentionTypeOK, [RetentionNext]_retentionVars
    PROVE  RetentionTypeOK'
<1> USE LengthAssumption DEF RetentionTypeOK, inputs, Units
<1>1. CASE BeginSweep
  <2>1. index' \in 0 .. Length
    <3>1. index' = Length  BY <1>1 DEF BeginSweep
    <3>2. QED BY <3>1
  <2>2. changed' \in BOOLEAN
    BY <1>1 DEF BeginSweep
  <2>3. UNCHANGED <<touches, reads, alive, needed, retained>> /\ pc' = "for"
    BY <1>1 DEF BeginSweep
  <2>4. QED BY <2>1, <2>2, <2>3
<1>2. CASE Skip        BY <1>2 DEF Skip
<1>3. CASE Keep        BY <1>3 DEF Keep
<1>4. CASE EndSweep    BY <1>4 DEF EndSweep
<1>5. CASE Return      BY <1>5 DEF Return
<1>6. CASE UNCHANGED retentionVars  BY <1>6 DEF retentionVars
<1>7. QED BY <1>1, <1>2, <1>3, <1>4, <1>5, <1>6 DEF RetentionNext

\* The loop's variables keep their types (history/mod.rs retention).
THEOREM RetentionTypeCorrect == RetentionSpec => []RetentionTypeOK
<1>1. RetentionInit => RetentionTypeOK
  BY LengthAssumption DEF RetentionInit, RetentionTypeOK
<1>2. RetentionTypeOK /\ [RetentionNext]_retentionVars => RetentionTypeOK'
  BY RetentionTypeStep
<1>3. QED BY <1>1, <1>2, PTL DEF RetentionSpec

\* The invariant of the sweep holds throughout.
THEOREM RetentionInvariant == RetentionSpec => []RetentionInv
<1>1. RetentionInit => RetentionInv
  BY LengthAssumption
  DEF RetentionInit, RetentionInv, RetentionTypeOK, NeededIsExact, NeededBy,
      SweptClean, AtRest, RetentionIsLeast
<1>2. RetentionInv /\ [RetentionNext]_retentionVars => RetentionInv'
  <2> SUFFICES ASSUME RetentionInv, [RetentionNext]_retentionVars
               PROVE  RetentionInv'
    OBVIOUS
  <2>0. RetentionTypeOK'
    BY RetentionTypeStep DEF RetentionInv
  <2> SUFFICES (NeededIsExact /\ SweptClean /\ AtRest /\ RetentionIsLeast)'
    BY <2>0 DEF RetentionInv
  <2>1. CASE BeginSweep
    <3>1. UNCHANGED <<touches, reads, alive, needed, retained>>
      BY <2>1 DEF BeginSweep, inputs
    <3>2. NeededIsExact' /\ RetentionIsLeast'
      BY <3>1 DEF RetentionInv, NeededIsExact, NeededBy, RetentionIsLeast, Closed
    <3>3. SweptClean'
      <4>1. index' = Length  BY <2>1 DEF BeginSweep
      <4>2. \A u \in Units : ~(u > index')
        BY <4>1, LengthAssumption DEF Units
      <4>3. QED BY <4>2 DEF SweptClean
    <3>4. AtRest'
      BY <2>1 DEF BeginSweep, AtRest
    <3>5. QED BY <3>2, <3>3, <3>4
  <2>2. CASE Skip
    BY <2>2 DEF Skip, inputs, RetentionInv, RetentionTypeOK, NeededIsExact, NeededBy,
                SweptClean, AtRest, RetentionIsLeast, Closed, Units
  <2>3. CASE Keep
    <3> USE <2>3 DEF Keep, inputs
    <3>1. index \in Units
      BY DEF RetentionInv, RetentionTypeOK, Units
    <3>2. UNCHANGED <<touches, reads, alive>>
      OBVIOUS
    <3>3. NeededIsExact'
      <4>1. needed' = NeededBy(retained) \cup touches[index] \cup reads[index]
        BY DEF RetentionInv, NeededIsExact
      <4>2. needed' = NeededBy(retained \cup {index})
        BY <3>1, <4>1, NeededByOneMore DEF RetentionInv, RetentionTypeOK
      <4>3. QED BY <4>2, <3>2 DEF NeededIsExact, NeededBy
    <3>4. SweptClean' /\ AtRest'
      BY DEF SweptClean, AtRest
    <3>5. RetentionIsLeast'
      <4> SUFFICES ASSUME NEW kept \in SUBSET Units, Closed(kept)
                   PROVE  index \in kept /\ retained \subseteq kept
        BY <3>2 DEF RetentionIsLeast, Closed, NeededBy
      <4>1. retained \subseteq kept
        BY DEF RetentionInv, RetentionIsLeast
      <4>2. needed \subseteq NeededBy(kept)
        BY <4>1, NeededByMonotone DEF RetentionInv, NeededIsExact
      <4>3. touches[index] \cap NeededBy(kept) # {}
        BY <4>2
      <4>4. QED BY <3>1, <4>1, <4>3 DEF Closed
    <3>6. QED BY <3>3, <3>4, <3>5
  <2>4. CASE EndSweep
    BY <2>4 DEF EndSweep, inputs, RetentionInv, RetentionTypeOK, NeededIsExact, NeededBy,
                SweptClean, AtRest, RetentionIsLeast, Closed, Units
  <2>5. CASE Return
    BY <2>5 DEF Return, inputs, RetentionInv, RetentionTypeOK, NeededIsExact, NeededBy,
                SweptClean, AtRest, RetentionIsLeast, Closed, Units
  <2>6. CASE UNCHANGED retentionVars
    BY <2>6 DEF retentionVars, RetentionInv, RetentionTypeOK, NeededIsExact, NeededBy,
                SweptClean, AtRest, RetentionIsLeast, Closed, Units
  <2>7. QED BY <2>1, <2>2, <2>3, <2>4, <2>5, <2>6 DEF RetentionNext
<1>3. QED BY <1>1, <1>2, PTL DEF RetentionSpec

\* The set the loop returns is closed: what it leaves out is not needed.
THEOREM RetentionClosed == RetentionSpec => []RetentionIsClosed
<1>1. RetentionInv => RetentionIsClosed
  BY DEF RetentionInv, RetentionTypeOK, NeededIsExact, SweptClean, AtRest, RetentionIsClosed,
         Closed, Units
<1>2. QED BY <1>1, RetentionInvariant, PTL

\* And it keeps nothing a closed set could do without.
THEOREM RetentionLeast == RetentionSpec => []RetentionIsLeast
<1>1. RetentionInv => RetentionIsLeast
  BY DEF RetentionInv
<1>2. QED BY <1>1, RetentionInvariant, PTL
=============================================================================
