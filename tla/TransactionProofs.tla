-------------------------- MODULE TransactionProofs --------------------------
(***************************************************************************)
(* The two passes over transaction control agree, and the outline          *)
(* implements the server, for every alphabet of names and every bound.     *)
(*                                                                         *)
(* The translated batch on SQLite does what the outline says of it, for    *)
(* any names and batches of any length: every emitted statement runs, what *)
(* is durable is what the outline calls committed, transaction by          *)
(* transaction, and a survivor ran on the survivors before it.             *)
(***************************************************************************)
EXTENDS ReplicaTransactions, SequenceTheorems, WellFoundedInduction, TLAPS

-----------------------------------------------------------------------------
(* The innermost frame.                                                    *)

\* A non-empty set of positions has a last one.
LEMMA LastPosition ==
    ASSUME NEW n \in Nat, NEW S \in SUBSET (1 .. n), S # {}
    PROVE  \E k \in S : \A q \in S : q <= k
<1> DEFINE D == {n - k : k \in S}
<1>1. \A k \in S : k \in Nat /\ n - k \in Nat
  <2>1. TAKE k \in S
  <2>2. k \in 1 .. n
    OBVIOUS
  <2>3. QED BY <2>2
<1>2. D \subseteq Nat
  BY <1>1
<1>3. D # {}
  <2>1. PICK k \in S : TRUE
    OBVIOUS
  <2>2. n - k \in D
    BY <2>1
  <2>3. QED BY <2>2
<1>4. PICK x \in D : \A y \in D : ~(<<y, x>> \in OpToRel(<, Nat))
  <2> HIDE DEF D
  <2>1. QED BY <1>2, <1>3, WFMin, NatLessThanWellFounded
<1>5. \A y \in D : ~(y < x)
  <2> HIDE DEF D
  <2>1. QED BY <1>2, <1>4 DEF OpToRel
<1>6. PICK k \in S : x = n - k
  BY <1>4
<1>7. ASSUME NEW q \in S
      PROVE  q <= k
  <2>1. n - q \in D
    OBVIOUS
  <2>2. ~(n - q < n - k)
    BY <2>1, <1>5, <1>6
  <2>3. q \in Nat /\ k \in Nat
    BY <1>1
  <2>4. QED BY <2>2, <2>3
<1>8. QED BY <1>7

\* When a frame answers to a name, Innermost is one, and the last one
\* (history/transactions.rs innermost).
LEMMA InnermostMatches ==
    ASSUME OutlineTypeOK, NEW id, Matching(id) # {}
    PROVE  /\ Innermost(id) \in Matching(id)
           /\ \A q \in Matching(id) : q <= Innermost(id)
           /\ Innermost(id) \in 1 .. Len(frames)
           /\ frames[Innermost(id)].name # NoName
<1>1. DOMAIN frames = 1 .. Len(frames) /\ Len(frames) \in Nat
  BY LenProperties DEF OutlineTypeOK
<1>2. Matching(id) \in SUBSET (1 .. Len(frames))
  BY <1>1 DEF Matching
<1>3. \E k \in Matching(id) : \A q \in Matching(id) : q <= k
  BY <1>1, <1>2, LastPosition
<1>4. Innermost(id) \in Matching(id) /\ \A q \in Matching(id) : q <= Innermost(id)
  BY <1>3 DEF Innermost
<1>5. QED BY <1>2, <1>4 DEF Matching

-----------------------------------------------------------------------------
(* Settling outcomes.                                                      *)

\* Reading a control statement adds one Control outcome and changes the
\* settled ones only (history/transactions.rs Outline::new).
LEMMA SettleOutcomes ==
    ASSUME OutlineTypeOK, NEW settled, NEW outcome \in Outcomes, Settle(settled, outcome)
    PROVE  /\ outcomes' \in Seq(Outcomes)
           /\ Len(outcomes') = Len(outcomes) + 1
           /\ outcomes'[Len(outcomes) + 1] = "Control"
           /\ \A i \in 1 .. Len(outcomes) :
                 outcomes'[i] = IF i \in settled THEN outcome ELSE outcomes[i]
           /\ transactions' \in Seq(Nat \cup {NoTx})
           /\ Len(transactions') = Len(outcomes')
<1> DEFINE n == Len(outcomes) + 1
           e(i) == IF i = n THEN "Control"
                   ELSE IF i \in settled THEN outcome ELSE outcomes[i]
<1>1. Len(outcomes) \in Nat /\ \A i \in 1 .. Len(outcomes) : outcomes[i] \in Outcomes
  BY DEF OutlineTypeOK
<1>2. outcomes' = [i \in 1 .. n |-> e(i)]
  BY DEF Settle
<1>3. n \in Nat /\ \A i \in 1 .. n : e(i) \in Outcomes
  BY <1>1 DEF Outcomes
<1>4. outcomes' \in Seq(Outcomes) /\ Len(outcomes') = n
  <2> HIDE DEF n, e
  <2>1. outcomes' \in [1 .. n -> Outcomes]
    BY <1>2, <1>3
  <2>2. QED BY <2>1, <1>3, SeqDef
<1>5. \A i \in 1 .. n : outcomes'[i] = e(i)
  <2> HIDE DEF n, e
  <2>1. QED BY <1>2
<1>6. transactions' \in Seq(Nat \cup {NoTx}) /\ Len(transactions') = Len(outcomes) + 1
  BY DEF Settle, OutlineTypeOK
<1>7. QED BY <1>1, <1>4, <1>5, <1>6
-----------------------------------------------------------------------------
(* Every iteration preserves the invariant.                                *)

\* A prefix of a sequence: its type, its length and its elements.
LEMMA PrefixProperties ==
    ASSUME NEW S, NEW s \in Seq(S), NEW n \in 0 .. Len(s)
    PROVE  /\ SubSeq(s, 1, n) \in Seq(S)
           /\ Len(SubSeq(s, 1, n)) = n
           /\ DOMAIN SubSeq(s, 1, n) = 1 .. n
           /\ \A i \in 1 .. n : SubSeq(s, 1, n)[i] = s[i]
<1>1. Len(s) \in Nat /\ n \in Nat /\ \A i \in 1 .. n : s[i] \in S
  BY LenProperties, ElementOfSeq
<1>2. /\ SubSeq(s, 1, n) \in Seq(S)
      /\ Len(SubSeq(s, 1, n)) = IF 1 <= n THEN n - 1 + 1 ELSE 0
      /\ \A i \in 1 .. n - 1 + 1 : SubSeq(s, 1, n)[i] = s[1 + i - 1]
  <2>1. 1 \in Int /\ n \in Int
    BY <1>1
  <2>2. QED BY <1>1, <2>1, SubSeqProperties
<1>3. Len(SubSeq(s, 1, n)) = n
  BY <1>1, <1>2
<1>4. DOMAIN SubSeq(s, 1, n) = 1 .. n
  BY <1>2, <1>3, LenProperties
<1>5. ASSUME NEW i \in 1 .. n PROVE SubSeq(s, 1, n)[i] = s[i]
  <2>1. i \in 1 .. n - 1 + 1 /\ 1 + i - 1 = i
    BY <1>1
  <2>2. SubSeq(s, 1, n)[i] = s[1 + i - 1]
    BY <1>2, <2>1
  <2>3. QED BY <2>1, <2>2
<1>6. QED BY <1>2, <1>3, <1>4, <1>5

\* Cutting the frame stack and the pending statements back to a savepoint
\* keeps what is left well nested (RELEASE, ROLLBACK TO).
LEMMA CutFrames ==
    ASSUME OutlineInv, NEW m \in 1 .. Len(frames), NEW p \in 0 .. Len(pending),
           \A k \in 1 .. m : frames[k].start <= p,
           frames' = SubSeq(frames, 1, m),
           pending' = SubSeq(pending, 1, p)
    PROVE  /\ frames' \in Seq([name : Idents \cup {NoName}, start : Nat])
           /\ frames' # <<>>
           /\ pending' \in Seq(Nat \ {0})
           /\ FramesNest'
           /\ \A k \in DOMAIN frames' : frames'[k].name = NoName <=> k = 1
           /\ DOMAIN pending' = 1 .. p
           /\ \A j \in 1 .. p : pending'[j] = pending[j]
<1> USE DEF OutlineInv, OutlineTypeOK
<1>1. Len(frames) \in Nat /\ Len(pending) \in Nat /\ DOMAIN frames = 1 .. Len(frames)
      /\ DOMAIN pending = 1 .. Len(pending)
  BY LenProperties
<1>2. /\ frames' \in Seq([name : Idents \cup {NoName}, start : Nat])
      /\ Len(frames') = m
      /\ DOMAIN frames' = 1 .. m
      /\ \A k \in 1 .. m : frames'[k] = frames[k]
  <2>1. m \in 0 .. Len(frames)
    BY <1>1
  <2>2. QED BY <2>1, PrefixProperties
<1>3. /\ pending' \in Seq(Nat \ {0})
      /\ Len(pending') = p
      /\ DOMAIN pending' = 1 .. p
      /\ \A j \in 1 .. p : pending'[j] = pending[j]
  BY PrefixProperties
<1>4. FramesNest'
  <2>1. FramesNest
    OBVIOUS
  <2>2. \A k \in DOMAIN frames' : k \in 1 .. m /\ k \in DOMAIN frames
    BY <1>1, <1>2
  <2>3. \A k \in DOMAIN frames' : frames'[k].start <= Len(pending')
    BY <1>2, <1>3, <2>2
  <2>4. \A k, q \in DOMAIN frames' : k <= q => frames'[k].start <= frames'[q].start
    BY <1>2, <2>1, <2>2 DEF FramesNest
  <2>5. QED BY <2>3, <2>4 DEF FramesNest
<1>5. \A k \in DOMAIN frames' : frames'[k].name = NoName <=> k = 1
  BY <1>1, <1>2 DEF PendingIsTheBlock
<1>6. frames' # <<>>
  <2>1. Len(frames') # 0
    BY <1>1, <1>2
  <2>2. QED BY <2>1
<1>7. QED BY <1>2, <1>3, <1>4, <1>5, <1>6

\* A statement that closes no block and cuts nothing: the block's own
\* statements are read as before (BEGIN, SAVEPOINT, the dropped no-ops).
LEMMA KeepPending ==
    ASSUME OutlineInv, NEW outcome \in Outcomes, Settle({}, outcome), pending' = pending
    PROVE  /\ \A j \in DOMAIN pending' :
                 pending'[j] \in DOMAIN outcomes' /\ outcomes'[pending'[j]] = "Committed"
           /\ \A j, k \in DOMAIN pending' : j < k => pending'[j] < pending'[k]
<1>1. /\ outcomes' \in Seq(Outcomes)
      /\ Len(outcomes') = Len(outcomes) + 1
      /\ \A i \in 1 .. Len(outcomes) : outcomes'[i] = outcomes[i]
  BY SettleOutcomes DEF OutlineInv
<1>2. DOMAIN outcomes = 1 .. Len(outcomes) /\ Len(outcomes) \in Nat
  BY LenProperties DEF OutlineInv, OutlineTypeOK
<1>3. DOMAIN outcomes' = 1 .. Len(outcomes) + 1
  BY <1>1, LenProperties
<1>4. \A i \in DOMAIN outcomes : i \in DOMAIN outcomes' /\ outcomes'[i] = outcomes[i]
  BY <1>1, <1>2, <1>3
<1>5. QED BY <1>4 DEF OutlineInv, PendingIsTheBlock

\* A batch the first pass refuses (analyse) leaves the invariant alone.
LEMMA RefuseStep ==
    ASSUME OutlineInv, Refuse
    PROVE  OutlineInv'
  BY DEF OutlineInv, Refuse, OutlineTypeOK, PassesAgree, FramesNest, PendingIsTheBlock

\* A dropped no-op (Disposition::NoOp) preserves the invariant.
LEMMA DropNoOpStep ==
    ASSUME OutlineInv, DropNoOp
    PROVE  OutlineInv'
<1>1. "Control" \in Outcomes
  BY DEF Outcomes
<1>2. OutlineTypeOK'
  BY <1>1, SettleOutcomes DEF OutlineInv, OutlineTypeOK, DropNoOp
<1>3. PassesAgree' /\ FramesNest'
  BY DEF OutlineInv, DropNoOp, PassesAgree, FramesNest
<1>4. PendingIsTheBlock'
  <2>1. /\ \A j \in DOMAIN pending' :
              pending'[j] \in DOMAIN outcomes' /\ outcomes'[pending'[j]] = "Committed"
        /\ \A j, k \in DOMAIN pending' : j < k => pending'[j] < pending'[k]
    BY <1>1, KeepPending DEF DropNoOp
  <2>2. QED BY <2>1 DEF PendingIsTheBlock, OutlineInv, DropNoOp
<1>5. QED BY <1>2, <1>3, <1>4 DEF OutlineInv

\* BEGIN preserves the invariant: the block's frame is the first one.
LEMMA BeginStep ==
    ASSUME OutlineInv, Begin
    PROVE  OutlineInv'
<1>1. CASE blockOpen /\ DropNoOp
  BY <1>1, DropNoOpStep
<1>2. CASE /\ ~blockOpen
           /\ blockOpen' = TRUE
           /\ Settle({}, "Control")
           /\ EnterBlock
           /\ frames' = Append(frames, BlockFrame)
           /\ UNCHANGED <<refused, pending>>
  <2>1. "Control" \in Outcomes
    BY DEF Outcomes
  <2>2. frames = <<>> /\ pending = <<>>
    BY <1>2 DEF OutlineInv, PassesAgree
  <2>3. frames' = <<BlockFrame>> /\ pending' = <<>>
    BY <1>2, <2>2
  <2>4. BlockFrame \in [name : Idents \cup {NoName}, start : Nat]
    BY DEF BlockFrame
  <2>5. OutlineTypeOK'
    <3>1. frames' \in Seq([name : Idents \cup {NoName}, start : Nat])
      BY <2>3, <2>4
    <3>2. openTx' \in Nat \cup {NoTx} /\ nextTx' \in Nat
      BY <1>2 DEF EnterBlock, OutlineInv, OutlineTypeOK
    <3>3. QED BY <1>2, <2>1, <2>3, <3>1, <3>2, SettleOutcomes DEF OutlineInv, OutlineTypeOK
  <2>6. PassesAgree'
    <3>1. openTx' # NoTx
      BY <1>2, NamesAssumption DEF EnterBlock, OutlineInv, OutlineTypeOK
    <3>2. QED BY <1>2, <2>3, <3>1 DEF PassesAgree
  <2>7. FramesNest'
    BY <2>3 DEF FramesNest, BlockFrame
  <2>8. PendingIsTheBlock'
    BY <2>3 DEF PendingIsTheBlock, BlockFrame
  <2>9. QED BY <2>5, <2>6, <2>7, <2>8 DEF OutlineInv
<1>3. QED BY <1>1, <1>2 DEF Begin

\* COMMIT and ROLLBACK, chained or not, preserve the invariant.
LEMMA EndBlockStep ==
    ASSUME OutlineInv, NEW outcome \in Outcomes, NEW chain \in BOOLEAN,
           EndBlock(outcome, chain)
    PROVE  OutlineInv'
<1>1. CASE Refuse
  BY <1>1, RefuseStep
<1>2. CASE DropNoOp
  BY <1>2, DropNoOpStep
<1>3. CASE /\ blockOpen
           /\ blockOpen' = chain
           /\ Settle(Range(pending), outcome)
           /\ pending' = <<>>
           /\ IF chain THEN EnterBlock ELSE LeaveBlock
           /\ frames' = IF chain THEN <<BlockFrame>> ELSE <<>>
           /\ UNCHANGED refused
  <2>1. BlockFrame \in [name : Idents \cup {NoName}, start : Nat]
    BY DEF BlockFrame
  <2>2. OutlineTypeOK'
    <3>1. frames' \in Seq([name : Idents \cup {NoName}, start : Nat])
      <4>1. <<BlockFrame>> \in Seq([name : Idents \cup {NoName}, start : Nat])
        BY <2>1
      <4>2. <<>> \in Seq([name : Idents \cup {NoName}, start : Nat])
        BY EmptySeq
      <4>3. QED BY <1>3, <4>1, <4>2, Zenon
    <3>2. openTx' \in Nat \cup {NoTx} /\ nextTx' \in Nat
      BY <1>3 DEF EnterBlock, LeaveBlock, OutlineInv, OutlineTypeOK
    <3>3. /\ outcomes' \in Seq(Outcomes)
          /\ transactions' \in Seq(Nat \cup {NoTx})
          /\ Len(transactions') = Len(outcomes')
      BY <1>3, SettleOutcomes DEF OutlineInv
    <3>4. refused' \in BOOLEAN /\ blockOpen' \in BOOLEAN
      BY <1>3 DEF OutlineInv, OutlineTypeOK
    <3>5. pending' \in Seq(Nat \ {0})
      BY <1>3
    <3>6. QED BY <3>1, <3>2, <3>3, <3>4, <3>5 DEF OutlineTypeOK
  <2>3. PassesAgree'
    <3>1. CASE chain
      <4>1. openTx' # NoTx
        BY <1>3, <3>1, NamesAssumption DEF EnterBlock, OutlineInv, OutlineTypeOK
      <4>2. frames' # <<>>
        BY <1>3, <3>1
      <4>3. QED BY <1>3, <3>1, <4>1, <4>2 DEF PassesAgree
    <3>2. CASE ~chain
      BY <1>3, <3>2 DEF PassesAgree, LeaveBlock
    <3>3. QED BY <3>1, <3>2
  <2>4. FramesNest'
    <3>1. \A k \in DOMAIN frames' : frames'[k].start = 0
      BY <1>3 DEF BlockFrame
    <3>2. QED BY <1>3, <3>1 DEF FramesNest
  <2>5. PendingIsTheBlock'
    <3>1. \A k \in DOMAIN frames' : frames'[k].name = NoName /\ k = 1
      BY <1>3 DEF BlockFrame
    <3>2. QED BY <1>3, <3>1 DEF PendingIsTheBlock
  <2>6. QED BY <2>2, <2>3, <2>4, <2>5 DEF OutlineInv
<1>4. QED BY <1>1, <1>2, <1>3 DEF EndBlock

\* SAVEPOINT preserves the invariant: its frame starts at the end of `pending'.
LEMMA SavepointStep ==
    ASSUME OutlineInv, NEW id \in Sources, Savepoint(id)
    PROVE  OutlineInv'
<1>1. CASE Refuse
  BY <1>1, RefuseStep
<1>2. CASE /\ blockOpen
           /\ Settle({}, "Control")
           /\ frames' = Append(frames, [name |-> id, start |-> Len(pending)])
           /\ UNCHANGED <<refused, blockOpen, pending, openTx, nextTx>>
  <2> DEFINE Frame == [name : Idents \cup {NoName}, start : Nat]
             new == [name |-> id, start |-> Len(pending)]
  <2>1. "Control" \in Outcomes
    BY DEF Outcomes
  <2>2. Len(pending) \in Nat /\ Len(frames) \in Nat /\ frames \in Seq(Frame)
    BY DEF OutlineInv, OutlineTypeOK
  <2>3. new \in Frame /\ new.name = id /\ new.start = Len(pending)
    BY <2>2, NamesAssumption
  <2>4. /\ frames' \in Seq(Frame)
        /\ Len(frames') = Len(frames) + 1
        /\ DOMAIN frames' = 1 .. Len(frames) + 1
        /\ frames'[Len(frames) + 1] = new
        /\ \A k \in 1 .. Len(frames) : frames'[k] = frames[k]
    <3> HIDE DEF new, Frame
    <3>1. frames' = Append(frames, new)
      BY <1>2 DEF new
    <3>2. QED BY <2>2, <2>3, <3>1, AppendProperties, LenProperties
  <2>5. Len(frames) >= 1 /\ id # NoName
    <3>1. frames # <<>>
      BY <1>2 DEF OutlineInv, PassesAgree
    <3>2. Len(frames) # 0
      BY <2>2, <3>1, EmptySeq
    <3>3. id # NoName
      BY NamesAssumption
    <3>4. QED BY <2>2, <3>2, <3>3
  <2>6. OutlineTypeOK'
    BY <1>2, <2>1, <2>4, SettleOutcomes DEF OutlineInv, OutlineTypeOK
  <2>7. PassesAgree'
    <3>1. frames' # <<>>
      BY <2>2, <2>4, EmptySeq
    <3>2. QED BY <1>2, <3>1 DEF OutlineInv, PassesAgree
  <2>8. FramesNest'
    <3>1. \A k \in 1 .. Len(frames) : k \in DOMAIN frames /\ frames[k].start <= Len(pending)
      BY <2>2 DEF OutlineInv, FramesNest
    <3>2. \A k \in DOMAIN frames' : frames'[k].start <= Len(pending')
      BY <1>2, <2>2, <2>3, <2>4, <3>1
    <3>3. ASSUME NEW k \in DOMAIN frames', NEW q \in DOMAIN frames', k <= q
          PROVE  frames'[k].start <= frames'[q].start
      <4>1. CASE q = Len(frames) + 1
        BY <1>2, <2>3, <2>4, <3>2, <4>1
      <4>2. CASE q # Len(frames) + 1
        <5>1. q \in 1 .. Len(frames) /\ k \in 1 .. Len(frames)
          BY <2>2, <2>4, <3>3, <4>2
        <5>2. QED BY <2>4, <3>1, <3>3, <5>1 DEF OutlineInv, FramesNest
      <4>3. QED BY <4>1, <4>2
    <3>4. QED BY <3>2, <3>3 DEF FramesNest
  <2>9. PendingIsTheBlock'
    <3>1. /\ \A j \in DOMAIN pending' :
                pending'[j] \in DOMAIN outcomes' /\ outcomes'[pending'[j]] = "Committed"
          /\ \A j, k \in DOMAIN pending' : j < k => pending'[j] < pending'[k]
      BY <1>2, <2>1, KeepPending
    <3>2. ASSUME NEW k \in DOMAIN frames'
          PROVE  frames'[k].name = NoName <=> k = 1
      <4>1. CASE k = Len(frames) + 1
        BY <2>2, <2>3, <2>4, <2>5, <4>1
      <4>2. CASE k # Len(frames) + 1
        <5>1. k \in 1 .. Len(frames) /\ k \in DOMAIN frames
          BY <2>2, <2>4, <4>2
        <5>2. QED BY <2>4, <5>1 DEF OutlineInv, PendingIsTheBlock
      <4>3. QED BY <4>1, <4>2
    <3>3. QED BY <3>1, <3>2 DEF PendingIsTheBlock
  <2>10. QED BY <2>6, <2>7, <2>8, <2>9 DEF OutlineInv
<1>3. QED BY <1>1, <1>2 DEF Savepoint

\* A savepoint's frame is never the block's own, so cutting at it leaves one.
LEMMA InnermostIsInner ==
    ASSUME OutlineInv, NEW id, Matching(id) # {}
    PROVE  /\ Innermost(id) \in 2 .. Len(frames)
           /\ Innermost(id) \in DOMAIN frames
<1>1. /\ Innermost(id) \in 1 .. Len(frames)
      /\ frames[Innermost(id)].name # NoName
      /\ Innermost(id) \in Matching(id)
  BY InnermostMatches DEF OutlineInv
<1>2. Innermost(id) \in DOMAIN frames
  BY <1>1 DEF Matching
<1>3. Innermost(id) # 1
  BY <1>1, <1>2 DEF OutlineInv, PendingIsTheBlock
<1>4. Len(frames) \in Nat
  BY DEF OutlineInv, OutlineTypeOK
<1>5. QED BY <1>1, <1>2, <1>3, <1>4

\* RELEASE preserves the invariant: it cuts the frames and nothing else.
LEMMA ReleaseStep ==
    ASSUME OutlineInv, NEW id \in Sources, ReleaseSavepoint(id)
    PROVE  OutlineInv'
<1>1. CASE Refuse
  BY <1>1, RefuseStep
<1>2. CASE /\ blockOpen
           /\ Settle({}, "Control")
           /\ frames' = IF Matching(id) = {} THEN frames
                        ELSE SubSeq(frames, 1, Innermost(id) - 1)
           /\ UNCHANGED <<refused, blockOpen, pending, openTx, nextTx>>
  <2>1. CASE Matching(id) = {}
    BY <1>2, <2>1, DropNoOpStep DEF DropNoOp
  <2>2. CASE Matching(id) # {}
    <3> DEFINE m == Innermost(id) - 1
               p == Len(pending)
    <3>1. Len(frames) \in Nat /\ p \in Nat /\ DOMAIN frames = 1 .. Len(frames)
          /\ pending \in Seq(Nat \ {0})
      BY LenProperties DEF OutlineInv, OutlineTypeOK
    <3>2. m \in 1 .. Len(frames) /\ p \in 0 .. Len(pending)
      <4>1. Innermost(id) \in 2 .. Len(frames)
        BY <2>2, InnermostIsInner
      <4>2. QED BY <3>1, <4>1
    <3>3. \A k \in 1 .. m : frames[k].start <= p
      BY <3>1, <3>2 DEF OutlineInv, FramesNest
    <3>4. frames' = SubSeq(frames, 1, m)
      BY <1>2, <2>2
    <3>5. pending' = SubSeq(pending, 1, p)
      <4>1. SubSeq(pending, 1, p) = pending
        BY <3>1, SubSeqFull
      <4>2. QED BY <1>2, <4>1
    <3> HIDE DEF m, p
    <3>6. /\ frames' \in Seq([name : Idents \cup {NoName}, start : Nat])
          /\ frames' # <<>>
          /\ pending' \in Seq(Nat \ {0})
          /\ FramesNest'
          /\ \A k \in DOMAIN frames' : frames'[k].name = NoName <=> k = 1
      BY <3>2, <3>3, <3>4, <3>5, CutFrames
    <3>7. "Control" \in Outcomes
      BY DEF Outcomes
    <3>8. OutlineTypeOK'
      BY <1>2, <3>6, <3>7, SettleOutcomes DEF OutlineInv, OutlineTypeOK
    <3>9. PassesAgree'
      BY <1>2, <3>6 DEF OutlineInv, PassesAgree
    <3>10. PendingIsTheBlock'
      <4>1. /\ \A j \in DOMAIN pending' :
                  pending'[j] \in DOMAIN outcomes' /\ outcomes'[pending'[j]] = "Committed"
            /\ \A j, k \in DOMAIN pending' : j < k => pending'[j] < pending'[k]
        BY <1>2, <3>7, KeepPending
      <4>2. QED BY <4>1, <3>6 DEF PendingIsTheBlock
    <3>11. QED BY <3>6, <3>8, <3>9, <3>10 DEF OutlineInv
  <2>3. QED BY <2>1, <2>2
<1>3. QED BY <1>1, <1>2 DEF ReleaseSavepoint

\* ROLLBACK TO preserves the invariant: frames and `pending' are cut together.
LEMMA RollbackToStep ==
    ASSUME OutlineInv, NEW id \in Sources, RollbackTo(id)
    PROVE  OutlineInv'
<1>1. CASE Refuse
  BY <1>1, RefuseStep
<1>2. CASE /\ blockOpen
           /\ Matching(id) = {}
           /\ Settle({}, "Control")
           /\ UNCHANGED <<frames, pending>>
           /\ UNCHANGED <<refused, blockOpen, openTx, nextTx>>
  BY <1>2, DropNoOpStep DEF DropNoOp
<1>3. CASE /\ blockOpen
           /\ Matching(id) # {}
           /\ LET start == frames[Innermost(id)].start
              IN  /\ Settle({pending[j] : j \in start + 1 .. Len(pending)}, "Undone")
                  /\ pending' = SubSeq(pending, 1, start)
                  /\ frames' = SubSeq(frames, 1, Innermost(id))
           /\ UNCHANGED <<refused, blockOpen, openTx, nextTx>>
  <2> DEFINE m == Innermost(id)
             p == frames[m].start
             settled == {pending[j] : j \in p + 1 .. Len(pending)}
  <2>1. /\ Len(frames) \in Nat
        /\ Len(pending) \in Nat
        /\ Len(outcomes) \in Nat
        /\ DOMAIN frames = 1 .. Len(frames)
        /\ DOMAIN pending = 1 .. Len(pending)
        /\ DOMAIN outcomes = 1 .. Len(outcomes)
    BY LenProperties DEF OutlineInv, OutlineTypeOK
  <2>2. m \in 1 .. Len(frames) /\ m \in DOMAIN frames
    <3>1. Innermost(id) \in 2 .. Len(frames)
      BY <1>3, InnermostIsInner
    <3>2. QED BY <2>1, <3>1
  <2>3. p \in Nat /\ p <= Len(pending)
    <3>1. frames[m] \in [name : Idents \cup {NoName}, start : Nat]
      BY <2>2, ElementOfSeq DEF OutlineInv, OutlineTypeOK
    <3>2. p <= Len(pending)
      BY <2>2 DEF OutlineInv, FramesNest
    <3>3. QED BY <3>1, <3>2
  <2>4. p \in 0 .. Len(pending)
    BY <2>1, <2>3
  <2>5. \A k \in 1 .. m : frames[k].start <= p
    <3>1. \A k \in 1 .. m : k \in DOMAIN frames /\ k <= m
      BY <2>1, <2>2
    <3>2. QED BY <2>2, <3>1 DEF OutlineInv, FramesNest
  <2>6. frames' = SubSeq(frames, 1, m) /\ pending' = SubSeq(pending, 1, p)
    BY <1>3
  <2>7. Settle(settled, "Undone")
    BY <1>3
  <2>8. \A j \in 1 .. p : pending[j] \notin settled
    <3>1. ASSUME NEW j \in 1 .. p, NEW k \in p + 1 .. Len(pending)
          PROVE  pending[j] # pending[k]
      <4>1. j \in DOMAIN pending /\ k \in DOMAIN pending /\ j < k
        BY <2>1, <2>3
      <4>2. pending[j] < pending[k]
        BY <4>1 DEF OutlineInv, PendingIsTheBlock
      <4>3. pending[j] \in Nat /\ pending[k] \in Nat
        BY <2>1, <4>1, ElementOfSeq DEF OutlineInv, OutlineTypeOK
      <4>4. QED BY <4>2, <4>3
    <3>2. QED BY <3>1
  <2> HIDE DEF m, p, settled
  <2>9. /\ frames' \in Seq([name : Idents \cup {NoName}, start : Nat])
        /\ frames' # <<>>
        /\ pending' \in Seq(Nat \ {0})
        /\ FramesNest'
        /\ \A k \in DOMAIN frames' : frames'[k].name = NoName <=> k = 1
        /\ DOMAIN pending' = 1 .. p
        /\ \A j \in 1 .. p : pending'[j] = pending[j]
    BY <2>2, <2>4, <2>5, <2>6, CutFrames
  <2>10. "Undone" \in Outcomes
    BY DEF Outcomes
  <2>11. /\ outcomes' \in Seq(Outcomes)
         /\ Len(outcomes') = Len(outcomes) + 1
         /\ \A i \in 1 .. Len(outcomes) :
               outcomes'[i] = IF i \in settled THEN "Undone" ELSE outcomes[i]
         /\ transactions' \in Seq(Nat \cup {NoTx})
         /\ Len(transactions') = Len(outcomes')
    BY <2>7, <2>10, SettleOutcomes DEF OutlineInv
  <2>12. OutlineTypeOK'
    BY <1>3, <2>9, <2>11 DEF OutlineInv, OutlineTypeOK
  <2>13. PassesAgree'
    BY <1>3, <2>9 DEF OutlineInv, PassesAgree
  <2>14. PendingIsTheBlock'
    <3>1. DOMAIN outcomes' = 1 .. Len(outcomes) + 1
      BY <2>11, LenProperties
    <3>2. ASSUME NEW j \in DOMAIN pending'
          PROVE  pending'[j] \in DOMAIN outcomes' /\ outcomes'[pending'[j]] = "Committed"
      <4>1. j \in 1 .. p /\ j \in DOMAIN pending /\ pending'[j] = pending[j]
        BY <2>1, <2>3, <2>9
      <4>2. pending[j] \in DOMAIN outcomes /\ outcomes[pending[j]] = "Committed"
        BY <4>1 DEF OutlineInv, PendingIsTheBlock
      <4>3. pending[j] \notin settled
        BY <2>8, <4>1
      <4>4. pending[j] \in 1 .. Len(outcomes) /\ pending[j] \in DOMAIN outcomes'
        BY <2>1, <3>1, <4>2
      <4>5. QED BY <2>11, <4>1, <4>2, <4>3, <4>4
    <3>3. \A j, k \in DOMAIN pending' : j < k => pending'[j] < pending'[k]
      <4>1. \A j \in 1 .. p : j \in DOMAIN pending
        BY <2>1, <2>3
      <4>2. QED BY <2>9, <4>1 DEF OutlineInv, PendingIsTheBlock
    <3>4. QED BY <2>9, <3>2, <3>3 DEF PendingIsTheBlock
  <2>15. QED BY <2>9, <2>12, <2>13, <2>14 DEF OutlineInv
<1>4. QED BY <1>1, <1>2, <1>3 DEF RollbackTo

\* Any other statement preserves the invariant: it is pending in a block only.
LEMMA RunStep ==
    ASSUME OutlineInv, Run
    PROVE  OutlineInv'
<1> DEFINE n == Len(outcomes)
<1>1. "Committed" \in Outcomes
  BY DEF Outcomes
<1>2. /\ n \in Nat
      /\ Len(pending) \in Nat
      /\ DOMAIN pending = 1 .. Len(pending)
      /\ DOMAIN outcomes = 1 .. n
  BY LenProperties DEF OutlineInv, OutlineTypeOK
<1>3. /\ outcomes' \in Seq(Outcomes)
      /\ Len(outcomes') = n + 1
      /\ DOMAIN outcomes' = 1 .. n + 1
      /\ outcomes'[n + 1] = "Committed"
      /\ \A i \in 1 .. n : outcomes'[i] = outcomes[i]
  BY <1>1, AppendProperties, LenProperties DEF Run, OutlineInv, OutlineTypeOK
<1>4. /\ transactions' \in Seq(Nat \cup {NoTx})
      /\ Len(transactions') = Len(transactions) + 1
  BY AppendProperties DEF Run, OutlineInv, OutlineTypeOK
<1>5. frames' = frames /\ refused' = refused /\ blockOpen' = blockOpen
      /\ openTx' = openTx /\ nextTx' = nextTx
  BY DEF Run
<1>6. CASE openTx = NoTx
  <2>1. pending' = pending
    BY <1>6 DEF Run
  <2>2. OutlineTypeOK'
    BY <1>3, <1>4, <1>5, <2>1 DEF OutlineInv, OutlineTypeOK
  <2>3. PassesAgree' /\ FramesNest'
    BY <1>5, <2>1 DEF OutlineInv, PassesAgree, FramesNest
  <2>4. \A i \in DOMAIN outcomes : i \in DOMAIN outcomes' /\ outcomes'[i] = outcomes[i]
    BY <1>2, <1>3
  <2>5. PendingIsTheBlock'
    BY <1>5, <2>1, <2>4 DEF OutlineInv, PendingIsTheBlock
  <2>6. QED BY <2>2, <2>3, <2>5 DEF OutlineInv
<1>7. CASE openTx # NoTx
  <2>1. n + 1 \in Nat \ {0}
    BY <1>2
  <2>2. /\ pending' \in Seq(Nat \ {0})
        /\ Len(pending') = Len(pending) + 1
        /\ DOMAIN pending' = 1 .. Len(pending) + 1
        /\ pending'[Len(pending) + 1] = n + 1
        /\ \A j \in 1 .. Len(pending) : pending'[j] = pending[j]
    BY <1>7, <2>1, AppendProperties, LenProperties DEF Run, OutlineInv, OutlineTypeOK
  <2>3. OutlineTypeOK'
    BY <1>3, <1>4, <1>5, <2>2 DEF OutlineInv, OutlineTypeOK
  <2>4. PassesAgree'
    BY <1>5, <1>7 DEF OutlineInv, PassesAgree
  <2>5. FramesNest'
    <3>1. ASSUME NEW k \in DOMAIN frames
          PROVE  frames[k].start <= Len(pending) + 1
      <4>1. frames[k].start <= Len(pending)
        BY DEF OutlineInv, FramesNest
      <4>2. frames[k] \in [name : Idents \cup {NoName}, start : Nat]
        BY ElementOfSeq, LenProperties DEF OutlineInv, OutlineTypeOK
      <4>3. frames[k].start \in Nat
        BY <4>2
      <4>4. QED BY <1>2, <4>1, <4>3
    <3>2. QED BY <1>5, <2>2, <3>1 DEF OutlineInv, FramesNest
  <2>6. PendingIsTheBlock'
    <3>1. ASSUME NEW j \in 1 .. Len(pending)
          PROVE  /\ pending[j] \in 1 .. n
                 /\ outcomes[pending[j]] = "Committed"
      BY <1>2 DEF OutlineInv, PendingIsTheBlock
    <3>2. ASSUME NEW j \in DOMAIN pending'
          PROVE  pending'[j] \in DOMAIN outcomes' /\ outcomes'[pending'[j]] = "Committed"
      <4>1. CASE j = Len(pending) + 1
        BY <1>2, <1>3, <2>2, <4>1
      <4>2. CASE j # Len(pending) + 1
        <5>1. j \in 1 .. Len(pending)
          BY <1>2, <2>2, <4>2
        <5>2. QED BY <1>2, <1>3, <2>2, <3>1, <5>1
      <4>3. QED BY <4>1, <4>2
    <3>3. ASSUME NEW j \in DOMAIN pending', NEW k \in DOMAIN pending', j < k
          PROVE  pending'[j] < pending'[k]
      <4>1. j \in 1 .. Len(pending)
        BY <1>2, <2>2, <3>3
      <4>2. CASE k = Len(pending) + 1
        <5>1. pending'[j] \in 1 .. n
          BY <2>2, <3>1, <4>1
        <5>2. QED BY <1>2, <2>2, <4>2, <5>1
      <4>3. CASE k # Len(pending) + 1
        <5>1. k \in 1 .. Len(pending)
          BY <1>2, <2>2, <4>3
        <5>2. QED BY <1>2, <2>2, <3>3, <4>1, <5>1 DEF OutlineInv, PendingIsTheBlock
      <4>4. QED BY <4>2, <4>3
    <3>4. QED BY <1>5, <3>2, <3>3 DEF OutlineInv, PendingIsTheBlock
  <2>7. QED BY <2>3, <2>4, <2>5, <2>6 DEF OutlineInv
<1>8. QED BY <1>6, <1>7

-----------------------------------------------------------------------------
(* The invariant, and what follows from it.                                *)

\* One statement read by both passes preserves the invariant.
LEMMA OutlineStep ==
    ASSUME OutlineInv, OutlineNext
    PROVE  OutlineInv'
<1>1. CASE Begin
  BY <1>1, BeginStep
<1>2. CASE Run
  BY <1>2, RunStep
<1>3. CASE CreateIndexConcurrently
  BY <1>3, RunStep, RefuseStep DEF CreateIndexConcurrently
<1>4. CASE \E chain \in BOOLEAN : Commit(chain) \/ Rollback(chain)
  <2>1. "Committed" \in Outcomes /\ "Undone" \in Outcomes
    BY DEF Outcomes
  <2>2. QED BY <1>4, <2>1, EndBlockStep DEF Commit, Rollback
<1>5. CASE \E id \in Sources : Savepoint(id) \/ ReleaseSavepoint(id) \/ RollbackTo(id)
  BY <1>5, SavepointStep, ReleaseStep, RollbackToStep
<1>6. QED BY <1>1, <1>2, <1>3, <1>4, <1>5 DEF OutlineNext

\* Before the first statement.
LEMMA OutlineStarts ==
    ASSUME OutlineInit
    PROVE  OutlineInv
<1>1. OutlineTypeOK
  <2>1. \A S : <<>> \in Seq(S) /\ Len(<<>>) = 0
    BY EmptySeq
  <2>2. refused \in BOOLEAN /\ blockOpen \in BOOLEAN
    BY DEF OutlineInit
  <2>3. openTx \in Nat \cup {NoTx} /\ nextTx \in Nat
    BY DEF OutlineInit
  <2>4. /\ outcomes \in Seq(Outcomes)
        /\ transactions \in Seq(Nat \cup {NoTx})
        /\ Len(transactions) = Len(outcomes)
        /\ frames \in Seq([name : Idents \cup {NoName}, start : Nat])
        /\ pending \in Seq(Nat \ {0})
    BY <2>1, Zenon DEF OutlineInit
  <2>5. QED BY <2>2, <2>3, <2>4 DEF OutlineTypeOK
<1>2. PassesAgree /\ FramesNest /\ PendingIsTheBlock
  BY DEF OutlineInit, PassesAgree, FramesNest, PendingIsTheBlock
<1>3. QED BY <1>1, <1>2 DEF OutlineInv

\* The invariant of the two loops (analyse and Outline::new) holds after any
\* number of statements, whatever names the batch uses.
THEOREM OutlineInvariant == OutlineSpec => []OutlineInv
<1>1. OutlineInit => OutlineInv
  BY OutlineStarts
<1>2. ASSUME OutlineInv, [OutlineNext]_outlineVars
      PROVE  OutlineInv'
  <2>1. CASE OutlineNext
    BY <1>2, <2>1, OutlineStep
  <2>2. CASE UNCHANGED outlineVars
    BY <1>2, <2>2 DEF outlineVars, OutlineInv, OutlineTypeOK, PassesAgree, FramesNest,
       PendingIsTheBlock
  <2>3. QED BY <1>2, <2>1, <2>2
<1>3. QED BY <1>1, <1>2, PTL DEF OutlineSpec

\* Type correctness of both passes.
THEOREM OutlineTypeCorrect == OutlineSpec => []OutlineTypeOK
<1>1. OutlineInv => OutlineTypeOK
  BY DEF OutlineInv
<1>2. QED BY <1>1, OutlineInvariant, PTL

\* The pass that drops or refuses statements (analyse) and the pass that
\* decides what survives (Outline::new) never disagree on whether a block is
\* open, although the second never looks at the first one's flag.
THEOREM PassesAlwaysAgree == OutlineSpec => []PassesAgree
<1>1. OutlineInv => PassesAgree
  BY DEF OutlineInv
<1>2. QED BY <1>1, OutlineInvariant, PTL

\* Draining `pending' at a savepoint's start is always in range, and frames
\* nest (Outline::new, ROLLBACK TO).
THEOREM FramesAlwaysNest == OutlineSpec => []FramesNest
<1>1. OutlineInv => FramesNest
  BY DEF OutlineInv
<1>2. QED BY <1>1, OutlineInvariant, PTL

\* What `pending' holds is the open block: statements already read, in order,
\* none of them undone (Outline::new, COMMIT, ROLLBACK and ROLLBACK TO).
THEOREM PendingAlwaysTheBlock == OutlineSpec => []PendingIsTheBlock
<1>1. OutlineInv => PendingIsTheBlock
  BY DEF OutlineInv
<1>2. QED BY <1>1, OutlineInvariant, PTL

-----------------------------------------------------------------------------
(* The outline implements the server.                                      *)

\* same_name compares two identifiers the way the server's folding does.
LEMMA SameNameIsFold ==
    ASSUME NEW a \in Idents, NEW b \in Idents
    PROVE  SameName(a, b) <=> ServerFold[a] = ServerFold[b]
<1>1. a.quoted \in BOOLEAN /\ b.quoted \in BOOLEAN
  BY DEF Idents
<1>2. /\ ServerFold[a] = IF a.quoted THEN a.value ELSE Lower[a.value]
      /\ ServerFold[b] = IF b.quoted THEN b.value ELSE Lower[b.value]
  BY DEF ServerFold
<1>3. QED BY <1>1, <1>2 DEF SameName

\* What is visible is what is committed and what the open block did.
LEMMA VisibleSplit ==
    ASSUME OutlineInv
    PROVE  /\ CommittedSet = VisibleSet \ Range(pending)
           /\ Range(pending) = {pending[j] : j \in 1 .. Len(pending)}
           /\ Range(pending) \subseteq VisibleSet
           /\ VisibleSet \subseteq 1 .. Len(outcomes)
<1>1. /\ DOMAIN outcomes = 1 .. Len(outcomes)
      /\ DOMAIN pending = 1 .. Len(pending)
  BY LenProperties DEF OutlineInv, OutlineTypeOK
<1>2. Range(pending) = {pending[j] : j \in DOMAIN pending}
  BY DEF Range
<1>3. Range(pending) \subseteq VisibleSet
  BY <1>2 DEF VisibleSet, OutlineInv, PendingIsTheBlock
<1>4. CommittedSet = VisibleSet \ Range(pending)
  BY DEF CommittedSet, VisibleSet, Outcome
<1>5. QED BY <1>1, <1>2, <1>3, <1>4 DEF VisibleSet

\* A function on the first n positions is a sequence.
LEMMA FunctionIsSequence ==
    ASSUME NEW S, NEW n \in Nat, NEW f \in [1 .. n -> S]
    PROVE  f \in Seq(S)
BY SeqDef, Zenon

\* The savepoints the frames stand for, as a sequence.
LEMMA MarksSequence ==
    ASSUME OutlineInv, frames # <<>>
    PROVE  /\ FrameMarks \in Seq([name : Values, kept : SUBSET Nat])
           /\ Len(FrameMarks) = Len(frames) - 1
           /\ DOMAIN FrameMarks = 1 .. Len(frames) - 1
           /\ \A k \in 1 .. Len(frames) - 1 :
                 FrameMarks[k] =
                   [name |-> ServerFold[frames[k + 1].name],
                    kept |-> CommittedSet \cup {pending[j] : j \in 1 .. frames[k + 1].start}]
<1> DEFINE m == Len(frames) - 1
           e(k) == [name |-> ServerFold[frames[k + 1].name],
                    kept |-> CommittedSet \cup {pending[j] : j \in 1 .. frames[k + 1].start}]
<1>1. /\ Len(frames) \in Nat
      /\ Len(pending) \in Nat
      /\ Len(outcomes) \in Nat
      /\ DOMAIN frames = 1 .. Len(frames)
      /\ frames \in Seq([name : Idents \cup {NoName}, start : Nat])
      /\ pending \in Seq(Nat \ {0})
  BY LenProperties DEF OutlineInv, OutlineTypeOK
<1>2. m \in Nat
  <2>1. Len(frames) # 0
    BY <1>1, EmptySeq
  <2>2. QED BY <1>1, <2>1
<1>3. ASSUME NEW k \in 1 .. m
      PROVE  e(k) \in [name : Values, kept : SUBSET Nat]
  <2>1. k + 1 \in DOMAIN frames /\ k + 1 # 1
    BY <1>1, <1>2
  <2>2. frames[k + 1] \in [name : Idents \cup {NoName}, start : Nat]
    BY <1>1, <2>1, ElementOfSeq
  <2>3. frames[k + 1].name \in Idents
    BY <2>1, <2>2 DEF OutlineInv, PendingIsTheBlock
  <2>4. ServerFold[frames[k + 1].name] \in Values
    BY <2>3, NamesAssumption DEF ServerFold, Idents
  <2>5. CommittedSet \subseteq Nat
    <3>1. VisibleSet \subseteq 1 .. Len(outcomes) /\ CommittedSet \subseteq VisibleSet
      BY VisibleSplit
    <3>2. 1 .. Len(outcomes) \subseteq Nat
      BY <1>1
    <3>3. QED BY <3>1, <3>2
  <2>6. \A j \in 1 .. frames[k + 1].start : pending[j] \in Nat
    <3>1. frames[k + 1].start \in Nat /\ frames[k + 1].start <= Len(pending)
      BY <2>1, <2>2 DEF OutlineInv, FramesNest
    <3>2. \A j \in 1 .. frames[k + 1].start : j \in 1 .. Len(pending)
      BY <1>1, <3>1
    <3>3. QED BY <1>1, <3>2, ElementOfSeq
  <2>7. QED BY <2>4, <2>5, <2>6
<1>4. FrameMarks = [k \in 1 .. m |-> e(k)]
  BY DEF FrameMarks
<1> HIDE DEF m, e
<1>5. FrameMarks \in [1 .. m -> [name : Values, kept : SUBSET Nat]]
  BY <1>3, <1>4
<1>6. FrameMarks \in Seq([name : Values, kept : SUBSET Nat])
  BY <1>2, <1>5, FunctionIsSequence, Zenon
<1>7. DOMAIN FrameMarks = 1 .. m /\ \A k \in 1 .. m : FrameMarks[k] = e(k)
  BY <1>4
<1>8. Len(FrameMarks) = m
  BY <1>2, <1>6, <1>7, LenProperties
<1>9. QED BY <1>6, <1>7, <1>8 DEF m, e

\* A name answers to the same savepoint here and on the server.
LEMMA InnermostMark ==
    ASSUME OutlineInv, NEW id \in Sources, Matching(id) # {}
    PROVE  /\ Server!Marked(id) # {}
           /\ Server!InnermostMark(id) = Innermost(id) - 1
<1> DEFINE m == Innermost(id) - 1
<1>1. /\ Innermost(id) \in 2 .. Len(frames)
      /\ Innermost(id) \in Matching(id)
      /\ \A q \in Matching(id) : q <= Innermost(id)
  BY InnermostIsInner, InnermostMatches DEF OutlineInv
<1>2. /\ Len(frames) \in Nat
      /\ DOMAIN frames = 1 .. Len(frames)
      /\ frames \in Seq([name : Idents \cup {NoName}, start : Nat])
  BY LenProperties DEF OutlineInv, OutlineTypeOK
<1>3. frames # <<>>
  BY <1>1, <1>2, EmptySeq
<1>4. ASSUME NEW k \in 1 .. Len(frames) - 1
      PROVE  FrameMarks[k].name = ServerFold[id] <=> k + 1 \in Matching(id)
  <2>1. k + 1 \in DOMAIN frames /\ k + 1 # 1
    BY <1>2
  <2>2. frames[k + 1] \in [name : Idents \cup {NoName}, start : Nat]
    BY <1>2, <2>1, ElementOfSeq
  <2>3. frames[k + 1].name \in Idents /\ frames[k + 1].name # NoName
    BY <2>1, <2>2 DEF OutlineInv, PendingIsTheBlock
  <2>4. SameName(frames[k + 1].name, id) <=> ServerFold[frames[k + 1].name] = ServerFold[id]
    BY <2>3, SameNameIsFold, NamesAssumption
  <2>5. FrameMarks[k].name = ServerFold[frames[k + 1].name]
    BY <1>3, MarksSequence
  <2>6. QED BY <2>1, <2>3, <2>4, <2>5 DEF Matching
<1>5. Server!Marked(id) = {k \in 1 .. Len(frames) - 1 : FrameMarks[k].name = ServerFold[id]}
  BY <1>3, MarksSequence DEF Server!Marked
<1>6. m \in Server!Marked(id)
  <2>1. m \in 1 .. Len(frames) - 1 /\ m + 1 = Innermost(id)
    BY <1>1, <1>2
  <2>2. QED BY <1>1, <1>4, <1>5, <2>1
<1>7. \A q \in Server!Marked(id) : q \in Nat /\ q <= m
  <2>1. TAKE q \in Server!Marked(id)
  <2>2. q \in 1 .. Len(frames) - 1 /\ q + 1 \in Matching(id)
    BY <1>4, <1>5
  <2>3. q + 1 <= Innermost(id)
    BY <1>1, <2>2
  <2>4. QED BY <1>1, <1>2, <2>2, <2>3
<1> HIDE DEF m
<1>8. m \in Nat
  BY <1>6, <1>7
<1>9. Server!InnermostMark(id) \in Server!Marked(id)
      /\ \A q \in Server!Marked(id) : q <= Server!InnermostMark(id)
  BY <1>6, <1>7 DEF Server!InnermostMark
<1>10. Server!InnermostMark(id) = m
  <2>1. Server!InnermostMark(id) \in Nat /\ Server!InnermostMark(id) <= m
    BY <1>7, <1>9
  <2>2. m <= Server!InnermostMark(id)
    BY <1>6, <1>9
  <2> HIDE DEF Server!InnermostMark
  <2>3. QED BY <1>8, <2>1, <2>2
<1>11. QED BY <1>6, <1>10 DEF m

\* A control statement that settles `settled' as `outcome'.
LEMMA SettleVisible ==
    ASSUME OutlineInv, NEW settled \in SUBSET VisibleSet, NEW outcome \in Outcomes,
           Settle(settled, outcome)
    PROVE  /\ Len(outcomes') = Len(outcomes) + 1
           /\ outcome = "Committed" => VisibleSet' = VisibleSet
           /\ outcome = "Undone" => VisibleSet' = VisibleSet \ settled
           /\ settled = {} => VisibleSet' = VisibleSet
<1>1. /\ outcomes' \in Seq(Outcomes)
      /\ Len(outcomes') = Len(outcomes) + 1
      /\ outcomes'[Len(outcomes) + 1] = "Control"
      /\ \A i \in 1 .. Len(outcomes) :
            outcomes'[i] = IF i \in settled THEN outcome ELSE outcomes[i]
  BY SettleOutcomes DEF OutlineInv
<1>2. DOMAIN outcomes = 1 .. Len(outcomes) /\ Len(outcomes) \in Nat
  BY LenProperties DEF OutlineInv, OutlineTypeOK
<1>3. DOMAIN outcomes' = 1 .. Len(outcomes) + 1
  BY <1>1, LenProperties
<1>4. DOMAIN outcomes' = DOMAIN outcomes \cup {Len(outcomes) + 1}
  BY <1>2, <1>3
<1>5. VisibleSet' = {i \in DOMAIN outcomes : outcomes'[i] = "Committed"}
  <2>1. "Control" # "Committed"
    OBVIOUS
  <2>2. VisibleSet' = {i \in DOMAIN outcomes' : outcomes'[i] = "Committed"}
    BY DEF VisibleSet
  <2>3. QED BY <1>1, <1>4, <2>1, <2>2, Zenon
<1>6. \A i \in DOMAIN outcomes : i \notin settled => outcomes'[i] = outcomes[i]
  BY <1>1, <1>2
<1>7. \A i \in settled : i \in DOMAIN outcomes /\ outcomes[i] = "Committed"
                         /\ outcomes'[i] = outcome
  BY <1>1, <1>2 DEF VisibleSet
<1>8. outcome = "Committed" => VisibleSet' = VisibleSet
  BY <1>5, <1>6, <1>7 DEF VisibleSet
<1>9. outcome = "Undone" => VisibleSet' = VisibleSet \ settled
  <2>1. "Undone" # "Committed"
    OBVIOUS
  <2>2. QED BY <1>5, <1>6, <1>7, <2>1 DEF VisibleSet
<1>10. settled = {} => VisibleSet' = VisibleSet
  BY <1>5, <1>6 DEF VisibleSet
<1>11. QED BY <1>1, <1>8, <1>9, <1>10

\* What a control statement that touches no pending statement leaves alone.
LEMMA QuietControl ==
    ASSUME OutlineInv, OutlineInv', Settle({}, "Control"), pending' = pending
    PROVE  /\ Len(outcomes') = Len(outcomes) + 1
           /\ VisibleSet' = VisibleSet
           /\ CommittedSet' = CommittedSet
<1>1. "Control" \in Outcomes
  BY DEF Outcomes
<1>2. Len(outcomes') = Len(outcomes) + 1 /\ VisibleSet' = VisibleSet
  BY <1>1, SettleVisible
<1>3. CommittedSet' = VisibleSet' \ Range(pending')
  BY DEF CommittedSet, VisibleSet, Outcome
<1>4. CommittedSet = VisibleSet \ Range(pending)
  BY VisibleSplit
<1>5. QED BY <1>2, <1>3, <1>4

\* The savepoints of the first m frames, when those frames, what they keep of
\* `pending' and the committed statements stay as they are.
LEMMA MarksPrefix ==
    ASSUME OutlineInv, OutlineInv', frames # <<>>, NEW m \in 1 .. Len(frames),
           frames' = SubSeq(frames, 1, m),
           CommittedSet' = CommittedSet,
           \A k \in 1 .. m : \A j \in 1 .. frames[k].start : pending'[j] = pending[j]
    PROVE  FrameMarks' = SubSeq(FrameMarks, 1, m - 1)
<1> DEFINE T == [name : Values, kept : SUBSET Nat]
<1>1. Len(frames) \in Nat /\ frames \in Seq([name : Idents \cup {NoName}, start : Nat])
  BY DEF OutlineInv, OutlineTypeOK
<1>2. m \in 0 .. Len(frames) /\ m - 1 \in 0 .. Len(frames) - 1
  BY <1>1
<1>3. Len(frames') = m /\ \A k \in 1 .. m : frames'[k] = frames[k]
  BY <1>1, <1>2, PrefixProperties
<1>4. frames' # <<>>
  BY <1>2, <1>3, EmptySeq
<1>5. /\ FrameMarks \in Seq(T)
      /\ Len(FrameMarks) = Len(frames) - 1
      /\ \A k \in 1 .. Len(frames) - 1 :
            FrameMarks[k] =
              [name |-> ServerFold[frames[k + 1].name],
               kept |-> CommittedSet \cup {pending[j] : j \in 1 .. frames[k + 1].start}]
  BY MarksSequence
<1>6. FrameMarks' =
        [k \in 1 .. m - 1 |->
           [name |-> ServerFold[frames'[k + 1].name],
            kept |-> CommittedSet' \cup {pending'[j] : j \in 1 .. frames'[k + 1].start}]]
  BY <1>3, <1>4 DEF FrameMarks, ServerFold
<1>7. /\ DOMAIN SubSeq(FrameMarks, 1, m - 1) = 1 .. m - 1
      /\ \A k \in 1 .. m - 1 : SubSeq(FrameMarks, 1, m - 1)[k] = FrameMarks[k]
      /\ SubSeq(FrameMarks, 1, m - 1) \in Seq(T)
      /\ Len(SubSeq(FrameMarks, 1, m - 1)) = m - 1
  <2>1. m - 1 \in 0 .. Len(FrameMarks)
    BY <1>2, <1>5
  <2> HIDE DEF T
  <2>2. QED BY <1>5, <2>1, PrefixProperties
<1>8. ASSUME NEW k \in 1 .. m - 1
      PROVE  FrameMarks'[k] = FrameMarks[k]
  <2>1. k + 1 \in 1 .. m /\ k \in 1 .. Len(frames) - 1
    BY <1>1
  <2>2. FrameMarks'[k] =
          [name |-> ServerFold[frames'[k + 1].name],
           kept |-> CommittedSet' \cup {pending'[j] : j \in 1 .. frames'[k + 1].start}]
    BY <1>6
  <2>3. frames'[k + 1] = frames[k + 1]
    BY <1>3, <2>1
  <2>4. {pending'[j] : j \in 1 .. frames[k + 1].start}
          = {pending[j] : j \in 1 .. frames[k + 1].start}
    BY <2>1
  <2>5. QED BY <1>5, <2>1, <2>2, <2>3, <2>4
<1>9. FrameMarks' = [k \in 1 .. m - 1 |-> FrameMarks[k]]
  <2>1. DOMAIN FrameMarks' = 1 .. m - 1
    BY <1>6
  <2>2. FrameMarks' = [k \in 1 .. m - 1 |-> FrameMarks'[k]]
    BY <1>6, <2>1
  <2>3. QED BY <1>8, <2>2
<1>10. SubSeq(FrameMarks, 1, m - 1) = [k \in 1 .. m - 1 |-> FrameMarks[k]]
  <2> HIDE DEF T
  <2>1. SubSeq(FrameMarks, 1, m - 1)
          = [k \in 1 .. m - 1 |-> SubSeq(FrameMarks, 1, m - 1)[k]]
    BY <1>7, SeqDef
  <2>2. QED BY <1>7, <2>1
<1>11. QED BY <1>9, <1>10

\* Frames and pending statements as they were: so are the savepoints.
LEMMA MarksKept ==
    ASSUME frames' = frames, pending' = pending, CommittedSet' = CommittedSet
    PROVE  FrameMarks' = FrameMarks
<1>1. FrameMarks' =
        [k \in 1 .. (IF frames' = <<>> THEN 0 ELSE Len(frames') - 1) |->
           [name |-> ServerFold[frames'[k + 1].name],
            kept |-> CommittedSet' \cup {pending'[j] : j \in 1 .. frames'[k + 1].start}]]
  BY DEF FrameMarks, ServerFold
<1>2. QED BY <1>1 DEF FrameMarks

\* A function on no positions is the empty sequence.
LEMMA EmptyFunction ==
    ASSUME NEW f, f = [k \in 1 .. 0 |-> f[k]]
    PROVE  f = <<>>
<1>1. 1 .. 0 = {}
  OBVIOUS
<1>2. f \in [1 .. 0 -> {}]
  BY <1>1
<1>3. f \in Seq({}) /\ DOMAIN f = 1 .. 0
  BY <1>2, SeqDef
<1>4. Len(f) = 0
  BY <1>3, LenProperties
<1>5. QED BY <1>3, <1>4, EmptySeq

\* Outside a block, and right after one opens, there is no savepoint.
LEMMA NoMarks ==
    ASSUME frames = <<>> \/ frames = <<BlockFrame>>
    PROVE  FrameMarks = <<>>
<1>1. (IF frames = <<>> THEN 0 ELSE Len(frames) - 1) = 0
  OBVIOUS
<1>2. FrameMarks = [k \in 1 .. 0 |-> FrameMarks[k]]
  BY <1>1 DEF FrameMarks
<1>3. QED BY <1>2, EmptyFunction

\* The same, for the state after a step.
LEMMA NoMarksNext ==
    ASSUME frames' = <<>> \/ frames' = <<BlockFrame>>
    PROVE  FrameMarks' = <<>>
<1>1. (IF frames' = <<>> THEN 0 ELSE Len(frames') - 1) = 0
  OBVIOUS
<1>2. FrameMarks' = [k \in 1 .. 0 |-> FrameMarks'[k]]
  BY <1>1 DEF FrameMarks
<1>3. QED BY <1>2, EmptyFunction

\* A refusal changes nothing the server sees.
LEMMA RefuseIsStutter ==
    ASSUME Refuse
    PROVE  UNCHANGED Server!serverVars
<1>1. /\ outcomes' = outcomes
      /\ pending' = pending
      /\ frames' = frames
      /\ blockOpen' = blockOpen
  BY DEF Refuse
<1>2. VisibleSet' = VisibleSet /\ CommittedSet' = CommittedSet
  BY <1>1 DEF VisibleSet, CommittedSet, Outcome
<1>3. FrameMarks' = FrameMarks
  BY <1>1, <1>2, MarksKept
<1>4. QED BY <1>1, <1>2, <1>3 DEF Server!serverVars

\* A dropped BEGIN, COMMIT or ROLLBACK is one the server only warns about.
LEMMA DropIsServerNoOp ==
    ASSUME OutlineInv, OutlineInv', DropNoOp
    PROVE  IF blockOpen THEN Server!ServerBegin ELSE Server!ServerIdleEnd
<1>1. /\ Len(outcomes') = Len(outcomes) + 1
      /\ VisibleSet' = VisibleSet
      /\ CommittedSet' = CommittedSet
  BY QuietControl DEF DropNoOp
<1>2. FrameMarks' = FrameMarks
  BY <1>1, MarksKept DEF DropNoOp
<1>3. blockOpen' = blockOpen /\ blockOpen \in BOOLEAN
  BY DEF DropNoOp, OutlineInv, OutlineTypeOK
<1>4. CASE blockOpen = TRUE
  BY <1>1, <1>2, <1>3, <1>4 DEF Server!ServerBegin, Server!ServerTick
<1>5. CASE blockOpen = FALSE
  BY <1>1, <1>2, <1>3, <1>5 DEF Server!ServerIdleEnd, Server!ServerTick
<1>6. QED BY <1>3, <1>4, <1>5

\* BEGIN is the server's BEGIN (Outline::new, StartTransaction).
LEMMA BeginImplements ==
    ASSUME OutlineInv, OutlineInv', Begin
    PROVE  Server!ServerBegin
<1>1. CASE blockOpen /\ DropNoOp
  BY <1>1, DropIsServerNoOp
<1>2. CASE /\ ~blockOpen
           /\ blockOpen' = TRUE
           /\ Settle({}, "Control")
           /\ frames' = Append(frames, BlockFrame)
           /\ UNCHANGED <<refused, pending>>
  <2>1. /\ Len(outcomes') = Len(outcomes) + 1
        /\ VisibleSet' = VisibleSet
        /\ CommittedSet' = CommittedSet
    BY <1>2, QuietControl
  <2>2. frames = <<>>
    BY <1>2 DEF OutlineInv, PassesAgree
  <2>3. frames' = <<BlockFrame>>
    BY <1>2, <2>2
  <2>4. FrameMarks' = FrameMarks
    BY <2>2, <2>3, NoMarks, NoMarksNext
  <2>5. QED BY <1>2, <2>1, <2>4 DEF Server!ServerBegin, Server!ServerTick
<1>3. QED BY <1>1, <1>2 DEF Begin

\* Ending a block: its statements become committed, or are no longer visible.
LEMMA EndBlockImplements ==
    ASSUME OutlineInv, OutlineInv', NEW chain \in BOOLEAN,
           NEW outcome \in {"Committed", "Undone"},
           blockOpen, blockOpen' = chain,
           Settle(Range(pending), outcome), pending' = <<>>,
           frames' = IF chain THEN <<BlockFrame>> ELSE <<>>
    PROVE  /\ outcome = "Committed" => Server!ServerCommit(chain)
           /\ outcome = "Undone" => Server!ServerRollback(chain)
<1>1. outcome \in Outcomes /\ Range(pending) \in SUBSET VisibleSet
  BY VisibleSplit DEF Outcomes
<1>2. /\ Len(outcomes') = Len(outcomes) + 1
      /\ outcome = "Committed" => VisibleSet' = VisibleSet
      /\ outcome = "Undone" => VisibleSet' = VisibleSet \ Range(pending)
  BY <1>1, SettleVisible
<1>3. CommittedSet' = VisibleSet'
  <2>1. CommittedSet' = VisibleSet' \ Range(pending')
    BY DEF CommittedSet, VisibleSet, Outcome
  <2>2. Range(pending') = {}
    BY DEF Range
  <2>3. QED BY <2>1, <2>2
<1>4. CommittedSet = VisibleSet \ Range(pending)
  BY VisibleSplit
<1>5. FrameMarks' = <<>>
  BY NoMarksNext
<1>6. outcome = "Committed" => Server!ServerCommit(chain)
  BY <1>2, <1>3, <1>5 DEF Server!ServerCommit, Server!ServerTick
<1>7. outcome = "Undone" => Server!ServerRollback(chain)
  BY <1>2, <1>3, <1>4, <1>5 DEF Server!ServerRollback, Server!ServerTick
<1>8. QED BY <1>6, <1>7

\* An ordinary statement is the server's, in a block and outside one.
LEMMA RunImplements ==
    ASSUME OutlineInv, OutlineInv', Run
    PROVE  Server!ServerRun
<1> DEFINE n == Len(outcomes)
<1>1. /\ n \in Nat
      /\ DOMAIN outcomes = 1 .. n
      /\ Len(pending) \in Nat
      /\ DOMAIN pending = 1 .. Len(pending)
  BY LenProperties DEF OutlineInv, OutlineTypeOK
<1>2. /\ Len(outcomes') = n + 1
      /\ outcomes'[n + 1] = "Committed"
      /\ \A i \in 1 .. n : outcomes'[i] = outcomes[i]
      /\ outcomes' \in Seq(Outcomes)
  <2>1. "Committed" \in Outcomes
    BY DEF Outcomes
  <2>2. QED BY <2>1, AppendProperties DEF Run, OutlineInv, OutlineTypeOK
<1>3. DOMAIN outcomes' = DOMAIN outcomes \cup {n + 1} /\ n + 1 \notin DOMAIN outcomes
  <2>1. DOMAIN outcomes' = 1 .. n + 1
    BY <1>2, LenProperties
  <2>2. QED BY <1>1, <2>1
<1>4. VisibleSet' = VisibleSet \cup {n + 1}
  <2>1. VisibleSet' = {i \in DOMAIN outcomes' : outcomes'[i] = "Committed"}
    BY DEF VisibleSet
  <2>2. \A i \in DOMAIN outcomes : outcomes'[i] = outcomes[i]
    BY <1>1, <1>2
  <2> HIDE DEF n
  <2>3. QED BY <1>2, <1>3, <2>1, <2>2, Zenon DEF VisibleSet
<1>5. /\ CommittedSet' = VisibleSet' \ Range(pending')
      /\ CommittedSet = VisibleSet \ Range(pending)
      /\ n + 1 \notin Range(pending)
      /\ n + 1 \notin VisibleSet
  <2>1. CommittedSet' = VisibleSet' \ Range(pending')
    BY DEF CommittedSet, VisibleSet, Outcome
  <2>2. Range(pending) \subseteq VisibleSet /\ VisibleSet \subseteq 1 .. n
    BY VisibleSplit
  <2>3. n + 1 \notin 1 .. n
    BY <1>1
  <2>4. QED BY <2>1, <2>2, <2>3, VisibleSplit
<1>6. frames' = frames /\ blockOpen' = blockOpen /\ blockOpen \in BOOLEAN
  BY DEF Run, OutlineInv, OutlineTypeOK
<1>7. CASE blockOpen
  <2>1. openTx # NoTx /\ frames # <<>>
    BY <1>7 DEF OutlineInv, PassesAgree
  <2>2. /\ Len(pending') = Len(pending) + 1
        /\ DOMAIN pending' = 1 .. Len(pending) + 1
        /\ pending'[Len(pending) + 1] = n + 1
        /\ \A j \in 1 .. Len(pending) : pending'[j] = pending[j]
    <3>1. n + 1 \in Nat \ {0}
      BY <1>1
    <3>2. QED BY <2>1, <3>1, AppendProperties, LenProperties
          DEF Run, OutlineInv, OutlineTypeOK
  <2>3. Range(pending') = Range(pending) \cup {n + 1}
    <3>1. DOMAIN pending' = DOMAIN pending \cup {Len(pending) + 1}
      BY <1>1, <2>2
    <3>2. \A j \in DOMAIN pending : pending'[j] = pending[j]
      BY <1>1, <2>2
    <3> HIDE DEF n
    <3>3. QED BY <2>2, <3>1, <3>2 DEF Range
  <2>4. CommittedSet' = CommittedSet
    BY <1>4, <1>5, <2>3
  <2>5. FrameMarks' = FrameMarks
    <3>1. Len(frames) \in Nat /\ frames \in Seq([name : Idents \cup {NoName}, start : Nat])
          /\ DOMAIN frames = 1 .. Len(frames)
      BY LenProperties DEF OutlineInv, OutlineTypeOK
    <3>2. Len(frames) \in 1 .. Len(frames)
      <4>1. Len(frames) # 0
        BY <2>1, <3>1, EmptySeq
      <4>2. QED BY <3>1, <4>1
    <3>3. frames' = SubSeq(frames, 1, Len(frames))
      BY <1>6, <3>1, SubSeqFull
    <3>4. ASSUME NEW k \in 1 .. Len(frames), NEW j \in 1 .. frames[k].start
          PROVE  pending'[j] = pending[j]
      <4>1. frames[k].start <= Len(pending)
        BY <3>1 DEF OutlineInv, FramesNest
      <4>2. frames[k].start \in Nat
        <5>1. frames[k] \in [name : Idents \cup {NoName}, start : Nat]
          BY <3>1, ElementOfSeq
        <5>2. QED BY <5>1
      <4>3. j \in 1 .. Len(pending)
        BY <1>1, <4>1, <4>2
      <4>4. QED BY <2>2, <4>3
    <3>5. FrameMarks' = SubSeq(FrameMarks, 1, Len(frames) - 1)
      BY <2>1, <2>4, <3>2, <3>3, <3>4, MarksPrefix
    <3>6. SubSeq(FrameMarks, 1, Len(frames) - 1) = FrameMarks
      <4>1. FrameMarks \in Seq([name : Values, kept : SUBSET Nat])
            /\ Len(FrameMarks) = Len(frames) - 1
        BY <2>1, MarksSequence
      <4>2. QED BY <4>1, SubSeqFull
    <3>7. QED BY <3>5, <3>6
  <2>6. QED BY <1>2, <1>4, <1>6, <1>7, <2>4, <2>5 DEF Server!ServerRun, Server!ServerTick
<1>8. CASE ~blockOpen
  <2>1. openTx = NoTx /\ frames = <<>> /\ pending = <<>>
    BY <1>8 DEF OutlineInv, PassesAgree
  <2>2. pending' = pending
    BY <2>1 DEF Run
  <2>3. CommittedSet' = CommittedSet \cup {n + 1}
    BY <1>4, <1>5, <2>2
  <2>4. FrameMarks' = FrameMarks
    BY <1>6, <2>1, NoMarks, NoMarksNext
  <2>5. QED BY <1>2, <1>4, <1>6, <1>8, <2>3, <2>4 DEF Server!ServerRun, Server!ServerTick
<1>9. QED BY <1>7, <1>8

\* A sequence is the function of its positions.
LEMMA SequenceIsFunction ==
    ASSUME NEW S, NEW s \in Seq(S)
    PROVE  s = [k \in 1 .. Len(s) |-> s[k]]
  BY LenProperties

\* SAVEPOINT is the server's: the frame's start stands for what it saw.
LEMMA SavepointImplements ==
    ASSUME OutlineInv, OutlineInv', NEW id \in Sources, blockOpen,
           Settle({}, "Control"),
           frames' = Append(frames, [name |-> id, start |-> Len(pending)]),
           UNCHANGED <<refused, blockOpen, pending, openTx, nextTx>>
    PROVE  Server!ServerSavepoint(id)
<1> DEFINE n == Len(frames)
           new == [name |-> ServerFold[id], kept |-> VisibleSet]
           T == [name : Values, kept : SUBSET Nat]
<1>1. /\ Len(outcomes') = Len(outcomes) + 1
      /\ VisibleSet' = VisibleSet
      /\ CommittedSet' = CommittedSet
  BY QuietControl
<1>2. frames # <<>> /\ n \in Nat
      /\ frames \in Seq([name : Idents \cup {NoName}, start : Nat])
  BY DEF OutlineInv, OutlineTypeOK, PassesAgree
<1>3. n >= 1
  BY <1>2, EmptySeq
<1>4. /\ Len(frames') = n + 1
      /\ frames'[n + 1] = [name |-> id, start |-> Len(pending)]
      /\ \A k \in 1 .. n : frames'[k] = frames[k]
      /\ frames' # <<>>
  <2>1. [name |-> id, start |-> Len(pending)] \in [name : Idents \cup {NoName}, start : Nat]
    BY NamesAssumption DEF OutlineInv, OutlineTypeOK
  <2>2. /\ Len(frames') = n + 1
        /\ frames'[n + 1] = [name |-> id, start |-> Len(pending)]
        /\ \A k \in 1 .. n : frames'[k] = frames[k]
    BY <1>2, <2>1, AppendProperties
  <2>3. QED BY <1>2, <2>2, EmptySeq
<1>5. /\ FrameMarks \in Seq(T)
      /\ Len(FrameMarks) = n - 1
      /\ DOMAIN FrameMarks = 1 .. n - 1
      /\ \A k \in 1 .. n - 1 :
            FrameMarks[k] =
              [name |-> ServerFold[frames[k + 1].name],
               kept |-> CommittedSet \cup {pending[j] : j \in 1 .. frames[k + 1].start}]
  BY <1>2, MarksSequence
<1>6. FrameMarks' =
        [k \in 1 .. n |->
           [name |-> ServerFold[frames'[k + 1].name],
            kept |-> CommittedSet' \cup {pending'[j] : j \in 1 .. frames'[k + 1].start}]]
  <2>1. (IF frames' = <<>> THEN 0 ELSE Len(frames') - 1) = n
    BY <1>2, <1>4
  <2> HIDE DEF n
  <2>2. QED BY <2>1 DEF FrameMarks, ServerFold
<1>7. \A k \in 1 .. n - 1 : FrameMarks'[k] = FrameMarks[k]
  <2>1. TAKE k \in 1 .. n - 1
  <2>2. k \in 1 .. n /\ k + 1 \in 1 .. n
    BY <1>2
  <2>3. frames'[k + 1] = frames[k + 1]
    BY <1>4, <2>2
  <2>4. FrameMarks'[k] =
          [name |-> ServerFold[frames'[k + 1].name],
           kept |-> CommittedSet' \cup {pending'[j] : j \in 1 .. frames'[k + 1].start}]
    BY <1>6, <2>2
  <2>5. QED BY <1>1, <1>5, <2>3, <2>4
<1>8. FrameMarks'[n] = new
  <2>1. n \in 1 .. n
    BY <1>2, <1>3
  <2>2. FrameMarks'[n] =
          [name |-> ServerFold[frames'[n + 1].name],
           kept |-> CommittedSet' \cup {pending'[j] : j \in 1 .. frames'[n + 1].start}]
    BY <1>6, <2>1
  <2>3. CommittedSet \cup {pending[j] : j \in 1 .. Len(pending)} = VisibleSet
    BY VisibleSplit
  <2>4. frames'[n + 1].name = id /\ frames'[n + 1].start = Len(pending)
    BY <1>4
  <2> HIDE DEF n
  <2>5. QED BY <1>1, <2>2, <2>3, <2>4
<1>9. DOMAIN FrameMarks' = 1 .. n
  BY <1>6
<1>10. new \in T
  <2>1. ServerFold[id] \in Values
    BY NamesAssumption DEF ServerFold, Idents
  <2>2. VisibleSet \subseteq Nat
    <3>1. VisibleSet \subseteq 1 .. Len(outcomes)
      BY VisibleSplit
    <3>2. 1 .. Len(outcomes) \subseteq Nat
      BY DEF OutlineInv, OutlineTypeOK
    <3>3. QED BY <3>1, <3>2
  <2>3. QED BY <2>1, <2>2
<1> HIDE DEF new, T, n
<1>11. FrameMarks' = Append(FrameMarks, new)
  <2>1. /\ Append(FrameMarks, new) \in Seq(T)
        /\ Len(Append(FrameMarks, new)) = n
        /\ Append(FrameMarks, new)[n] = new
        /\ \A k \in 1 .. n - 1 : Append(FrameMarks, new)[k] = FrameMarks[k]
    <3>1. /\ Append(FrameMarks, new) \in Seq(T)
          /\ Len(Append(FrameMarks, new)) = Len(FrameMarks) + 1
          /\ Append(FrameMarks, new)[Len(FrameMarks) + 1] = new
          /\ \A k \in 1 .. Len(FrameMarks) : Append(FrameMarks, new)[k] = FrameMarks[k]
      BY <1>5, <1>10, AppendProperties
    <3>2. Len(FrameMarks) + 1 = n
      BY <1>2, <1>5 DEF n
    <3>3. QED BY <1>5, <3>1, <3>2
  <2>2. DOMAIN Append(FrameMarks, new) = 1 .. n
    BY <2>1, LenProperties
  <2>3. ASSUME NEW k \in 1 .. n
        PROVE  FrameMarks'[k] = Append(FrameMarks, new)[k]
    <3>1. CASE k = n
      BY <1>8, <2>1, <3>1
    <3>2. CASE k # n
      <4>1. k \in 1 .. n - 1
        BY <1>2, <3>2 DEF n
      <4>2. QED BY <1>7, <2>1, <4>1
    <3>3. QED BY <3>1, <3>2
  <2>4. FrameMarks' = [k \in 1 .. n |-> FrameMarks'[k]]
    BY <1>6, <1>9
  <2>5. Append(FrameMarks, new) = [k \in 1 .. n |-> Append(FrameMarks, new)[k]]
    BY <2>1, SequenceIsFunction
  <2>6. QED BY <2>3, <2>4, <2>5
<1>12. QED BY <1>1, <1>11 DEF Server!ServerSavepoint, Server!ServerTick, new

\* RELEASE is the server's.
LEMMA ReleaseImplements ==
    ASSUME OutlineInv, OutlineInv', NEW id \in Sources, blockOpen, Matching(id) # {},
           Settle({}, "Control"),
           frames' = SubSeq(frames, 1, Innermost(id) - 1),
           UNCHANGED <<refused, blockOpen, pending, openTx, nextTx>>
    PROVE  Server!ServerRelease(id)
<1>1. /\ Len(outcomes') = Len(outcomes) + 1
      /\ VisibleSet' = VisibleSet
      /\ CommittedSet' = CommittedSet
  BY QuietControl
<1>2. Innermost(id) - 1 \in 1 .. Len(frames)
  <2>1. Innermost(id) \in 2 .. Len(frames) /\ Len(frames) \in Nat
    BY InnermostIsInner DEF OutlineInv, OutlineTypeOK
  <2>2. QED BY <2>1
<1>3. frames # <<>>
  BY DEF OutlineInv, PassesAgree
<1>4. FrameMarks' = SubSeq(FrameMarks, 1, Innermost(id) - 1 - 1)
  BY <1>1, <1>2, <1>3, MarksPrefix
<1>5. Server!Marked(id) # {} /\ Server!InnermostMark(id) = Innermost(id) - 1
  BY InnermostMark
<1>6. QED BY <1>1, <1>4, <1>5 DEF Server!ServerRelease, Server!ServerTick

\* ROLLBACK TO is the server's: what it undoes is what the savepoint did not see.
LEMMA RollbackToImplements ==
    ASSUME OutlineInv, OutlineInv', NEW id \in Sources, blockOpen, Matching(id) # {},
           NEW p, p = frames[Innermost(id)].start,
           Settle({pending[j] : j \in p + 1 .. Len(pending)}, "Undone"),
           pending' = SubSeq(pending, 1, p),
           frames' = SubSeq(frames, 1, Innermost(id)),
           UNCHANGED <<refused, blockOpen, openTx, nextTx>>
    PROVE  Server!ServerRollbackTo(id)
<1> DEFINE m == Innermost(id)
           kept == {pending[j] : j \in 1 .. p}
           settled == {pending[j] : j \in p + 1 .. Len(pending)}
<1>1. /\ Len(frames) \in Nat
      /\ Len(pending) \in Nat
      /\ DOMAIN frames = 1 .. Len(frames)
      /\ DOMAIN pending = 1 .. Len(pending)
      /\ frames \in Seq([name : Idents \cup {NoName}, start : Nat])
      /\ pending \in Seq(Nat \ {0})
  BY LenProperties DEF OutlineInv, OutlineTypeOK
<1>2. m \in 2 .. Len(frames) /\ m \in 1 .. Len(frames) /\ m \in DOMAIN frames
  <2>1. Innermost(id) \in 2 .. Len(frames) /\ Innermost(id) \in DOMAIN frames
    BY InnermostIsInner
  <2>2. QED BY <1>1, <2>1
<1>3. p \in Nat /\ p <= Len(pending) /\ p \in 0 .. Len(pending)
  <2>1. frames[m] \in [name : Idents \cup {NoName}, start : Nat]
    BY <1>1, <1>2, ElementOfSeq
  <2>2. frames[m].start <= Len(pending)
    BY <1>2 DEF OutlineInv, FramesNest
  <2>3. QED BY <1>1, <2>1, <2>2
<1>4. /\ Range(pending) = kept \cup settled
      /\ kept \cap settled = {}
  <2>1. \A j \in 1 .. Len(pending) : j \in 1 .. p \/ j \in p + 1 .. Len(pending)
    BY <1>1, <1>3
  <2>2. \A j \in 1 .. p : j \in 1 .. Len(pending)
    BY <1>1, <1>3
  <2>3. \A j \in p + 1 .. Len(pending) : j \in 1 .. Len(pending)
    BY <1>1, <1>3
  <2>4. Range(pending) = {pending[j] : j \in 1 .. Len(pending)}
    BY VisibleSplit
  <2>5. Range(pending) = kept \cup settled
    BY <2>1, <2>2, <2>3, <2>4
  <2>6. ASSUME NEW j \in 1 .. p, NEW k \in p + 1 .. Len(pending)
        PROVE  pending[j] # pending[k]
    <3>1. j \in DOMAIN pending /\ k \in DOMAIN pending /\ j < k
      BY <1>1, <1>3
    <3>2. pending[j] < pending[k]
      BY <3>1 DEF OutlineInv, PendingIsTheBlock
    <3>3. pending[j] \in Nat /\ pending[k] \in Nat
      BY <1>1, <3>1, ElementOfSeq
    <3>4. QED BY <3>2, <3>3
  <2>7. QED BY <2>5, <2>6
<1>5. Range(pending') = kept
  <2>1. DOMAIN pending' = 1 .. p /\ \A j \in 1 .. p : pending'[j] = pending[j]
    BY <1>1, <1>3, PrefixProperties
  <2>2. Range(pending') = {pending'[j] : j \in DOMAIN pending'}
    BY DEF Range
  <2>3. QED BY <2>1, <2>2
<1> HIDE DEF kept, settled
<1>6. Len(outcomes') = Len(outcomes) + 1 /\ VisibleSet' = VisibleSet \ settled
  <2>1. settled \in SUBSET VisibleSet
    BY <1>4, VisibleSplit
  <2>2. "Undone" \in Outcomes /\ Settle(settled, "Undone")
    BY DEF Outcomes, settled
  <2>3. QED BY <2>1, <2>2, SettleVisible
<1>7. CommittedSet = VisibleSet \ Range(pending) /\ Range(pending) \subseteq VisibleSet
  BY VisibleSplit
<1>8. VisibleSet' = CommittedSet \cup kept
  BY <1>4, <1>6, <1>7
<1>9. CommittedSet' = CommittedSet
  <2>1. CommittedSet' = VisibleSet' \ Range(pending')
    BY DEF CommittedSet, VisibleSet, Outcome
  <2>2. QED BY <1>4, <1>5, <1>7, <1>8, <2>1
<1>10. frames # <<>>
  BY DEF OutlineInv, PassesAgree
<1>11. FrameMarks' = SubSeq(FrameMarks, 1, m - 1)
  <2>1. ASSUME NEW k \in 1 .. m, NEW j \in 1 .. frames[k].start
        PROVE  pending'[j] = pending[j]
    <3>1. k \in DOMAIN frames /\ k <= m
      BY <1>1, <1>2
    <3>2. frames[k].start <= p
      BY <1>2, <3>1 DEF OutlineInv, FramesNest
    <3>3. frames[k].start \in Nat
      <4>1. frames[k] \in [name : Idents \cup {NoName}, start : Nat]
        BY <1>1, <3>1, ElementOfSeq
      <4>2. QED BY <4>1
    <3>4. j \in 1 .. p
      BY <1>3, <3>2, <3>3
    <3>5. QED BY <1>1, <1>3, <3>4, PrefixProperties
  <2>2. QED BY <1>2, <1>9, <1>10, <2>1, MarksPrefix
<1>12. Server!Marked(id) # {} /\ Server!InnermostMark(id) = m - 1
  BY InnermostMark
<1>13. FrameMarks[m - 1].kept = CommittedSet \cup kept
  <2>1. m - 1 \in 1 .. Len(frames) - 1 /\ m - 1 + 1 = m
    BY <1>1, <1>2
  <2>2. FrameMarks[m - 1].kept
          = CommittedSet \cup {pending[j] : j \in 1 .. frames[m - 1 + 1].start}
    BY <1>10, <2>1, MarksSequence
  <2>3. QED BY <2>1, <2>2 DEF kept
<1>14. QED BY <1>6, <1>8, <1>9, <1>11, <1>12, <1>13
       DEF Server!ServerRollbackTo, Server!ServerTick

\* Every statement both passes read is a step of the server, or a refusal
\* the server never sees.
LEMMA OutlineStepImplements ==
    ASSUME OutlineInv, OutlineInv', ~Misnamed, OutlineNext
    PROVE  Server!ServerNext \/ UNCHANGED Server!serverVars
<1>1. CASE Refuse
  BY <1>1, RefuseIsStutter
<1>2. CASE DropNoOp
  BY <1>2, DropIsServerNoOp DEF Server!ServerNext
<1>3. CASE Begin
  BY <1>3, BeginImplements DEF Server!ServerNext
<1>4. CASE Run
  BY <1>4, RunImplements DEF Server!ServerNext
<1>5. CASE CreateIndexConcurrently
  BY <1>1, <1>4, <1>5 DEF CreateIndexConcurrently
<1>6. ASSUME NEW chain \in BOOLEAN, Commit(chain) \/ Rollback(chain)
      PROVE  Server!ServerNext \/ UNCHANGED Server!serverVars
  <2>1. PICK outcome \in {"Committed", "Undone"} : EndBlock(outcome, chain)
    BY <1>6 DEF Commit, Rollback
  <2>2. CASE /\ blockOpen
             /\ blockOpen' = chain
             /\ Settle(Range(pending), outcome)
             /\ pending' = <<>>
             /\ frames' = IF chain THEN <<BlockFrame>> ELSE <<>>
    <3>1. Server!ServerCommit(chain) \/ Server!ServerRollback(chain)
      BY <2>2, EndBlockImplements
    <3>2. QED BY <3>1 DEF Server!ServerNext
  <2>3. QED BY <1>1, <1>2, <2>1, <2>2 DEF EndBlock
<1>7. ASSUME NEW id \in Sources,
             Savepoint(id) \/ ReleaseSavepoint(id) \/ RollbackTo(id)
      PROVE  Server!ServerNext \/ UNCHANGED Server!serverVars
  <2>1. id \in Idents
    BY NamesAssumption
  <2>2. CASE Savepoint(id) /\ ~Refuse
    <3>1. Server!ServerSavepoint(id)
      BY <2>2, SavepointImplements DEF Savepoint
    <3>2. QED BY <2>1, <3>1 DEF Server!ServerNext
  <2>3. CASE ReleaseSavepoint(id) /\ ~Refuse
    <3>1. Server!ServerRelease(id)
      BY <2>3, ReleaseImplements DEF ReleaseSavepoint
    <3>2. QED BY <2>1, <3>1 DEF Server!ServerNext
  <2>4. CASE RollbackTo(id) /\ ~Refuse
    <3>1. Server!ServerRollbackTo(id)
      BY <2>4, RollbackToImplements DEF RollbackTo
    <3>2. QED BY <2>1, <3>1 DEF Server!ServerNext
  <2>5. QED BY <1>1, <1>7, <2>2, <2>3, <2>4
<1>8. QED BY <1>3, <1>4, <1>5, <1>6, <1>7 DEF OutlineNext

\* Every statement of such a batch is the server's, one by one.
LEMMA StatementImplements ==
    ASSUME OutlineInv, OutlineInv', ~Misnamed
    PROVE  SameStatement
<1> SUFFICES ASSUME ~refused' PROVE SameStatement
  BY DEF SameStatement
<1>1. ~Refuse
  BY DEF Refuse
<1>2. Begin => Server!ServerBegin
  BY BeginImplements
<1>3. Run => Server!ServerRun
  BY RunImplements
<1>4. ASSUME NEW chain \in BOOLEAN, NEW outcome \in {"Committed", "Undone"},
             EndBlock(outcome, chain)
      PROVE  IF blockOpen
             THEN /\ outcome = "Committed" => Server!ServerCommit(chain)
                  /\ outcome = "Undone" => Server!ServerRollback(chain)
             ELSE Server!ServerIdleEnd
  <2>1. CASE /\ blockOpen
             /\ blockOpen' = chain
             /\ Settle(Range(pending), outcome)
             /\ pending' = <<>>
             /\ frames' = IF chain THEN <<BlockFrame>> ELSE <<>>
    BY <2>1, EndBlockImplements
  <2>2. CASE ~blockOpen /\ DropNoOp
    BY <2>2, DropIsServerNoOp
  <2>3. QED BY <1>1, <1>4, <2>1, <2>2 DEF EndBlock
<1>5. ASSUME NEW chain \in BOOLEAN
      PROVE  /\ Commit(chain) =>
                   IF blockOpen THEN Server!ServerCommit(chain) ELSE Server!ServerIdleEnd
             /\ Rollback(chain) =>
                   IF blockOpen THEN Server!ServerRollback(chain) ELSE Server!ServerIdleEnd
  BY <1>4 DEF Commit, Rollback
<1>6. ASSUME NEW id \in Sources
      PROVE  /\ Savepoint(id) => Server!ServerSavepoint(id)
             /\ ReleaseSavepoint(id) => Server!ServerRelease(id)
             /\ RollbackTo(id) => Server!ServerRollbackTo(id)
  <2>1. Savepoint(id) => Server!ServerSavepoint(id)
    BY <1>1, SavepointImplements DEF Savepoint
  <2>2. ReleaseSavepoint(id) => Server!ServerRelease(id)
    BY <1>1, ReleaseImplements DEF ReleaseSavepoint
  <2>3. RollbackTo(id) => Server!ServerRollbackTo(id)
    BY <1>1, RollbackToImplements DEF RollbackTo
  <2>4. QED BY <2>1, <2>2, <2>3
<1>7. QED BY <1>2, <1>3, <1>5, <1>6 DEF SameStatement

\* Whatever the batch, as long as it names only savepoints that exist, each
\* statement analyse lets through means to the outline what it means to the
\* server: the same savepoint, the same block, the same statements undone.
THEOREM OutlineReadsTheStatement == ~Misnamed => (OutlineSpec => StatementByStatement)
<1>1. SUFFICES ASSUME ~Misnamed PROVE OutlineSpec => StatementByStatement
  OBVIOUS
<1>2. ASSUME OutlineInv, OutlineInv' PROVE SameStatement
  BY <1>1, <1>2, StatementImplements
<1>3. QED BY <1>2, OutlineInvariant, PTL DEF StatementByStatement

\* The statements the outline lets survive are exactly the ones the server
\* keeps, for every batch that names only savepoints that exist: reading the
\* batch (analyse with Outline::new) implements the server's transactions.
THEOREM OutlineImplementsServer == ~Misnamed => (OutlineSpec => ImplementsServer)
<1>1. OutlineInit => Server!ServerInit
  <2>1. SUFFICES ASSUME OutlineInit PROVE Server!ServerInit
    OBVIOUS
  <2>2. VisibleSet = {} /\ CommittedSet = {}
    BY <2>1 DEF OutlineInit, VisibleSet, CommittedSet
  <2>3. FrameMarks = <<>>
    BY <2>1, NoMarks DEF OutlineInit
  <2>4. Len(outcomes) = 0 /\ blockOpen = FALSE
    BY <2>1 DEF OutlineInit
  <2>5. QED BY <2>2, <2>3, <2>4 DEF Server!ServerInit
<1>2. ASSUME ~Misnamed, OutlineInv, OutlineInv', [OutlineNext]_outlineVars
      PROVE  [Server!ServerNext]_(Server!serverVars)
  <2>1. CASE OutlineNext
    BY <1>2, <2>1, OutlineStepImplements
  <2>2. CASE UNCHANGED outlineVars
    <3>1. /\ outcomes' = outcomes
          /\ pending' = pending
          /\ frames' = frames
          /\ blockOpen' = blockOpen
      BY <2>2 DEF outlineVars
    <3>2. VisibleSet' = VisibleSet /\ CommittedSet' = CommittedSet
      BY <3>1 DEF VisibleSet, CommittedSet, Outcome
    <3>3. FrameMarks' = FrameMarks
      BY <3>1, <3>2, MarksKept
    <3>4. QED BY <3>1, <3>2, <3>3 DEF Server!serverVars
  <2>3. QED BY <1>2, <2>1, <2>2
<1>3. SUFFICES ASSUME ~Misnamed PROVE OutlineSpec => ImplementsServer
  OBVIOUS
<1>4. QED BY <1>1, <1>2, <1>3, OutlineInvariant, PTL
          DEF OutlineSpec, ImplementsServer, Server!ServerSpec

-----------------------------------------------------------------------------
(* The replica.  Each statement is the server's (SameStatement), so the    *)
(* engine is compared with the server's state: its savepoints with the     *)
(* marks, its rows with what is visible, its file with what is durable.    *)

Saves == Seq([name : Values, rows : SUBSET Nat])

\* The engine's savepoints are the server's marks, by the name SQLite knows.
SavesMatch(saves, marks) ==
    /\ saves \in Saves
    /\ Len(saves) = Len(marks)
    /\ DOMAIN marks = 1 .. Len(marks)
    /\ \A k \in 1 .. Len(saves) :
          /\ saves[k].rows = marks[k].kept
          /\ \E a \in Sources : saves[k].name = Lower[a.value] /\ marks[k].name = ServerFold[a]

Engines == [failed : BOOLEAN, open : BOOLEAN, rows : SUBSET Nat, file : SUBSET Nat,
            commits : SUBSET (SUBSET Nat), saves : Saves]

EngineAgrees ==
    /\ sqlite \in Engines
    /\ ~sqlite.failed
    /\ sqlite.open = blockOpen
    /\ sqlite.rows = VisibleSet
    /\ sqlite.file = CommittedSet
    /\ SavesMatch(sqlite.saves, FrameMarks)

\* Statements of the open block: visible, not durable yet.
InBlock == VisibleSet \ CommittedSet

\* The open block comes after all that is committed, and under a number no
\* committed statement has.
BlockIsLast ==
    /\ \A i \in CommittedSet, j \in InBlock : i < j
    /\ openTx # NoTx => openTx < nextTx
    /\ \A i \in DOMAIN transactions : transactions[i] # NoTx => transactions[i] < nextTx
    /\ \A i \in CommittedSet : transactions[i] # NoTx => transactions[i] # openTx
    /\ \A i \in InBlock : transactions[i] = openTx

CommitsAreDurable == \A c \in sqlite.commits : c \subseteq CommittedSet

\* A visible statement ran on the visible statements before it.
SawVisible ==
    /\ saw \in Seq(SUBSET Nat)
    /\ Len(outcomes) <= Len(saw)
    /\ ~refused => Len(saw) = Len(outcomes)
    /\ \A i \in VisibleSet : saw[i] = {j \in VisibleSet : j < i}

\* The inductive invariant, on top of the outline's.
ReplicaInv ==
    /\ OutlineInv
    /\ EngineAgrees
    /\ BlockIsLast
    /\ CommitsAreDurable
    /\ GroupsCommitTogether
    /\ SawVisible

-----------------------------------------------------------------------------
(* Savepoints.                                                             *)

Marks == Seq([name : Values, kept : SUBSET Nat])

LEMMA MarksType ==
    ASSUME OutlineInv
    PROVE  FrameMarks \in Marks /\ DOMAIN FrameMarks = 1 .. Len(FrameMarks) /\ Len(FrameMarks) \in Nat
<1>1. FrameMarks \in Marks
  <2>1. CASE frames = << >>
    <3>1. FrameMarks = << >>
      BY <2>1, NoMarks
    <3> QED
      BY <3>1 DEF Marks
  <2>2. CASE frames # << >>
    BY <2>2, MarksSequence DEF Marks
  <2> QED
    BY <2>1, <2>2
<1> QED
  BY <1>1, LenProperties DEF Marks

\* Over the batch's names, SQLite's comparison is the server's.
LEMMA LowerIsFold ==
    ASSUME OneSpelling, NEW a \in Sources, NEW b \in Sources
    PROVE  Lower[a.value] = Lower[b.value] <=> ServerFold[a] = ServerFold[b]
<1>1. a \in Idents /\ b \in Idents
  BY NamesAssumption
<1>2. Lower[a.value] = Lower[b.value] => ServerFold[a] = ServerFold[b]
  BY DEF OneSpelling
<1>3. /\ Lower[ServerFold[a]] = Lower[a.value]
      /\ Lower[ServerFold[b]] = Lower[b.value]
  BY <1>1, NamesAssumption DEF ServerFold, Idents
<1> QED
  BY <1>2, <1>3

\* A name answers to the same savepoint in the engine and on the server.
LEMMA SavedIsMarked ==
    ASSUME OneSpelling, EngineAgrees, NEW id \in Sources
    PROVE  /\ Saved(sqlite, id) = Server!Marked(id)
           /\ LastSaved(sqlite, id) = Server!InnermostMark(id)
<1> DEFINE saves == sqlite.saves
<1>1. SavesMatch(saves, FrameMarks)
  BY DEF EngineAgrees
<1> HIDE DEF saves
<1>2. DOMAIN saves = 1 .. Len(saves) /\ DOMAIN FrameMarks = 1 .. Len(saves)
  BY <1>1, LenProperties DEF SavesMatch, Saves
<1>3. ASSUME NEW k \in 1 .. Len(saves)
      PROVE  saves[k].name = Lower[id.value] <=> FrameMarks[k].name = ServerFold[id]
  <2>1. PICK a \in Sources : saves[k].name = Lower[a.value] /\ FrameMarks[k].name = ServerFold[a]
    BY <1>1 DEF SavesMatch
  <2> QED
    BY <2>1, LowerIsFold
<1>4. Saved(sqlite, id) = Server!Marked(id)
  BY <1>2, <1>3 DEF Saved, Server!Marked, saves
<1> QED
  BY <1>4 DEF LastSaved, Server!InnermostMark

LEMMA MarkedPosition ==
    ASSUME OutlineInv, NEW id, Server!Marked(id) # {}
    PROVE  Server!InnermostMark(id) \in 1 .. Len(FrameMarks)
<1>1. Server!Marked(id) \in SUBSET (1 .. Len(FrameMarks)) /\ Len(FrameMarks) \in Nat
  BY MarksType DEF Server!Marked
<1>2. \E k \in Server!Marked(id) : \A q \in Server!Marked(id) : q <= k
  BY <1>1, LastPosition
<1>3. Server!InnermostMark(id) \in Server!Marked(id)
  BY <1>2 DEF Server!InnermostMark
<1> QED
  BY <1>1, <1>3

LEMMA SavesCut ==
    ASSUME NEW saves, NEW marks \in Marks, SavesMatch(saves, marks), NEW m \in 0 .. Len(saves)
    PROVE  SavesMatch(SubSeq(saves, 1, m), SubSeq(marks, 1, m))
<1> DEFINE s == SubSeq(saves, 1, m)
           t == SubSeq(marks, 1, m)
<1>1. s \in Saves /\ Len(s) = m /\ \A i \in 1 .. m : s[i] = saves[i]
  BY PrefixProperties DEF SavesMatch, Saves
<1>2. t \in Marks /\ Len(t) = m /\ DOMAIN t = 1 .. m /\ \A i \in 1 .. m : t[i] = marks[i]
  <2>1. m \in 0 .. Len(marks)
    BY DEF SavesMatch
  <2> QED
    BY <2>1, PrefixProperties DEF Marks
<1>3. \A i \in 1 .. m : i \in 1 .. Len(saves)
  BY LenProperties DEF SavesMatch, Saves
<1> HIDE DEF s, t
<1>4. SavesMatch(s, t)
  BY <1>1, <1>2, <1>3 DEF SavesMatch
<1> QED
  BY <1>4 DEF s, t

LEMMA SavesAppend ==
    ASSUME NEW saves, NEW marks \in Marks, SavesMatch(saves, marks), NEW id \in Sources,
           NEW rows \in SUBSET Nat
    PROVE  SavesMatch(Append(saves, [name |-> Lower[id.value], rows |-> rows]),
                      Append(marks, [name |-> ServerFold[id], kept |-> rows]))
<1> DEFINE x == [name |-> Lower[id.value], rows |-> rows]
           y == [name |-> ServerFold[id], kept |-> rows]
           s == Append(saves, x)
           t == Append(marks, y)
           n == Len(saves)
<1>1. id \in Idents /\ Lower[id.value] \in Values /\ ServerFold[id] \in Values
  BY NamesAssumption DEF Idents, ServerFold
<1>2. x \in [name : Values, rows : SUBSET Nat] /\ y \in [name : Values, kept : SUBSET Nat]
  BY <1>1
<1>3. x.name = Lower[id.value] /\ x.rows = rows /\ y.name = ServerFold[id] /\ y.kept = rows
  OBVIOUS
<1> HIDE DEF x, y
<1>4. n \in Nat /\ Len(marks) = n
  BY LenProperties DEF SavesMatch, Saves
<1>5. s \in Saves /\ Len(s) = n + 1 /\ s[n + 1] = x /\ \A i \in 1 .. n : s[i] = saves[i]
  BY <1>2, AppendProperties DEF SavesMatch, Saves
<1>6. t \in Marks /\ Len(t) = n + 1 /\ t[n + 1] = y /\ \A i \in 1 .. n : t[i] = marks[i]
  BY <1>2, <1>4, AppendProperties DEF Marks
<1>7. DOMAIN t = 1 .. n + 1
  BY <1>6, LenProperties DEF Marks
<1> HIDE DEF s, t
<1>8. ASSUME NEW k \in 1 .. n + 1
      PROVE  /\ s[k].rows = t[k].kept
             /\ \E a \in Sources : s[k].name = Lower[a.value] /\ t[k].name = ServerFold[a]
  <2>1. CASE k = n + 1
    BY <1>3, <1>5, <1>6, <2>1
  <2>2. CASE k \in 1 .. n
    BY <1>5, <1>6, <2>2 DEF SavesMatch
  <2> QED
    BY <1>4, <2>1, <2>2
<1>9. SavesMatch(s, t)
  BY <1>5, <1>6, <1>7, <1>8 DEF SavesMatch
<1> QED
  BY <1>9 DEF s, t, x, y

\* What a savepoint keeps: all that is committed, and of the open block what
\* came before it.
LEMMA MarkKept ==
    ASSUME OutlineInv, BlockIsLast, NEW k \in DOMAIN FrameMarks
    PROVE  /\ CommittedSet \subseteq FrameMarks[k].kept
           /\ FrameMarks[k].kept \subseteq VisibleSet
           /\ \A i \in FrameMarks[k].kept, j \in VisibleSet : j < i => j \in FrameMarks[k].kept
<1>1. frames # << >>
  <2>1. CASE frames = << >>
    <3>1. FrameMarks = << >>
      BY <2>1, NoMarks
    <3> QED
      BY <3>1
  <2> QED
    BY <2>1
<1> DEFINE p == frames[k + 1].start
           kept == {pending[j] : j \in 1 .. p}
<1>2. k \in 1 .. Len(frames) - 1 /\ FrameMarks[k].kept = CommittedSet \cup kept
  BY <1>1, MarksSequence
<1>3. /\ Len(frames) \in Nat /\ DOMAIN frames = 1 .. Len(frames)
      /\ frames \in Seq([name : Idents \cup {NoName}, start : Nat])
      /\ Len(pending) \in Nat /\ DOMAIN pending = 1 .. Len(pending)
  BY LenProperties DEF OutlineInv, OutlineTypeOK
<1>4. p \in Nat /\ p <= Len(pending)
  <2>1. k + 1 \in DOMAIN frames
    BY <1>2, <1>3
  <2>2. frames[k + 1] \in [name : Idents \cup {NoName}, start : Nat]
    BY <1>3, <2>1, ElementOfSeq
  <2> QED
    BY <2>1, <2>2 DEF OutlineInv, FramesNest
<1> HIDE DEF p
<1>5. \A j \in 1 .. p : j \in DOMAIN pending
  BY <1>3, <1>4
<1>6. /\ CommittedSet = VisibleSet \ Range(pending)
      /\ Range(pending) \subseteq VisibleSet
      /\ Range(pending) = {pending[j] : j \in DOMAIN pending}
      /\ VisibleSet \subseteq 1 .. Len(outcomes)
  BY <1>3, VisibleSplit
<1>7. kept \subseteq Range(pending)
  BY <1>5, <1>6
<1>8. ASSUME NEW i \in CommittedSet \cup kept, NEW j \in VisibleSet, j < i
      PROVE  j \in CommittedSet \cup kept
  <2>0. i \in Nat /\ j \in Nat
    <3>1. Len(outcomes) \in Nat
      BY DEF OutlineInv, OutlineTypeOK
    <3>2. i \in 1 .. Len(outcomes) /\ j \in 1 .. Len(outcomes)
      BY <1>6, <1>7
    <3> QED
      BY <3>1, <3>2
  <2>1. CASE j \in CommittedSet
    BY <2>1
  <2>2. CASE j \in InBlock
    <3>1. i \notin CommittedSet
      <4>1. i \in CommittedSet => i < j
        BY <2>2 DEF BlockIsLast
      <4> QED
        BY <1>8, <2>0, <4>1
    <3>2. PICK a \in 1 .. p : i = pending[a]
      BY <3>1
    <3>3. PICK b \in DOMAIN pending : j = pending[b]
      BY <1>6, <2>2 DEF InBlock
    <3>4. ~(a < b)
      <4>1. a < b => pending[a] < pending[b]
        BY <1>5 DEF OutlineInv, PendingIsTheBlock
      <4> QED
        BY <1>8, <2>0, <3>2, <3>3, <4>1
    <3>5. b \in 1 .. p
      BY <1>3, <1>4, <3>4
    <3> QED
      BY <3>3, <3>5
  <2> QED
    BY <2>1, <2>2 DEF InBlock
<1>9. /\ CommittedSet \subseteq CommittedSet \cup kept
      /\ CommittedSet \cup kept \subseteq VisibleSet
  BY <1>6, <1>7
<1> HIDE DEF kept
<1> QED
  BY <1>2, <1>8, <1>9

-----------------------------------------------------------------------------
(* The engine, one lemma per statement it executes.                        *)

LEMMA BeginIs ==
    ASSUME NEW e \in Engines, ~e.open, ~e.failed
    PROVE  LET x == EngineBegin(e) IN
           /\ x \in Engines /\ ~x.failed /\ x.open = TRUE
           /\ x.rows = e.rows /\ x.file = e.file /\ x.commits = e.commits /\ x.saves = e.saves
  BY DEF EngineBegin, Engines

LEMMA CommitIs ==
    ASSUME NEW e \in Engines, e.open, ~e.failed
    PROVE  LET x == EngineCommit(e) IN
           /\ x \in Engines /\ ~x.failed /\ x.open = FALSE
           /\ x.rows = e.rows /\ x.file = e.rows /\ x.saves = << >>
           /\ x.commits = e.commits \cup {e.rows \ e.file}
<1>1. << >> \in Saves
  BY DEF Saves
<1> QED
  BY <1>1 DEF EngineCommit, Engines

LEMMA RollbackIs ==
    ASSUME NEW e \in Engines, e.open, ~e.failed
    PROVE  LET x == EngineRollback(e) IN
           /\ x \in Engines /\ ~x.failed /\ x.open = FALSE
           /\ x.rows = e.file /\ x.file = e.file /\ x.saves = << >> /\ x.commits = e.commits
<1>1. << >> \in Saves
  BY DEF Saves
<1> QED
  BY <1>1 DEF EngineRollback, Engines

LEMMA SavepointIs ==
    ASSUME NEW e \in Engines, ~e.failed, NEW id \in Sources
    PROVE  LET x == EngineSavepoint(e, id) IN
           /\ x \in Engines /\ ~x.failed /\ x.open = e.open
           /\ x.rows = e.rows /\ x.file = e.file /\ x.commits = e.commits
           /\ x.saves = Append(e.saves, [name |-> Lower[id.value], rows |-> e.rows])
<1> DEFINE s == Append(e.saves, [name |-> Lower[id.value], rows |-> e.rows])
<1>1. s \in Saves
  <2>1. [name |-> Lower[id.value], rows |-> e.rows] \in [name : Values, rows : SUBSET Nat]
    BY NamesAssumption DEF Idents, Engines
  <2>2. e.saves \in Seq([name : Values, rows : SUBSET Nat])
    BY DEF Engines, Saves
  <2> QED
    BY <2>1, <2>2, AppendProperties DEF Saves
<1>2. EngineSavepoint(e, id) = [e EXCEPT !.saves = s]
  BY DEF EngineSavepoint, Engines
<1> HIDE DEF s
<1>3. LET x == [e EXCEPT !.saves = s] IN
      /\ x \in Engines /\ ~x.failed /\ x.open = e.open
      /\ x.rows = e.rows /\ x.file = e.file /\ x.commits = e.commits /\ x.saves = s
  BY <1>1 DEF Engines
<1> QED
  BY <1>2, <1>3 DEF s

LEMMA ReleaseIs ==
    ASSUME NEW e \in Engines, ~e.failed, NEW id, Saved(e, id) # {},
           LastSaved(e, id) \in 1 .. Len(e.saves)
    PROVE  LET x == EngineRelease(e, id) IN
           /\ x \in Engines /\ ~x.failed /\ x.open = e.open
           /\ x.rows = e.rows /\ x.file = e.file /\ x.commits = e.commits
           /\ x.saves = SubSeq(e.saves, 1, LastSaved(e, id) - 1)
<1> DEFINE s == SubSeq(e.saves, 1, LastSaved(e, id) - 1)
<1>1. s \in Saves
  <2>1. e.saves \in Seq([name : Values, rows : SUBSET Nat])
    BY DEF Engines, Saves
  <2>2. LastSaved(e, id) - 1 \in 0 .. Len(e.saves)
    BY <2>1, LenProperties
  <2> QED
    BY <2>1, <2>2, PrefixProperties DEF Saves
<1>2. EngineRelease(e, id) = [e EXCEPT !.saves = s]
  BY DEF EngineRelease, Engines
<1> HIDE DEF s
<1>3. LET x == [e EXCEPT !.saves = s] IN
      /\ x \in Engines /\ ~x.failed /\ x.open = e.open
      /\ x.rows = e.rows /\ x.file = e.file /\ x.commits = e.commits /\ x.saves = s
  BY <1>1 DEF Engines
<1> QED
  BY <1>2, <1>3 DEF s

LEMMA RollbackToIs ==
    ASSUME NEW e \in Engines, ~e.failed, NEW id, Saved(e, id) # {},
           LastSaved(e, id) \in 1 .. Len(e.saves)
    PROVE  LET x == EngineRollbackTo(e, id) IN
           /\ x \in Engines /\ ~x.failed /\ x.open = e.open
           /\ x.rows = e.saves[LastSaved(e, id)].rows /\ x.file = e.file /\ x.commits = e.commits
           /\ x.saves = SubSeq(e.saves, 1, LastSaved(e, id))
<1> DEFINE s == SubSeq(e.saves, 1, LastSaved(e, id))
           r == e.saves[LastSaved(e, id)].rows
<1>1. s \in Saves /\ r \in SUBSET Nat
  <2>1. e.saves \in Seq([name : Values, rows : SUBSET Nat])
    BY DEF Engines, Saves
  <2>2. LastSaved(e, id) \in 0 .. Len(e.saves) /\ LastSaved(e, id) \in DOMAIN e.saves
    BY <2>1, LenProperties
  <2>3. e.saves[LastSaved(e, id)] \in [name : Values, rows : SUBSET Nat]
    BY <2>1, <2>2, ElementOfSeq
  <2> QED
    BY <2>1, <2>2, <2>3, PrefixProperties DEF Saves
<1>2. EngineRollbackTo(e, id) = [e EXCEPT !.rows = r, !.saves = s]
  BY DEF EngineRollbackTo, Engines
<1> HIDE DEF s, r
<1>3. LET x == [e EXCEPT !.rows = r, !.saves = s] IN
      /\ x \in Engines /\ ~x.failed /\ x.open = e.open
      /\ x.rows = r /\ x.file = e.file /\ x.commits = e.commits /\ x.saves = s
  BY <1>1 DEF Engines
<1> QED
  BY <1>2, <1>3 DEF s, r

LEMMA RunIs ==
    ASSUME NEW e \in Engines, ~e.failed, NEW i \in Nat
    PROVE  LET x == EngineRun(e, i) IN
           /\ x \in Engines /\ ~x.failed /\ x.open = e.open /\ x.saves = e.saves
           /\ x.rows = e.rows \cup {i}
           /\ x.file = IF e.open THEN e.file ELSE e.file \cup {i}
           /\ x.commits = IF e.open THEN e.commits ELSE e.commits \cup {{i}}
  BY DEF EngineRun, Engines

-----------------------------------------------------------------------------
(* Each statement of the batch that is read, on the engine.                *)

LEMMA NoSavesMatch == SavesMatch(<< >>, << >>)
  BY DEF SavesMatch, Saves

LEMMA EngineAfterBegin ==
    ASSUME EngineAgrees, blockOpen \in BOOLEAN, ~refused', Server!ServerBegin,
           Translated(EmitBegin(sqlite))
    PROVE  EngineAgrees' /\ sqlite'.commits = sqlite.commits
<1> DEFINE x == EmitBegin(sqlite)
<1>1. sqlite' = x
  BY DEF Translated
<1>2. /\ blockOpen' = TRUE /\ VisibleSet' = VisibleSet /\ CommittedSet' = CommittedSet
      /\ FrameMarks' = FrameMarks
  BY DEF Server!ServerBegin
<1>3. /\ x \in Engines /\ ~x.failed /\ x.open = TRUE
      /\ x.rows = sqlite.rows /\ x.file = sqlite.file /\ x.commits = sqlite.commits
      /\ x.saves = sqlite.saves
  <2>1. CASE blockOpen
    BY <2>1 DEF EmitBegin, EngineAgrees
  <2>2. CASE ~blockOpen
    <3>1. x = EngineBegin(sqlite) /\ ~sqlite.open
      BY <2>2 DEF EmitBegin, EngineAgrees
    <3> HIDE DEF x
    <3> QED
      BY <3>1, BeginIs DEF EngineAgrees
  <2> QED
    BY <2>1, <2>2
<1> HIDE DEF x
<1>4. EngineAgrees'
  BY <1>1, <1>2, <1>3 DEF EngineAgrees
<1> QED
  BY <1>1, <1>3, <1>4

LEMMA EngineAfterCommit ==
    ASSUME EngineAgrees, NEW chain \in BOOLEAN, ~refused', blockOpen, Server!ServerCommit(chain),
           Translated(EmitCommit(sqlite, chain))
    PROVE  EngineAgrees' /\ sqlite'.commits = sqlite.commits \cup {InBlock}
<1> DEFINE y == EngineCommit(sqlite)
           x == IF chain THEN EngineBegin(y) ELSE y
<1>1. sqlite' = x
  BY DEF Translated, EmitCommit
<1>2. /\ blockOpen' = chain /\ VisibleSet' = VisibleSet /\ CommittedSet' = VisibleSet
      /\ FrameMarks' = << >>
  BY DEF Server!ServerCommit
<1>3. /\ y \in Engines /\ ~y.failed /\ y.open = FALSE
      /\ y.rows = VisibleSet /\ y.file = VisibleSet /\ y.saves = << >>
      /\ y.commits = sqlite.commits \cup {InBlock}
  BY CommitIs DEF EngineAgrees, InBlock
<1> HIDE DEF y
<1>4. /\ x \in Engines /\ ~x.failed /\ x.open = chain
      /\ x.rows = y.rows /\ x.file = y.file /\ x.saves = y.saves /\ x.commits = y.commits
  <2>1. CASE chain
    BY <1>3, <2>1, BeginIs
  <2>2. CASE ~chain
    BY <1>3, <2>2
  <2> QED
    BY <2>1, <2>2
<1> HIDE DEF x
<1>5. EngineAgrees'
  BY <1>1, <1>2, <1>3, <1>4, NoSavesMatch DEF EngineAgrees
<1> QED
  BY <1>1, <1>3, <1>4, <1>5

LEMMA EngineAfterRollback ==
    ASSUME EngineAgrees, NEW chain \in BOOLEAN, ~refused', blockOpen, Server!ServerRollback(chain),
           Translated(EmitRollback(sqlite, chain))
    PROVE  EngineAgrees' /\ sqlite'.commits = sqlite.commits
<1> DEFINE y == EngineRollback(sqlite)
           x == IF chain THEN EngineBegin(y) ELSE y
<1>1. sqlite' = x
  BY DEF Translated, EmitRollback
<1>2. /\ blockOpen' = chain /\ VisibleSet' = CommittedSet /\ CommittedSet' = CommittedSet
      /\ FrameMarks' = << >>
  BY DEF Server!ServerRollback
<1>3. /\ y \in Engines /\ ~y.failed /\ y.open = FALSE
      /\ y.rows = CommittedSet /\ y.file = CommittedSet /\ y.saves = << >>
      /\ y.commits = sqlite.commits
  BY RollbackIs DEF EngineAgrees
<1> HIDE DEF y
<1>4. /\ x \in Engines /\ ~x.failed /\ x.open = chain
      /\ x.rows = y.rows /\ x.file = y.file /\ x.saves = y.saves /\ x.commits = y.commits
  <2>1. CASE chain
    BY <1>3, <2>1, BeginIs
  <2>2. CASE ~chain
    BY <1>3, <2>2
  <2> QED
    BY <2>1, <2>2
<1> HIDE DEF x
<1>5. EngineAgrees'
  BY <1>1, <1>2, <1>3, <1>4, NoSavesMatch DEF EngineAgrees
<1> QED
  BY <1>1, <1>3, <1>4, <1>5

\* COMMIT or ROLLBACK outside a block is dropped.
LEMMA EngineAfterIdleEnd ==
    ASSUME EngineAgrees, ~blockOpen, sqlite' = sqlite, Server!ServerIdleEnd
    PROVE  EngineAgrees'
  BY DEF EngineAgrees, Server!ServerIdleEnd

LEMMA EngineAfterSavepoint ==
    ASSUME OutlineInv, EngineAgrees, NEW id \in Sources, ~refused', Server!ServerSavepoint(id),
           Translated(EngineSavepoint(sqlite, id))
    PROVE  EngineAgrees' /\ sqlite'.commits = sqlite.commits
<1> DEFINE x == EngineSavepoint(sqlite, id)
<1>1. sqlite' = x
  BY DEF Translated
<1>2. /\ blockOpen' = blockOpen /\ VisibleSet' = VisibleSet /\ CommittedSet' = CommittedSet
      /\ FrameMarks' = Append(FrameMarks, [name |-> ServerFold[id], kept |-> VisibleSet])
  BY DEF Server!ServerSavepoint
<1>3. sqlite \in Engines /\ ~sqlite.failed /\ sqlite.rows = VisibleSet
  BY DEF EngineAgrees
<1>4. /\ x \in Engines /\ ~x.failed /\ x.open = sqlite.open
      /\ x.rows = sqlite.rows /\ x.file = sqlite.file /\ x.commits = sqlite.commits
      /\ x.saves = Append(sqlite.saves, [name |-> Lower[id.value], rows |-> VisibleSet])
  BY <1>3, SavepointIs
<1> HIDE DEF x
<1>5. VisibleSet \in SUBSET Nat
  BY <1>3 DEF Engines
<1>6. SavesMatch(x.saves, FrameMarks')
  BY <1>2, <1>4, <1>5, MarksType, SavesAppend DEF EngineAgrees
<1>7. EngineAgrees'
  BY <1>1, <1>2, <1>4, <1>6 DEF EngineAgrees
<1> QED
  BY <1>1, <1>4, <1>7

LEMMA EngineAfterRelease ==
    ASSUME OutlineInv, OneSpelling, EngineAgrees, NEW id \in Sources, ~refused',
           Server!ServerRelease(id), Translated(EngineRelease(sqlite, id))
    PROVE  EngineAgrees' /\ sqlite'.commits = sqlite.commits
<1> DEFINE x == EngineRelease(sqlite, id)
           m == Server!InnermostMark(id)
<1>1. sqlite' = x
  BY DEF Translated
<1>2. /\ blockOpen' = blockOpen /\ VisibleSet' = VisibleSet /\ CommittedSet' = CommittedSet
      /\ FrameMarks' = SubSeq(FrameMarks, 1, m - 1)
      /\ Server!Marked(id) # {}
  BY DEF Server!ServerRelease
<1>3. /\ Saved(sqlite, id) # {} /\ LastSaved(sqlite, id) = m
      /\ m \in 1 .. Len(sqlite.saves) /\ m - 1 \in 0 .. Len(sqlite.saves)
  <2>1. m \in 1 .. Len(FrameMarks) /\ Len(FrameMarks) \in Nat
    BY <1>2, MarkedPosition, MarksType
  <2>2. Len(sqlite.saves) = Len(FrameMarks)
    BY DEF EngineAgrees, SavesMatch
  <2>3. Saved(sqlite, id) # {} /\ LastSaved(sqlite, id) = m
    BY <1>2, SavedIsMarked
  <2> HIDE DEF m
  <2> QED
    BY <2>1, <2>2, <2>3
<1> HIDE DEF m
<1>4. sqlite \in Engines /\ ~sqlite.failed
  BY DEF EngineAgrees
<1>5. /\ x \in Engines /\ ~x.failed /\ x.open = sqlite.open
      /\ x.rows = sqlite.rows /\ x.file = sqlite.file /\ x.commits = sqlite.commits
      /\ x.saves = SubSeq(sqlite.saves, 1, m - 1)
  BY <1>3, <1>4, ReleaseIs
<1> HIDE DEF x
<1>6. SavesMatch(x.saves, FrameMarks')
  BY <1>2, <1>3, <1>5, MarksType, SavesCut DEF EngineAgrees
<1>7. EngineAgrees'
  BY <1>1, <1>2, <1>5, <1>6 DEF EngineAgrees
<1> QED
  BY <1>1, <1>5, <1>7

LEMMA EngineAfterRollbackTo ==
    ASSUME OutlineInv, OneSpelling, EngineAgrees, NEW id \in Sources, ~refused',
           Server!ServerRollbackTo(id), Translated(EngineRollbackTo(sqlite, id))
    PROVE  EngineAgrees' /\ sqlite'.commits = sqlite.commits
<1> DEFINE x == EngineRollbackTo(sqlite, id)
           m == Server!InnermostMark(id)
<1>1. sqlite' = x
  BY DEF Translated
<1>2. /\ blockOpen' = blockOpen /\ VisibleSet' = FrameMarks[m].kept /\ CommittedSet' = CommittedSet
      /\ FrameMarks' = SubSeq(FrameMarks, 1, m)
      /\ Server!Marked(id) # {}
  BY DEF Server!ServerRollbackTo
<1>3. /\ Saved(sqlite, id) # {} /\ LastSaved(sqlite, id) = m
      /\ m \in 1 .. Len(sqlite.saves) /\ m \in 0 .. Len(sqlite.saves)
  <2>1. m \in 1 .. Len(FrameMarks) /\ Len(FrameMarks) \in Nat
    BY <1>2, MarkedPosition, MarksType
  <2>2. Len(sqlite.saves) = Len(FrameMarks)
    BY DEF EngineAgrees, SavesMatch
  <2>3. Saved(sqlite, id) # {} /\ LastSaved(sqlite, id) = m
    BY <1>2, SavedIsMarked
  <2> HIDE DEF m
  <2> QED
    BY <2>1, <2>2, <2>3
<1> HIDE DEF m
<1>4. sqlite \in Engines /\ ~sqlite.failed
  BY DEF EngineAgrees
<1>5. /\ x \in Engines /\ ~x.failed /\ x.open = sqlite.open
      /\ x.rows = sqlite.saves[m].rows /\ x.file = sqlite.file /\ x.commits = sqlite.commits
      /\ x.saves = SubSeq(sqlite.saves, 1, m)
  BY <1>3, <1>4, RollbackToIs
<1> HIDE DEF x
<1>6. SavesMatch(x.saves, FrameMarks')
  BY <1>2, <1>3, <1>5, MarksType, SavesCut DEF EngineAgrees
<1>7. x.rows = FrameMarks[m].kept
  BY <1>3, <1>5 DEF EngineAgrees, SavesMatch
<1>8. EngineAgrees'
  BY <1>1, <1>2, <1>5, <1>6, <1>7 DEF EngineAgrees
<1> QED
  BY <1>1, <1>5, <1>8

LEMMA EngineAfterRun ==
    ASSUME OutlineInv, EngineAgrees, ~refused', Server!ServerRun,
           Translated(EngineRun(sqlite, Len(outcomes) + 1))
    PROVE  /\ EngineAgrees'
           /\ sqlite'.commits = IF blockOpen THEN sqlite.commits
                                ELSE sqlite.commits \cup {{Len(outcomes) + 1}}
<1> DEFINE n == Len(outcomes) + 1
           x == EngineRun(sqlite, n)
<1>1. sqlite' = x
  BY DEF Translated
<1>2. n \in Nat
  BY DEF OutlineInv, OutlineTypeOK
<1>3. /\ blockOpen' = blockOpen /\ VisibleSet' = VisibleSet \cup {n}
      /\ CommittedSet' = IF blockOpen THEN CommittedSet ELSE CommittedSet \cup {n}
      /\ FrameMarks' = FrameMarks
  BY DEF Server!ServerRun
<1> HIDE DEF n
<1>4. /\ x \in Engines /\ ~x.failed /\ x.open = sqlite.open /\ x.saves = sqlite.saves
      /\ x.rows = sqlite.rows \cup {n}
      /\ x.file = IF sqlite.open THEN sqlite.file ELSE sqlite.file \cup {n}
      /\ x.commits = IF sqlite.open THEN sqlite.commits ELSE sqlite.commits \cup {{n}}
  BY <1>2, RunIs DEF EngineAgrees
<1> HIDE DEF x
<1>5. EngineAgrees'
  BY <1>1, <1>3, <1>4 DEF EngineAgrees
<1> QED
  BY <1>1, <1>4, <1>5 DEF EngineAgrees, n

-----------------------------------------------------------------------------
(* Transaction numbers and commits.                                        *)

\* Positions, and what is appended to the transaction column.
LEMMA NumbersAppend ==
    ASSUME OutlineInv, NEW tx \in Nat \cup {NoTx}, transactions' = Append(transactions, tx)
    PROVE  LET n == Len(outcomes) + 1 IN
           /\ DOMAIN transactions = 1 .. Len(outcomes)
           /\ DOMAIN transactions' = DOMAIN transactions \cup {n}
           /\ n \notin DOMAIN transactions
           /\ transactions'[n] = tx
           /\ \A i \in DOMAIN transactions :
                 i \in Nat /\ i < n /\ transactions'[i] = transactions[i] /\ transactions[i] \in Nat \cup {NoTx}
           /\ VisibleSet \subseteq DOMAIN transactions
           /\ CommittedSet \subseteq VisibleSet
<1> DEFINE n == Len(outcomes) + 1
<1>1. /\ Len(outcomes) \in Nat /\ transactions \in Seq(Nat \cup {NoTx})
      /\ Len(transactions) = Len(outcomes)
  BY DEF OutlineInv, OutlineTypeOK
<1>2. DOMAIN transactions = 1 .. Len(outcomes)
  BY <1>1, LenProperties
<1>3. /\ transactions' \in Seq(Nat \cup {NoTx}) /\ Len(transactions') = n
      /\ transactions'[n] = tx
      /\ \A i \in 1 .. Len(outcomes) : transactions'[i] = transactions[i]
  BY <1>1, AppendProperties
<1>4. DOMAIN transactions' = 1 .. n
  BY <1>3, LenProperties
<1>5. \A i \in 1 .. Len(outcomes) : transactions[i] \in Nat \cup {NoTx}
  BY <1>1, <1>2, ElementOfSeq
<1>6. VisibleSet \subseteq 1 .. Len(outcomes) /\ CommittedSet \subseteq VisibleSet
  BY VisibleSplit
<1>7. 1 .. n = (1 .. Len(outcomes)) \cup {n} /\ n \notin 1 .. Len(outcomes)
      /\ \A i \in 1 .. Len(outcomes) : i \in Nat /\ i < n
  BY <1>1
<1> HIDE DEF n
<1> QED
  BY <1>2, <1>3, <1>4, <1>5, <1>6, <1>7 DEF n

\* Outside a block all that is visible is durable.
LEMMA OutsideBlock ==
    ASSUME OutlineInv, ~blockOpen
    PROVE  VisibleSet = CommittedSet
<1>1. pending = << >>
  BY DEF OutlineInv, PassesAgree
<1>2. Range(pending) = {}
  <2>1. DOMAIN pending = {}
    BY <1>1
  <2> QED
    BY <2>1 DEF Range
<1>3. CommittedSet = VisibleSet \ Range(pending)
  BY VisibleSplit
<1> QED
  BY <1>2, <1>3

\* A statement that leaves the block open, and adds nothing to it.
LEMMA NumbersStay ==
    ASSUME OutlineInv, BlockIsLast, transactions' = Append(transactions, NoTx),
           openTx' = openTx, nextTx' = nextTx, CommittedSet' = CommittedSet,
           VisibleSet' \subseteq VisibleSet
    PROVE  BlockIsLast'
<1> DEFINE n == Len(outcomes) + 1
<1>1. /\ DOMAIN transactions' = DOMAIN transactions \cup {n}
      /\ transactions'[n] = NoTx
      /\ \A i \in DOMAIN transactions : transactions'[i] = transactions[i]
      /\ VisibleSet \subseteq DOMAIN transactions
      /\ CommittedSet \subseteq VisibleSet
  BY NumbersAppend
<1>2. InBlock' \subseteq InBlock
  BY DEF InBlock
<1> HIDE DEF n
<1>3. \A i \in InBlock : i \in DOMAIN transactions
  BY <1>1 DEF InBlock
<1> QED
  BY <1>1, <1>2, <1>3 DEF BlockIsLast

\* A statement that ends a block, or opens one: nothing is in the block after it.
LEMMA NumbersTurn ==
    ASSUME OutlineInv, BlockIsLast, transactions' = Append(transactions, NoTx),
           \/ openTx' = nextTx /\ nextTx' = nextTx + 1
           \/ openTx' = NoTx /\ nextTx' = nextTx,
           CommittedSet' \subseteq VisibleSet, VisibleSet' = CommittedSet'
    PROVE  BlockIsLast'
<1> DEFINE n == Len(outcomes) + 1
<1>1. /\ DOMAIN transactions' = DOMAIN transactions \cup {n}
      /\ transactions'[n] = NoTx
      /\ \A i \in DOMAIN transactions :
            transactions'[i] = transactions[i] /\ transactions[i] \in Nat \cup {NoTx}
      /\ VisibleSet \subseteq DOMAIN transactions
  BY NumbersAppend
<1>2. InBlock' = {}
  BY DEF InBlock
<1> HIDE DEF n
<1>3. nextTx \in Nat /\ NoTx \notin Nat
  BY NamesAssumption DEF OutlineInv, OutlineTypeOK
<1>4. openTx' # NoTx => openTx' < nextTx'
  BY <1>3
<1>5. \A i \in DOMAIN transactions' : transactions'[i] # NoTx => transactions'[i] < nextTx'
  BY <1>1, <1>3 DEF BlockIsLast
<1>6. \A i \in CommittedSet' : transactions'[i] # NoTx => transactions'[i] # openTx'
  <2>1. \A i \in CommittedSet' : i \in DOMAIN transactions
    BY <1>1
  <2>2. \A i \in DOMAIN transactions : transactions[i] # NoTx => transactions[i] < nextTx
    BY DEF BlockIsLast
  <2> QED
    BY <1>1, <1>3, <2>1, <2>2
<1> QED
  BY <1>2, <1>4, <1>5, <1>6 DEF BlockIsLast

\* A statement after which the same statements are durable.
LEMMA CommitsStay ==
    ASSUME OutlineInv, CommitsAreDurable, GroupsCommitTogether,
           NEW tx \in Nat \cup {NoTx}, transactions' = Append(transactions, tx),
           CommittedSet' = CommittedSet, sqlite'.commits = sqlite.commits
    PROVE  CommitsAreDurable' /\ GroupsCommitTogether'
<1>1. \A i \in CommittedSet : transactions'[i] = transactions[i]
  BY NumbersAppend
<1>2. CommitsAreDurable'
  BY DEF CommitsAreDurable
<1>3. ASSUME NEW i \in CommittedSet', NEW j \in CommittedSet', transactions'[i] # NoTx
      PROVE  (transactions'[i] = transactions'[j])
                <=> \E c \in sqlite'.commits : {i, j} \subseteq c
  <2>1. i \in CommittedSet /\ j \in CommittedSet
    OBVIOUS
  <2>2. transactions'[i] = transactions[i] /\ transactions'[j] = transactions[j]
    BY <1>1, <2>1
  <2>3. (transactions[i] = transactions[j]) <=> \E c \in sqlite.commits : {i, j} \subseteq c
    BY <1>3, <2>1, <2>2 DEF GroupsCommitTogether
  <2> QED
    BY <2>2, <2>3
<1>4. GroupsCommitTogether'
  BY <1>3 DEF GroupsCommitTogether
<1> QED
  BY <1>2, <1>4

\* COMMIT makes the block durable as one set, under the block's number.
LEMMA CommitsGrow ==
    ASSUME OutlineInv, BlockIsLast, CommitsAreDurable, GroupsCommitTogether,
           transactions' = Append(transactions, NoTx), openTx # NoTx,
           CommittedSet' = VisibleSet, sqlite'.commits = sqlite.commits \cup {InBlock}
    PROVE  CommitsAreDurable' /\ GroupsCommitTogether'
<1>1. /\ CommittedSet \subseteq VisibleSet
      /\ \A i \in VisibleSet : transactions'[i] = transactions[i]
  BY NumbersAppend
<1>2. CommitsAreDurable'
  BY <1>1 DEF CommitsAreDurable, InBlock
<1>3. ASSUME NEW i \in VisibleSet, NEW j \in VisibleSet, transactions[i] # NoTx
      PROVE  (transactions[i] = transactions[j])
                <=> \E c \in sqlite'.commits : {i, j} \subseteq c
  <2>1. CASE i \in CommittedSet /\ j \in CommittedSet
    <3>1. ~({i, j} \subseteq InBlock)
      BY <2>1 DEF InBlock
    <3>2. (transactions[i] = transactions[j]) <=> \E c \in sqlite.commits : {i, j} \subseteq c
      BY <1>3, <2>1 DEF GroupsCommitTogether
    <3> QED
      BY <3>1, <3>2
  <2>2. CASE i \in InBlock /\ j \in InBlock
    BY <2>2 DEF BlockIsLast
  <2>3. CASE (i \in CommittedSet /\ j \in InBlock) \/ (i \in InBlock /\ j \in CommittedSet)
    <3>1. transactions[i] # transactions[j]
      BY <1>3, <2>3 DEF BlockIsLast
    <3>2. ~({i, j} \subseteq InBlock)
      BY <2>3 DEF InBlock
    <3>3. \A c \in sqlite.commits : ~({i, j} \subseteq c)
      BY <2>3 DEF CommitsAreDurable, InBlock
    <3> QED
      BY <3>1, <3>2, <3>3
  <2> QED
    BY <2>1, <2>2, <2>3 DEF InBlock
<1>4. ASSUME NEW i \in CommittedSet', NEW j \in CommittedSet', transactions'[i] # NoTx
      PROVE  (transactions'[i] = transactions'[j])
                <=> \E c \in sqlite'.commits : {i, j} \subseteq c
  <2>1. i \in VisibleSet /\ j \in VisibleSet
    OBVIOUS
  <2>2. transactions'[i] = transactions[i] /\ transactions'[j] = transactions[j]
    BY <1>1, <2>1
  <2> QED
    BY <1>3, <1>4, <2>1, <2>2
<1>5. GroupsCommitTogether'
  BY <1>4 DEF GroupsCommitTogether
<1> QED
  BY <1>2, <1>5

\* An ordinary statement joins the block, or commits alone and without a number.
LEMMA NumbersRun ==
    ASSUME OutlineInv, BlockIsLast, CommitsAreDurable, GroupsCommitTogether,
           transactions' = Append(transactions, openTx), openTx' = openTx, nextTx' = nextTx,
           VisibleSet' = VisibleSet \cup {Len(outcomes) + 1},
           CommittedSet' = IF blockOpen THEN CommittedSet ELSE CommittedSet \cup {Len(outcomes) + 1},
           sqlite'.commits = IF blockOpen THEN sqlite.commits
                             ELSE sqlite.commits \cup {{Len(outcomes) + 1}}
    PROVE  BlockIsLast' /\ CommitsAreDurable' /\ GroupsCommitTogether'
<1> DEFINE n == Len(outcomes) + 1
<1>1. openTx \in Nat \cup {NoTx} /\ NoTx \notin Nat /\ nextTx \in Nat /\ (blockOpen <=> openTx # NoTx)
  BY NamesAssumption DEF OutlineInv, OutlineTypeOK, PassesAgree
<1>2. /\ DOMAIN transactions' = DOMAIN transactions \cup {n}
      /\ n \notin DOMAIN transactions
      /\ transactions'[n] = openTx
      /\ \A i \in DOMAIN transactions : i < n /\ transactions'[i] = transactions[i]
      /\ VisibleSet \subseteq DOMAIN transactions
      /\ CommittedSet \subseteq VisibleSet
  BY <1>1, NumbersAppend
<1>3. VisibleSet' = VisibleSet \cup {n} /\ n \notin VisibleSet
  BY <1>2
<1>4. CASE blockOpen
  <2>1. CommittedSet' = CommittedSet /\ InBlock' = InBlock \cup {n} /\ sqlite'.commits = sqlite.commits
    BY <1>2, <1>3, <1>4 DEF InBlock
  <2> HIDE DEF n
  <2>2. \A i \in CommittedSet : i < n /\ transactions'[i] = transactions[i]
    BY <1>2
  <2>3. \A i \in InBlock : transactions'[i] = transactions[i]
    BY <1>2 DEF InBlock
  <2>4. BlockIsLast'
    BY <1>1, <1>2, <2>1, <2>2, <2>3 DEF BlockIsLast
  <2> QED
    BY <1>1, <2>1, <2>4, CommitsStay
<1>5. CASE ~blockOpen
  <2>1. openTx = NoTx /\ VisibleSet = CommittedSet
    BY <1>1, <1>5, OutsideBlock
  <2>2. CommittedSet' = CommittedSet \cup {n} /\ InBlock' = {} /\ sqlite'.commits = sqlite.commits \cup {{n}}
    BY <1>3, <1>5, <2>1 DEF InBlock
  <2> HIDE DEF n
  <2>3. BlockIsLast'
    BY <1>2, <2>1, <2>2 DEF BlockIsLast
  <2>4. CommitsAreDurable'
    BY <2>2 DEF CommitsAreDurable
  <2>5. ASSUME NEW i \in CommittedSet', NEW j \in CommittedSet', transactions'[i] # NoTx
        PROVE  (transactions'[i] = transactions'[j])
                  <=> \E c \in sqlite'.commits : {i, j} \subseteq c
    <3>1. i \in CommittedSet /\ i # n /\ transactions'[i] = transactions[i]
      BY <1>2, <2>1, <2>2, <2>5
    <3>2. CASE j = n
      <4>1. \A c \in sqlite.commits : j \notin c
        BY <1>2, <3>2 DEF CommitsAreDurable
      <4>2. ~({i, j} \subseteq {n})
        BY <3>1
      <4> QED
        BY <1>2, <2>1, <2>2, <2>5, <3>2, <4>1, <4>2
    <3>3. CASE j \in CommittedSet
      <4>1. (transactions[i] = transactions[j]) <=> \E c \in sqlite.commits : {i, j} \subseteq c
        BY <2>5, <3>1, <3>3 DEF GroupsCommitTogether
      <4>2. ~({i, j} \subseteq {n})
        BY <3>1
      <4>3. transactions'[j] = transactions[j]
        BY <1>2, <3>3
      <4> QED
        BY <2>2, <3>1, <4>1, <4>2, <4>3
    <3> QED
      BY <2>2, <3>2, <3>3
  <2>6. GroupsCommitTogether'
    BY <2>5 DEF GroupsCommitTogether
  <2> QED
    BY <2>3, <2>4, <2>6
<1> QED
  BY <1>4, <1>5

-----------------------------------------------------------------------------
(* What each statement ran on.                                             *)

\* A control statement keeps a first part of what is visible, or all of it.
LEMMA SawShrinks ==
    ASSUME OutlineInv, SawVisible, ~refused, saw' = Append(saw, {}),
           Len(outcomes') = Len(outcomes) + 1, VisibleSet' \subseteq VisibleSet,
           \A i \in VisibleSet', j \in VisibleSet : j < i => j \in VisibleSet'
    PROVE  SawVisible'
<1>1. Len(outcomes) \in Nat /\ VisibleSet \subseteq 1 .. Len(outcomes)
  BY VisibleSplit DEF OutlineInv, OutlineTypeOK
<1>2. saw \in Seq(SUBSET Nat) /\ Len(saw) = Len(outcomes)
  BY DEF SawVisible
<1>3. /\ saw' \in Seq(SUBSET Nat) /\ Len(saw') = Len(outcomes')
      /\ \A i \in 1 .. Len(outcomes) : saw'[i] = saw[i]
  BY <1>2, AppendProperties
<1>4. ASSUME NEW i \in VisibleSet'
      PROVE  saw'[i] = {j \in VisibleSet' : j < i}
  <2>1. saw'[i] = {j \in VisibleSet : j < i}
    BY <1>1, <1>3 DEF SawVisible
  <2> QED
    BY <2>1
<1>5. Len(outcomes') <= Len(saw')
  BY <1>1, <1>3
<1> QED
  BY <1>3, <1>4, <1>5 DEF SawVisible

\* An ordinary statement runs on all that is visible.
LEMMA SawRun ==
    ASSUME OutlineInv, SawVisible, ~refused, saw' = Append(saw, VisibleSet),
           Len(outcomes') = Len(outcomes) + 1,
           VisibleSet' = VisibleSet \cup {Len(outcomes) + 1}
    PROVE  SawVisible'
<1> DEFINE n == Len(outcomes) + 1
<1>1. Len(outcomes) \in Nat /\ VisibleSet \subseteq 1 .. Len(outcomes)
  BY VisibleSplit DEF OutlineInv, OutlineTypeOK
<1>2. saw \in Seq(SUBSET Nat) /\ Len(saw) = Len(outcomes) /\ VisibleSet \in SUBSET Nat
  BY <1>1 DEF SawVisible
<1>3. /\ saw' \in Seq(SUBSET Nat) /\ Len(saw') = n /\ saw'[n] = VisibleSet
      /\ \A i \in 1 .. Len(outcomes) : saw'[i] = saw[i]
  BY <1>2, AppendProperties
<1>4. \A i \in VisibleSet : i \in Nat /\ i < n /\ i \in 1 .. Len(outcomes)
  BY <1>1
<1>5. n \in Nat /\ Len(outcomes') <= Len(saw')
  BY <1>1, <1>3
<1> HIDE DEF n
<1>6. ASSUME NEW i \in VisibleSet \cup {n}
      PROVE  saw'[i] = {j \in VisibleSet \cup {n} : j < i}
  <2>1. CASE i = n
    <3>1. ~(n < n) /\ \A j \in VisibleSet : j < n
      BY <1>4, <1>5
    <3>2. {j \in VisibleSet \cup {n} : j < n} = VisibleSet
      BY <3>1
    <3> QED
      BY <1>3, <2>1, <3>2
  <2>2. CASE i \in VisibleSet
    <3>1. saw'[i] = {j \in VisibleSet : j < i}
      BY <1>3, <1>4, <2>2 DEF SawVisible
    <3>2. ~(n < i)
      BY <1>4, <1>5, <2>2
    <3> QED
      BY <3>1, <3>2
  <2> QED
    BY <2>1, <2>2
<1>7. VisibleSet' = VisibleSet \cup {n} /\ Len(saw') = Len(outcomes')
  BY <1>3 DEF n
<1> QED
  BY <1>3, <1>5, <1>6, <1>7 DEF SawVisible

-----------------------------------------------------------------------------
(* One statement of the batch.                                             *)

\* The batch is refused: nothing of it runs.
LEMMA RefusedStep ==
    ASSUME ReplicaInv, Refuse, sqlite' = sqlite, NEW x \in SUBSET Nat, saw' = Append(saw, x)
    PROVE  ReplicaInv'
<1>1. OutlineInv /\ OutlineInv'
  BY RefuseStep DEF ReplicaInv
<1>2. /\ VisibleSet' = VisibleSet /\ CommittedSet' = CommittedSet /\ FrameMarks' = FrameMarks
      /\ blockOpen' = blockOpen /\ openTx' = openTx /\ nextTx' = nextTx
      /\ transactions' = transactions /\ outcomes' = outcomes /\ refused' = TRUE
  BY DEF Refuse, VisibleSet, CommittedSet, Outcome, FrameMarks
<1>3. EngineAgrees'
  BY <1>2 DEF ReplicaInv, EngineAgrees
<1>4. InBlock' = InBlock
  BY <1>2 DEF InBlock
<1>5. BlockIsLast'
  BY <1>2, <1>4 DEF ReplicaInv, BlockIsLast
<1>6. CommitsAreDurable' /\ GroupsCommitTogether'
  BY <1>2 DEF ReplicaInv, CommitsAreDurable, GroupsCommitTogether
<1>7. SawVisible'
  <2>1. Len(outcomes) \in Nat /\ VisibleSet \subseteq 1 .. Len(outcomes)
    BY <1>1, VisibleSplit DEF OutlineInv, OutlineTypeOK
  <2>2. saw \in Seq(SUBSET Nat) /\ Len(outcomes) <= Len(saw) /\ Len(saw) \in Nat
    BY DEF ReplicaInv, SawVisible
  <2>3. /\ saw' \in Seq(SUBSET Nat) /\ Len(saw') = Len(saw) + 1
        /\ \A i \in 1 .. Len(saw) : saw'[i] = saw[i]
    BY <2>2, AppendProperties
  <2>4. Len(outcomes) <= Len(saw')
    BY <2>1, <2>2, <2>3
  <2>5. \A i \in VisibleSet : i \in 1 .. Len(saw)
    BY <2>1, <2>2
  <2>6. \A i \in VisibleSet : saw[i] = {j \in VisibleSet : j < i}
    BY DEF ReplicaInv, SawVisible
  <2> QED
    BY <1>2, <2>3, <2>4, <2>5, <2>6 DEF SawVisible
<1> QED
  BY <1>1, <1>3, <1>5, <1>6, <1>7 DEF ReplicaInv

\* A control statement that neither opens nor ends a block.
LEMMA StayStep ==
    ASSUME ReplicaInv, OutlineInv', EngineAgrees', ~refused, saw' = Append(saw, {}),
           transactions' = Append(transactions, NoTx), openTx' = openTx, nextTx' = nextTx,
           Len(outcomes') = Len(outcomes) + 1, CommittedSet' = CommittedSet,
           sqlite'.commits = sqlite.commits, VisibleSet' \subseteq VisibleSet,
           \A i \in VisibleSet', j \in VisibleSet : j < i => j \in VisibleSet'
    PROVE  ReplicaInv'
<1> USE DEF ReplicaInv
<1>1. BlockIsLast'
  BY NumbersStay
<1>2. CommitsAreDurable' /\ GroupsCommitTogether'
  BY CommitsStay
<1>3. SawVisible'
  BY SawShrinks
<1> QED
  BY <1>1, <1>2, <1>3

\* A control statement that opens a block or ends one, keeping it or not.
LEMMA TurnStep ==
    ASSUME ReplicaInv, OutlineInv', EngineAgrees', ~refused, saw' = Append(saw, {}),
           transactions' = Append(transactions, NoTx), Len(outcomes') = Len(outcomes) + 1,
           \/ openTx' = nextTx /\ nextTx' = nextTx + 1
           \/ openTx' = NoTx /\ nextTx' = nextTx,
           VisibleSet' = CommittedSet',
           \/ /\ CommittedSet' = CommittedSet
              /\ sqlite'.commits = sqlite.commits
           \/ /\ openTx # NoTx
              /\ CommittedSet' = VisibleSet
              /\ sqlite'.commits = sqlite.commits \cup {InBlock}
    PROVE  ReplicaInv'
<1>1. CommittedSet \subseteq VisibleSet /\ VisibleSet \in SUBSET Nat
  BY VisibleSplit DEF ReplicaInv, EngineAgrees, Engines
<1>2. CommittedSet' \subseteq VisibleSet
  BY <1>1
<1>3. BlockIsLast'
  BY <1>2, NumbersTurn DEF ReplicaInv
<1>4. CommitsAreDurable' /\ GroupsCommitTogether'
  <2>1. CASE CommittedSet' = CommittedSet /\ sqlite'.commits = sqlite.commits
    BY <2>1, CommitsStay DEF ReplicaInv
  <2>2. CASE /\ openTx # NoTx
             /\ CommittedSet' = VisibleSet
             /\ sqlite'.commits = sqlite.commits \cup {InBlock}
    BY <2>2, CommitsGrow DEF ReplicaInv
  <2> QED
    BY <2>1, <2>2
<1>5. \A i \in VisibleSet', j \in VisibleSet : j < i => j \in VisibleSet'
  <2>1. SUFFICES ASSUME VisibleSet' = CommittedSet,
                        NEW i \in CommittedSet, NEW j \in VisibleSet, j < i
                 PROVE  j \in CommittedSet
    OBVIOUS
  <2>2. j \in InBlock => i < j
    BY DEF ReplicaInv, BlockIsLast
  <2>3. i \in Nat /\ j \in Nat
    BY <1>1
  <2> QED
    BY <2>1, <2>2, <2>3 DEF InBlock
<1>6. SawVisible'
  BY <1>2, <1>5, SawShrinks DEF ReplicaInv
<1> QED
  BY <1>3, <1>4, <1>6 DEF ReplicaInv

\* The hypotheses of the batch: it names savepoints that are there, and by
\* names that fold apart.
Sound == ~Misnamed /\ OneSpelling

LEMMA BeginStays ==
    ASSUME Sound, ReplicaInv, OutlineInv', ReplicaBegin
    PROVE  ReplicaInv'
<1>1. OutlineInv /\ EngineAgrees /\ blockOpen \in BOOLEAN
  BY DEF ReplicaInv, OutlineInv, OutlineTypeOK
<1>2. Begin /\ Translated(EmitBegin(sqlite)) /\ saw' = Append(saw, {})
  BY DEF ReplicaBegin
<1>3. /\ ~refused /\ ~refused' /\ transactions' = Append(transactions, NoTx)
      /\ blockOpen => openTx' = openTx /\ nextTx' = nextTx
      /\ ~blockOpen => openTx' = nextTx /\ nextTx' = nextTx + 1
  BY <1>2 DEF Begin, Reading, DropNoOp, Settle, EnterBlock
<1>4. Server!ServerBegin
  BY <1>1, <1>2, <1>3, StatementImplements DEF Sound, SameStatement
<1>5. VisibleSet' = VisibleSet /\ CommittedSet' = CommittedSet /\ Len(outcomes') = Len(outcomes) + 1
  BY <1>4 DEF Server!ServerBegin, Server!ServerTick
<1>6. EngineAgrees' /\ sqlite'.commits = sqlite.commits
  BY <1>1, <1>2, <1>3, <1>4, EngineAfterBegin
<1>7. CASE blockOpen
  BY <1>2, <1>3, <1>5, <1>6, <1>7, StayStep
<1>8. CASE ~blockOpen
  <2>1. VisibleSet' = CommittedSet'
    BY <1>1, <1>5, <1>8, OutsideBlock
  <2> QED
    BY <1>2, <1>3, <1>5, <1>6, <1>8, <2>1, TurnStep
<1> QED
  BY <1>7, <1>8

\* COMMIT and ROLLBACK: what reading one leaves in the outline's counters.
LEMMA EndBlockCounters ==
    ASSUME NEW outcome, NEW chain \in BOOLEAN, EndBlock(outcome, chain), ~refused'
    PROVE  /\ ~refused /\ transactions' = Append(transactions, NoTx)
           /\ ~blockOpen => openTx' = openTx /\ nextTx' = nextTx
           /\ blockOpen => \/ openTx' = nextTx /\ nextTx' = nextTx + 1
                           \/ openTx' = NoTx /\ nextTx' = nextTx
<1>1. ~refused
  BY DEF EndBlock, Reading
<1>2. ~Refuse
  BY DEF Refuse
<1>3. CASE DropNoOp /\ ~blockOpen
  BY <1>1, <1>3 DEF DropNoOp, Settle
<1>4. CASE /\ blockOpen
           /\ Settle(Range(pending), outcome)
           /\ IF chain THEN EnterBlock ELSE LeaveBlock
  BY <1>1, <1>4 DEF Settle, EnterBlock, LeaveBlock
<1> QED
  BY <1>2, <1>3, <1>4 DEF EndBlock

\* COMMIT or ROLLBACK outside a block.
LEMMA IdleEndStays ==
    ASSUME ReplicaInv, OutlineInv', ~refused, ~blockOpen, sqlite' = sqlite,
           saw' = Append(saw, {}), Server!ServerIdleEnd,
           transactions' = Append(transactions, NoTx), openTx' = openTx, nextTx' = nextTx
    PROVE  ReplicaInv'
<1>1. VisibleSet' = VisibleSet /\ CommittedSet' = CommittedSet /\ Len(outcomes') = Len(outcomes) + 1
  BY DEF Server!ServerIdleEnd, Server!ServerTick
<1>2. EngineAgrees' /\ sqlite'.commits = sqlite.commits
  BY EngineAfterIdleEnd DEF ReplicaInv
<1> QED
  BY <1>1, <1>2, StayStep

LEMMA CommitStays ==
    ASSUME Sound, ReplicaInv, OutlineInv', NEW chain \in BOOLEAN, ReplicaCommit(chain)
    PROVE  ReplicaInv'
<1>1. OutlineInv /\ EngineAgrees /\ blockOpen \in BOOLEAN /\ (blockOpen <=> openTx # NoTx)
  BY DEF ReplicaInv, OutlineInv, OutlineTypeOK, PassesAgree
<1>2. /\ Commit(chain) /\ EndBlock("Committed", chain)
      /\ Translated(EmitCommit(sqlite, chain)) /\ saw' = Append(saw, {})
  BY DEF ReplicaCommit, Commit
<1>3. CASE refused'
  <2>1. Refuse
    BY <1>2, <1>3 DEF EndBlock, Reading, DropNoOp
  <2>2. sqlite' = sqlite
    BY <1>2, <1>3 DEF Translated
  <2>3. saw' = Append(saw, {}) /\ {} \in SUBSET Nat
    BY <1>2
  <2> QED
    BY <2>1, <2>2, <2>3, RefusedStep
<1>4. CASE ~refused'
  <2>1. /\ ~refused /\ transactions' = Append(transactions, NoTx)
        /\ ~blockOpen => openTx' = openTx /\ nextTx' = nextTx
        /\ blockOpen => \/ openTx' = nextTx /\ nextTx' = nextTx + 1
                        \/ openTx' = NoTx /\ nextTx' = nextTx
    BY <1>2, <1>4, EndBlockCounters
  <2>2. IF blockOpen THEN Server!ServerCommit(chain) ELSE Server!ServerIdleEnd
    BY <1>1, <1>2, <1>4, StatementImplements DEF Sound, SameStatement
  <2>3. CASE ~blockOpen
    <3>1. sqlite' = sqlite
      BY <1>2, <1>4, <2>3 DEF Translated, EmitCommit
    <3> QED
      BY <1>2, <2>1, <2>2, <2>3, <3>1, IdleEndStays
  <2>4. CASE blockOpen
    <3>1. Server!ServerCommit(chain)
      BY <2>2, <2>4
    <3>2. VisibleSet' = VisibleSet /\ CommittedSet' = VisibleSet /\ Len(outcomes') = Len(outcomes) + 1
      BY <3>1 DEF Server!ServerCommit, Server!ServerTick
    <3>3. EngineAgrees' /\ sqlite'.commits = sqlite.commits \cup {InBlock}
      BY <1>1, <1>2, <1>4, <2>4, <3>1, EngineAfterCommit
    <3> QED
      BY <1>1, <1>2, <2>1, <2>4, <3>2, <3>3, TurnStep
  <2> QED
    BY <2>3, <2>4
<1> QED
  BY <1>3, <1>4

LEMMA RollbackStays ==
    ASSUME Sound, ReplicaInv, OutlineInv', NEW chain \in BOOLEAN, ReplicaRollback(chain)
    PROVE  ReplicaInv'
<1>1. OutlineInv /\ EngineAgrees /\ blockOpen \in BOOLEAN
  BY DEF ReplicaInv, OutlineInv, OutlineTypeOK
<1>2. /\ Rollback(chain) /\ EndBlock("Undone", chain)
      /\ Translated(EmitRollback(sqlite, chain)) /\ saw' = Append(saw, {})
  BY DEF ReplicaRollback, Rollback
<1>3. CASE refused'
  <2>1. Refuse
    BY <1>2, <1>3 DEF EndBlock, Reading, DropNoOp
  <2>2. sqlite' = sqlite
    BY <1>2, <1>3 DEF Translated
  <2>3. saw' = Append(saw, {}) /\ {} \in SUBSET Nat
    BY <1>2
  <2> QED
    BY <2>1, <2>2, <2>3, RefusedStep
<1>4. CASE ~refused'
  <2>1. /\ ~refused /\ transactions' = Append(transactions, NoTx)
        /\ ~blockOpen => openTx' = openTx /\ nextTx' = nextTx
        /\ blockOpen => \/ openTx' = nextTx /\ nextTx' = nextTx + 1
                        \/ openTx' = NoTx /\ nextTx' = nextTx
    BY <1>2, <1>4, EndBlockCounters
  <2>2. IF blockOpen THEN Server!ServerRollback(chain) ELSE Server!ServerIdleEnd
    BY <1>1, <1>2, <1>4, StatementImplements DEF Sound, SameStatement
  <2>3. CASE ~blockOpen
    <3>1. sqlite' = sqlite
      BY <1>2, <1>4, <2>3 DEF Translated, EmitRollback
    <3> QED
      BY <1>2, <2>1, <2>2, <2>3, <3>1, IdleEndStays
  <2>4. CASE blockOpen
    <3>1. Server!ServerRollback(chain)
      BY <2>2, <2>4
    <3>2. VisibleSet' = CommittedSet /\ CommittedSet' = CommittedSet /\ Len(outcomes') = Len(outcomes) + 1
      BY <3>1 DEF Server!ServerRollback, Server!ServerTick
    <3>3. EngineAgrees' /\ sqlite'.commits = sqlite.commits
      BY <1>1, <1>2, <1>4, <2>4, <3>1, EngineAfterRollback
    <3> QED
      BY <1>2, <2>1, <2>4, <3>2, <3>3, TurnStep
  <2> QED
    BY <2>3, <2>4
<1> QED
  BY <1>3, <1>4

LEMMA SavepointStays ==
    ASSUME Sound, ReplicaInv, OutlineInv', NEW id \in Sources, ReplicaSavepoint(id)
    PROVE  ReplicaInv'
<1>1. OutlineInv /\ EngineAgrees /\ BlockIsLast
  BY DEF ReplicaInv
<1>2. /\ Savepoint(id) /\ Translated(EngineSavepoint(sqlite, id)) /\ saw' = Append(saw, {})
  BY DEF ReplicaSavepoint
<1>3. CASE refused'
  <2>1. Refuse
    BY <1>2, <1>3 DEF Savepoint, Reading
  <2>2. sqlite' = sqlite
    BY <1>2, <1>3 DEF Translated
  <2>3. saw' = Append(saw, {}) /\ {} \in SUBSET Nat
    BY <1>2
  <2> QED
    BY <2>1, <2>2, <2>3, RefusedStep
<1>4. CASE ~refused'
  <2>1. /\ ~refused /\ transactions' = Append(transactions, NoTx)
        /\ openTx' = openTx /\ nextTx' = nextTx
    BY <1>2, <1>4 DEF Savepoint, Reading, Refuse, Settle
  <2>2. Server!ServerSavepoint(id)
    BY <1>1, <1>2, <1>4, StatementImplements DEF Sound, SameStatement
  <2>3. EngineAgrees' /\ sqlite'.commits = sqlite.commits
    BY <1>1, <1>2, <1>4, <2>2, EngineAfterSavepoint DEF Sound
  <2>4. VisibleSet' = VisibleSet /\ CommittedSet' = CommittedSet /\ Len(outcomes') = Len(outcomes) + 1
    BY <2>2 DEF Server!ServerSavepoint, Server!ServerTick
  <2> QED
    BY <1>2, <2>1, <2>3, <2>4, StayStep
<1> QED
  BY <1>3, <1>4

LEMMA ReleaseStays ==
    ASSUME Sound, ReplicaInv, OutlineInv', NEW id \in Sources, ReplicaRelease(id)
    PROVE  ReplicaInv'
<1>1. OutlineInv /\ EngineAgrees /\ BlockIsLast
  BY DEF ReplicaInv
<1>2. /\ ReleaseSavepoint(id) /\ Translated(EngineRelease(sqlite, id)) /\ saw' = Append(saw, {})
  BY DEF ReplicaRelease
<1>3. CASE refused'
  <2>1. Refuse
    BY <1>2, <1>3 DEF ReleaseSavepoint, Reading
  <2>2. sqlite' = sqlite
    BY <1>2, <1>3 DEF Translated
  <2>3. saw' = Append(saw, {}) /\ {} \in SUBSET Nat
    BY <1>2
  <2> QED
    BY <2>1, <2>2, <2>3, RefusedStep
<1>4. CASE ~refused'
  <2>1. /\ ~refused /\ transactions' = Append(transactions, NoTx)
        /\ openTx' = openTx /\ nextTx' = nextTx
    BY <1>2, <1>4 DEF ReleaseSavepoint, Reading, Refuse, Settle
  <2>2. Server!ServerRelease(id)
    BY <1>1, <1>2, <1>4, StatementImplements DEF Sound, SameStatement
  <2>3. EngineAgrees' /\ sqlite'.commits = sqlite.commits
    BY <1>1, <1>2, <1>4, <2>2, EngineAfterRelease DEF Sound
  <2>4. VisibleSet' = VisibleSet /\ CommittedSet' = CommittedSet /\ Len(outcomes') = Len(outcomes) + 1
    BY <2>2 DEF Server!ServerRelease, Server!ServerTick
  <2> QED
    BY <1>2, <2>1, <2>3, <2>4, StayStep
<1> QED
  BY <1>3, <1>4

LEMMA RollbackToStays ==
    ASSUME Sound, ReplicaInv, OutlineInv', NEW id \in Sources, ReplicaRollbackTo(id)
    PROVE  ReplicaInv'
<1>1. OutlineInv /\ EngineAgrees /\ BlockIsLast
  BY DEF ReplicaInv
<1>2. /\ RollbackTo(id) /\ Translated(EngineRollbackTo(sqlite, id)) /\ saw' = Append(saw, {})
  BY DEF ReplicaRollbackTo
<1>3. CASE refused'
  <2>1. Refuse
    BY <1>2, <1>3 DEF RollbackTo, Reading
  <2>2. sqlite' = sqlite
    BY <1>2, <1>3 DEF Translated
  <2>3. saw' = Append(saw, {}) /\ {} \in SUBSET Nat
    BY <1>2
  <2> QED
    BY <2>1, <2>2, <2>3, RefusedStep
<1>4. CASE ~refused'
  <2>1. /\ ~refused /\ transactions' = Append(transactions, NoTx)
        /\ openTx' = openTx /\ nextTx' = nextTx
    BY <1>2, <1>4 DEF RollbackTo, Reading, Refuse, Settle
  <2>2. Server!ServerRollbackTo(id)
    BY <1>1, <1>2, <1>4, StatementImplements DEF Sound, SameStatement
  <2>3. EngineAgrees' /\ sqlite'.commits = sqlite.commits
    BY <1>1, <1>2, <1>4, <2>2, EngineAfterRollbackTo DEF Sound
  <2> DEFINE m == Server!InnermostMark(id)
             kept == FrameMarks[m].kept
  <2>4. /\ VisibleSet' = kept /\ CommittedSet' = CommittedSet
        /\ Len(outcomes') = Len(outcomes) + 1 /\ Server!Marked(id) # {}
    BY <2>2 DEF Server!ServerRollbackTo, Server!ServerTick
  <2>5. m \in DOMAIN FrameMarks
    BY <1>1, <2>4, MarkedPosition, MarksType
  <2> HIDE DEF m
  <2>6. kept \subseteq VisibleSet /\ \A i \in kept, j \in VisibleSet : j < i => j \in kept
    BY <1>1, <2>5, MarkKept
  <2> HIDE DEF kept
  <2> QED
    BY <1>2, <2>1, <2>3, <2>4, <2>6, StayStep
<1> QED
  BY <1>3, <1>4

LEMMA RunStays ==
    ASSUME Sound, ReplicaInv, OutlineInv', ReplicaRun
    PROVE  ReplicaInv'
<1>1. /\ OutlineInv /\ EngineAgrees /\ BlockIsLast /\ CommitsAreDurable
      /\ GroupsCommitTogether /\ SawVisible
  BY DEF ReplicaInv
<1>2. /\ Run \/ CreateIndexConcurrently
      /\ Translated(EngineRun(sqlite, Len(outcomes) + 1)) /\ saw' = Append(saw, VisibleSet)
      /\ VisibleSet \in SUBSET Nat
  BY <1>1 DEF ReplicaRun, EngineAgrees, Engines
<1>3. CASE refused'
  <2>1. Refuse
    BY <1>2, <1>3 DEF CreateIndexConcurrently, Run, Reading
  <2>2. sqlite' = sqlite
    BY <1>2, <1>3 DEF Translated
  <2> QED
    BY <1>2, <2>1, <2>2, RefusedStep
<1>4. CASE ~refused'
  <2>1. Run
    BY <1>2, <1>4 DEF CreateIndexConcurrently, Refuse
  <2>2. /\ ~refused /\ transactions' = Append(transactions, openTx)
        /\ openTx' = openTx /\ nextTx' = nextTx
    BY <2>1 DEF Run, Reading
  <2>3. Server!ServerRun
    BY <1>1, <1>4, <2>1, StatementImplements DEF Sound, SameStatement
  <2>4. /\ VisibleSet' = VisibleSet \cup {Len(outcomes) + 1}
        /\ CommittedSet' = IF blockOpen THEN CommittedSet ELSE CommittedSet \cup {Len(outcomes) + 1}
        /\ Len(outcomes') = Len(outcomes) + 1
    BY <2>3 DEF Server!ServerRun, Server!ServerTick
  <2>5. /\ EngineAgrees'
        /\ sqlite'.commits = IF blockOpen THEN sqlite.commits
                             ELSE sqlite.commits \cup {{Len(outcomes) + 1}}
    BY <1>1, <1>2, <1>4, <2>3, EngineAfterRun
  <2>6. BlockIsLast' /\ CommitsAreDurable' /\ GroupsCommitTogether'
    BY <1>1, <2>2, <2>4, <2>5, NumbersRun
  <2>7. SawVisible'
    BY <1>1, <1>2, <2>2, <2>4, SawRun
  <2> QED
    BY <2>5, <2>6, <2>7 DEF ReplicaInv
<1> QED
  BY <1>3, <1>4

\* Every step of the translation preserves the invariant.
LEMMA ReplicaStep ==
    ASSUME Sound, ReplicaInv, ReplicaNext
    PROVE  ReplicaInv'
<1>1. OutlineNext
  BY DEF ReplicaNext, OutlineNext, ReplicaBegin, ReplicaRun, ReplicaCommit, ReplicaRollback,
         ReplicaSavepoint, ReplicaRelease, ReplicaRollbackTo
<1>2. OutlineInv'
  BY <1>1, OutlineStep DEF ReplicaInv
<1>3. CASE ReplicaBegin
  BY <1>2, <1>3, BeginStays
<1>4. CASE ReplicaRun
  BY <1>2, <1>4, RunStays
<1>5. CASE \E chain \in BOOLEAN : ReplicaCommit(chain) \/ ReplicaRollback(chain)
  BY <1>2, <1>5, CommitStays, RollbackStays
<1>6. CASE \E id \in Sources :
              ReplicaSavepoint(id) \/ ReplicaRelease(id) \/ ReplicaRollbackTo(id)
  BY <1>2, <1>6, SavepointStays, ReleaseStays, RollbackToStays
<1> QED
  BY <1>3, <1>4, <1>5, <1>6 DEF ReplicaNext

LEMMA ReplicaStutter ==
    ASSUME ReplicaInv, UNCHANGED replicaVars
    PROVE  ReplicaInv'
<1>1. /\ VisibleSet' = VisibleSet /\ CommittedSet' = CommittedSet /\ FrameMarks' = FrameMarks
      /\ sqlite' = sqlite /\ saw' = saw /\ refused' = refused /\ blockOpen' = blockOpen
      /\ outcomes' = outcomes /\ transactions' = transactions /\ frames' = frames
      /\ pending' = pending /\ openTx' = openTx /\ nextTx' = nextTx
  BY DEF replicaVars, outlineVars, VisibleSet, CommittedSet, Outcome, FrameMarks
<1>2. InBlock' = InBlock
  BY <1>1 DEF InBlock
<1>3. OutlineInv'
  BY <1>1 DEF ReplicaInv, OutlineInv, OutlineTypeOK, PassesAgree, FramesNest, PendingIsTheBlock
<1>4. EngineAgrees' /\ SawVisible'
  BY <1>1 DEF ReplicaInv, EngineAgrees, SawVisible
<1>5. BlockIsLast'
  BY <1>1, <1>2 DEF ReplicaInv, BlockIsLast
<1>6. CommitsAreDurable' /\ GroupsCommitTogether'
  BY <1>1 DEF ReplicaInv, CommitsAreDurable, GroupsCommitTogether
<1> QED
  BY <1>3, <1>4, <1>5, <1>6 DEF ReplicaInv

LEMMA ReplicaStarts ==
    ASSUME ReplicaInit
    PROVE  ReplicaInv
<1>1. OutlineInv /\ outcomes = << >> /\ transactions = << >> /\ frames = << >> /\ pending = << >>
      /\ openTx = NoTx /\ ~blockOpen /\ ~refused
  <2>1. OutlineInit
    BY DEF ReplicaInit
  <2> QED
    BY <2>1, OutlineStarts DEF OutlineInit
<1>2. VisibleSet = {} /\ CommittedSet = {} /\ InBlock = {} /\ FrameMarks = << >>
  <2>1. DOMAIN outcomes = {}
    BY <1>1
  <2> QED
    BY <1>1, <2>1, NoMarks DEF VisibleSet, CommittedSet, InBlock
<1>3. sqlite \in Engines /\ ~sqlite.failed /\ sqlite.open = FALSE /\ sqlite.rows = {}
      /\ sqlite.file = {} /\ sqlite.commits = {} /\ sqlite.saves = << >>
  <2>1. << >> \in Saves
    BY DEF Saves
  <2> QED
    BY <2>1 DEF ReplicaInit, EngineInit, Engines
<1>4. EngineAgrees
  <2>1. blockOpen = FALSE
    BY DEF ReplicaInit, OutlineInit
  <2> QED
    BY <1>2, <1>3, <2>1, NoSavesMatch DEF EngineAgrees
<1>5. BlockIsLast
  <2>1. DOMAIN transactions = {}
    BY <1>1
  <2> QED
    BY <1>1, <1>2, <2>1 DEF BlockIsLast
<1>6. CommitsAreDurable /\ GroupsCommitTogether
  BY <1>2, <1>3 DEF CommitsAreDurable, GroupsCommitTogether
<1>7. SawVisible
  <2>1. saw = << >> /\ saw \in Seq(SUBSET Nat) /\ Len(saw) = 0 /\ Len(outcomes) = 0
    BY <1>1 DEF ReplicaInit
  <2> QED
    BY <1>2, <2>1 DEF SawVisible
<1> QED
  BY <1>1, <1>4, <1>5, <1>6, <1>7 DEF ReplicaInv

-----------------------------------------------------------------------------
(* The theorems, for a batch that names savepoints that are there, and by  *)
(* names that fold apart.                                                  *)

\* The engine follows the outline statement by statement.
THEOREM ReplicaInvariant == ~Misnamed /\ OneSpelling => (ReplicaSpec => []ReplicaInv)
<1>1. ReplicaInit => ReplicaInv
  BY ReplicaStarts
<1>2. ~Misnamed /\ OneSpelling => (ReplicaInv /\ [ReplicaNext]_replicaVars => ReplicaInv')
  BY ReplicaStep, ReplicaStutter DEF Sound
<1>3. ASSUME ~Misnamed /\ OneSpelling
      PROVE  ReplicaSpec => []ReplicaInv
  <2>1. ReplicaInv /\ [ReplicaNext]_replicaVars => ReplicaInv'
    BY <1>2, <1>3
  <2> QED
    BY <1>1, <2>1, PTL DEF ReplicaSpec
<1> QED
  BY <1>3

\* No BEGIN, COMMIT, ROLLBACK or savepoint statement the translator emits
\* (statement.rs translate_commit, translate_rollback; transaction_blocks.rs
\* analyse) ever meets an engine that refuses it.
THEOREM EmittedBatchesRun == ~Misnamed /\ OneSpelling => (ReplicaSpec => []RunsToTheEnd)
<1>1. ReplicaInv => RunsToTheEnd
  BY DEF ReplicaInv, EngineAgrees, RunsToTheEnd
<1> QED
  BY <1>1, ReplicaInvariant, PTL

\* What the outline calls committed (transactions.rs Outline::new) is what
\* the replica's file holds, commit by commit.
THEOREM ReplicasAgree == ~Misnamed /\ OneSpelling => (ReplicaSpec => []ReplicaAgrees)
<1>1. ReplicaInv => ReplicaAgrees
  BY DEF ReplicaInv, EngineAgrees, ReplicaAgrees
<1> QED
  BY <1>1, ReplicaInvariant, PTL

\* A surviving statement ran on the surviving statements before it, so that
\* applying only the committed units (connection_program) starts each one
\* from the state it really ran on.
THEOREM SurvivorsStandAlone == ~Misnamed /\ OneSpelling => (ReplicaSpec => []SurvivorsSawSurvivors)
<1>1. ASSUME ReplicaInv
      PROVE  SurvivorsSawSurvivors
  <2>1. CommittedSet \subseteq VisibleSet /\ VisibleSet \in SUBSET Nat
    BY <1>1, VisibleSplit DEF ReplicaInv, EngineAgrees, Engines
  <2>2. ASSUME NEW i \in CommittedSet
        PROVE  saw[i] = {j \in CommittedSet : j < i}
    <3>1. saw[i] = {j \in VisibleSet : j < i}
      BY <1>1, <2>1 DEF ReplicaInv, SawVisible
    <3>2. ASSUME NEW j \in VisibleSet, j < i
          PROVE  j \in CommittedSet
      <4>1. j \in InBlock => i < j
        BY <1>1 DEF ReplicaInv, BlockIsLast
      <4>2. i \in Nat /\ j \in Nat
        BY <2>1
      <4> QED
        BY <3>2, <4>1, <4>2 DEF InBlock
    <3> QED
      BY <2>1, <3>1, <3>2
  <2> QED
    BY <2>2 DEF SurvivorsSawSurvivors
<1> QED
  BY <1>1, ReplicaInvariant, PTL
=============================================================================
