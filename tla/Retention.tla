------------------------------- MODULE Retention -------------------------------
(***************************************************************************)
(* history/mod.rs retention: which units of a batch the surviving          *)
(* connection objects need.                                                *)
(*                                                                         *)
(* The loop sweeps the units from the last to the first and repeats until  *)
(* a sweep adds nothing.  It is modelled one unit at a time.  The inputs,  *)
(* what each unit touches and reads and which objects survive, are chosen  *)
(* in the initial state and never change.                                  *)
(***************************************************************************)
EXTENDS Integers

CONSTANTS
    Objects,    \* connection objects
    Length      \* the number of units

ASSUME LengthAssumption == Length \in Nat

Units == 1 .. Length

VARIABLES
    touches,    \* touches[u]: objects whose definition or rows u changes
    reads,      \* reads[u]: objects that must exist when u runs
    alive,      \* objects that survive the batch
    needed,     \* objects found to be needed
    retained,   \* units found to be needed
    changed,    \* whether this sweep added a unit
    index,      \* the unit the sweep looks at next, 0 at its end
    pc          \* "while": test `changed'; "for": sweep; "done"

inputs == <<touches, reads, alive>>

retentionVars == <<touches, reads, alive, needed, retained, changed, index, pc>>

RetentionInit ==
    /\ touches \in [Units -> SUBSET Objects]
    /\ reads \in [Units -> SUBSET Objects]
    /\ alive \in SUBSET Objects
    /\ needed = alive
    /\ retained = {}
    /\ changed = TRUE
    /\ index = 0
    /\ pc = "while"

\* Fault: `changed' is not reset.
BeginSweepNoReset ==
    /\ pc = "while"
    /\ changed
    /\ index' = Length
    /\ pc' = "for"
    /\ UNCHANGED <<inputs, needed, retained, changed>>

BeginSweep ==
    /\ pc = "while"
    /\ changed
    /\ changed' = FALSE
    /\ index' = Length
    /\ pc' = "for"
    /\ UNCHANGED <<inputs, needed, retained>>

\* A unit already kept, or one that changes nothing needed, is passed over.
Skip ==
    /\ pc = "for"
    /\ index > 0
    /\ index \in retained \/ touches[index] \cap needed = {}
    /\ index' = index - 1
    /\ UNCHANGED <<inputs, needed, retained, changed, pc>>

\* Keep with another test, other needs or another flag, for the faults below.
FaultyKeep(wanted(_), more(_), flag) ==
    /\ pc = "for"
    /\ index > 0
    /\ index \notin retained
    /\ wanted(index)
    /\ retained' = retained \cup {index}
    /\ needed' = needed \cup more(index)
    /\ changed' = flag
    /\ index' = index - 1
    /\ UNCHANGED <<inputs, pc>>

Wanted(u) == touches[u] \cap needed # {}

Everything(u) == touches[u] \cup reads[u]

\* Fault: one sweep is thought to be enough.
KeepUnannounced == FaultyKeep(Wanted, Everything, changed)

\* Fault: every unit is kept.
KeepAny == FaultyKeep(LAMBDA u : TRUE, Everything, TRUE)

\* Everything a kept unit touches or reads becomes needed in turn.
Keep ==
    /\ pc = "for"
    /\ index > 0
    /\ index \notin retained
    /\ touches[index] \cap needed # {}
    /\ retained' = retained \cup {index}
    /\ needed' = needed \cup touches[index] \cup reads[index]
    /\ changed' = TRUE
    /\ index' = index - 1
    /\ UNCHANGED <<inputs, pc>>

EndSweep ==
    /\ pc = "for"
    /\ index = 0
    /\ pc' = "while"
    /\ UNCHANGED <<inputs, needed, retained, changed, index>>

Return ==
    /\ pc = "while"
    /\ ~changed
    /\ pc' = "done"
    /\ UNCHANGED <<inputs, needed, retained, changed, index>>

RetentionNext == BeginSweep \/ Skip \/ Keep \/ EndSweep \/ Return

\* The loop is sequential code: it always takes its next step.
RetentionSpec ==
    RetentionInit /\ [][RetentionNext]_retentionVars /\ WF_retentionVars(RetentionNext)

-----------------------------------------------------------------------------
(* What the loop computes, without the loop.                               *)

\* The objects a set of kept units makes needed.
NeededBy(kept) == alive \cup UNION {touches[u] \cup reads[u] : u \in kept}

\* A set of units that is enough: no unit left out changes a needed object.
Closed(kept) == \A u \in Units : touches[u] \cap NeededBy(kept) # {} => u \in kept

-----------------------------------------------------------------------------
(* Properties.                                                             *)

RetentionTypeOK ==
    /\ touches \in [Units -> SUBSET Objects]
    /\ reads \in [Units -> SUBSET Objects]
    /\ alive \in SUBSET Objects
    /\ needed \in SUBSET Objects
    /\ retained \in SUBSET Units
    /\ changed \in BOOLEAN
    /\ index \in 0 .. Length
    /\ pc \in {"while", "for", "done"}

\* When the loop returns, no unit it left out changes an object that a kept
\* unit touches or reads or that survives: a drop of a historical object that
\* became needed through an earlier unit is kept too.
RetentionIsClosed == pc = "done" => Closed(retained)

\* It keeps no unit that some other closed set does without: the program
\* repeats, and connection_program refuses, only what every correct program
\* would have to contain.
RetentionIsLeast == \A kept \in SUBSET Units : Closed(kept) => retained \subseteq kept

\* The search ends: each sweep but the last adds a unit.
RetentionReturns == <>(pc = "done")

-----------------------------------------------------------------------------
(* The inductive invariant behind the two safety properties.               *)

\* What is needed is what the kept units need.
NeededIsExact == needed = NeededBy(retained)

\* A sweep that has added nothing so far has found nothing to add behind it.
SweptClean ==
    ~changed =>
        \A u \in Units : u > index =>
            (u \in retained \/ touches[u] \cap needed = {})

\* Between sweeps, and at the end, the sweep is over.
AtRest ==
    /\ pc = "while" /\ ~changed => index = 0
    /\ pc = "done" => ~changed /\ index = 0

RetentionInv ==
    RetentionTypeOK /\ NeededIsExact /\ SweptClean /\ AtRest /\ RetentionIsLeast
=============================================================================
