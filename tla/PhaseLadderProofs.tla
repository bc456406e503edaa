-------------------------- MODULE PhaseLadderProofs --------------------------
(***************************************************************************)
(* Theorems about PhaseLadder, for any number of phases.                   *)
(***************************************************************************)
EXTENDS PhaseLadder, TLAPS

LEMMA NextRung ==
    ASSUME NumPhases \in Nat, OneRungAtATime, [Next]_vars
    PROVE  OneRungAtATime'
<1>1. saved \in Nat /\ saved <= NumPhases
  BY DEF OneRungAtATime
<1>2. 1..(saved + 1) = 1..saved \cup {saved + 1} /\ saved + 1 \notin 1..saved
  BY <1>1
<1>3. CASE Begin
  <2>1. begun' = 1..(saved + 1) /\ saved' = saved /\ climbed' = climbed
    BY <1>2, <1>3 DEF Begin, OneRungAtATime
  <2>2. climbed \in {1..saved, 1..(saved + 1)}
    BY DEF OneRungAtATime
  <2>3. 1..(saved + 1) \subseteq 1..NumPhases
    BY <1>1, <1>3 DEF Begin
  <2> QED
    BY <1>1, <2>1, <2>2, <2>3 DEF OneRungAtATime
<1>4. CASE Climb
  <2>1. begun = 1..(saved + 1)
    BY <1>2, <1>4 DEF Climb, OneRungAtATime
  <2>2. climbed' = begun
    BY <1>2, <1>4, <2>1 DEF Climb, OneRungAtATime
  <2> QED
    BY <1>4, <2>2 DEF Climb, OneRungAtATime
<1>5. CASE Save
  <2>1. climbed = 1..(saved + 1) /\ begun = 1..(saved + 1)
    BY <1>2, <1>5 DEF Save, OneRungAtATime
  <2>2. saved' = saved + 1 /\ climbed' = 1..saved'
    BY <1>5, <2>1 DEF Save
  <2>3. saved + 1 \in 1..NumPhases
    BY <1>1, <2>1 DEF OneRungAtATime
  <2>4. begun' \in {1..saved', 1..(saved' + 1)} /\ begun' \subseteq 1..NumPhases
    <3>1. CASE begun' = begun
      BY <2>1, <2>2, <3>1 DEF OneRungAtATime
    <3>2. CASE begun' = begun \cup ({saved + 2} \cap 1..NumPhases)
      <4>1. CASE saved + 2 \in 1..NumPhases
        <5>1. begun' = 1..(saved + 1) \cup {saved + 2}
          BY <2>1, <3>2, <4>1
        <5>2. 1..(saved + 2) = 1..(saved + 1) \cup {saved + 2}
          BY <1>1
        <5>3. 1..(saved + 2) \subseteq 1..NumPhases
          BY <1>1, <4>1
        <5>4. saved' + 1 = saved + 2
          BY <1>1, <2>2
        <5> QED
          BY <5>1, <5>2, <5>3, <5>4
      <4>2. CASE saved + 2 \notin 1..NumPhases
        BY <2>1, <2>2, <3>2, <4>2 DEF OneRungAtATime
      <4> QED
        BY <4>1, <4>2
    <3> QED
      BY <1>5, <3>1, <3>2 DEF Save
  <2> QED
    BY <1>1, <2>2, <2>3, <2>4 DEF OneRungAtATime
<1>6. CASE UNCHANGED vars
  BY <1>6 DEF vars, OneRungAtATime
<1> QED
  BY <1>3, <1>4, <1>5, <1>6 DEF Next

\* main.go:115-147: the cluster is never in the middle of two phases, and what the checkpoint
\* names is behind; the Job and the whole migration inherit it by refinement.
THEOREM PhasesOneByOne == NumPhases \in Nat => (Spec => []OneRungAtATime)
<1> SUFFICES ASSUME NumPhases \in Nat PROVE Spec => []OneRungAtATime
  OBVIOUS
<1>1. Init => OneRungAtATime
  BY DEF Init, OneRungAtATime
<1>2. OneRungAtATime /\ [Next]_vars => OneRungAtATime'
  BY NextRung
<1> QED
  BY <1>1, <1>2, PTL DEF Spec
=============================================================================
