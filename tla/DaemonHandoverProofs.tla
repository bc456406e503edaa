------------------------ MODULE DaemonHandoverProofs ------------------------
(* What the handover promises, proved for the whole of it and for its second half. *)
EXTENDS DaemonHandover, TLAPS

Inv == module \in {"there", "retired", "lost"} /\ Kept

LEMMA InvStep == ASSUME Inv, [Next]_vars PROVE Inv'
<1>1. CASE UNCHANGED vars
  BY <1>1 DEF Inv, Kept, Covered, vars
<1>2. ASSUME NEW n \in Nodes, Join(n) PROVE Inv'
  BY <1>2 DEF Inv, Kept, Join
<1>3. ASSUME NEW n \in Nodes, Upgrade(n) PROVE Inv'
  <2>1. n \in bound /\ bound' = bound \ {n} /\ matched' = matched \ {n} /\ UNCHANGED module
    BY <1>3 DEF Upgrade
  <2>2. module # "retired"
    BY <2>1 DEF Inv, Kept
  <2>3. Covered => Covered'
    BY <2>1 DEF Covered
  <2> QED
    BY <2>1, <2>2, <2>3 DEF Inv, Kept
<1>4. CASE Reselect
  BY <1>4 DEF Inv, Kept, Reselect
<1>5. CASE Hold \/ TakeOver \/ Release
  BY <1>5 DEF Inv, Kept, Covered, Hold, TakeOver, Release
<1>6. CASE Retire \/ Lose
  BY <1>6 DEF Inv, Kept, Covered, Retire, Lose
<1> QED
  BY <1>1, <1>2, <1>3, <1>4, <1>5, <1>6 DEF Next

\* As long as nobody takes the old Module away, every daemon of before is on a node that it
\* matches, and when the migration retires it there is none; from the beginning of phase 3
\* (ScaleHandover) as well as from that of phase 5 (MigrateKMM).
THEOREM DaemonsAreKept == Spec \/ SecondHalf => []Kept
<1>1. Init => Inv
  BY DEF Init, Inv, Kept
<1>2. TakenOver => Inv
  BY DEF TakenOver, Inv, Kept
<1>3. Inv /\ [Next]_vars => Inv'
  BY InvStep
<1>4. Inv => Kept
  BY DEF Inv
<1> QED
  BY <1>1, <1>2, <1>3, <1>4, PTL DEF Spec, SecondHalf

\* No daemon leaves before it is released, and none depends on a Module that was retired.
THEOREM DaemonsLeaveLate == Spec \/ SecondHalf => LeaveWhenReleased
<1> DEFINE Late == /\ \A n \in bound : n \notin bound' => taken /\ ~held
                   /\ module = "retired" => module' = "retired" /\ bound' = {}
<1>1. Init => Inv
  BY DEF Init, Inv, Kept
<1>2. TakenOver => Inv
  BY DEF TakenOver, Inv, Kept
<1>3. Inv /\ [Next]_vars => Inv'
  BY InvStep
<1>4. Inv /\ [Next]_vars => [Late]_vars
  <2> SUFFICES ASSUME Inv, Next PROVE Late
    OBVIOUS
  <2>1. \A n \in bound : n \notin bound' => taken /\ ~held
    BY DEF Next, Join, Upgrade, Reselect, Hold, TakeOver, Release, Retire, Lose
  <2>2. ASSUME module = "retired" PROVE module' = "retired" /\ bound' = {}
    <3>1. bound = {}
      BY <2>2 DEF Inv, Kept
    <3> QED
      BY <2>2, <3>1 DEF Next, Join, Upgrade, Reselect, Hold, TakeOver, Release, Retire, Lose
  <2> QED
    BY <2>1, <2>2
<1> QED
  BY <1>1, <1>2, <1>3, <1>4, PTL DEF Spec, SecondHalf, LeaveWhenReleased
=============================================================================
