----------------------------- MODULE PhaseLadder -----------------------------
(***************************************************************************)
(* What the checkpointed migration promises: the phases are climbed one by *)
(* one.  The next phase may be begun, and done, and both again, until its  *)
(* checkpoint is saved; a saved checkpoint stays.                          *)
(***************************************************************************)
EXTENDS Integers

CONSTANT NumPhases

VARIABLES
    begun,    \* phases that were ever entered
    climbed,  \* phases that were ever done
    saved     \* the last phase of the stored checkpoint

vars == <<begun, climbed, saved>>

Init == begun = {} /\ climbed = {} /\ saved = 0

Begin ==
    /\ saved < NumPhases
    /\ begun' = begun \cup {saved + 1}
    /\ UNCHANGED <<climbed, saved>>

Climb ==
    /\ saved + 1 \in begun
    /\ climbed' = climbed \cup {saved + 1}
    /\ UNCHANGED <<begun, saved>>

\* The next phase may begin with the checkpoint of the one before.
Save ==
    /\ saved + 1 \in climbed
    /\ saved' = saved + 1
    /\ begun' \in {begun, begun \cup ({saved + 2} \cap 1..NumPhases)}
    /\ UNCHANGED climbed

Next == Begin \/ Climb \/ Save

Spec == Init /\ [][Next]_vars

-----------------------------------------------------------------------------

\* main.go:115-147: whatever is done was begun, whatever is checkpointed was done, and at
\* most one phase, the one after the checkpoint, is begun and not checkpointed: the
\* cluster is never in the middle of two phases.
OneRungAtATime ==
    /\ saved \in 0..NumPhases
    /\ begun \in {1..saved, 1..(saved + 1)}
    /\ climbed \in {1..saved, begun}
    /\ begun \subseteq 1..NumPhases
=============================================================================
