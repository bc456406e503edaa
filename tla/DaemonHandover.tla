--------------------------- MODULE DaemonHandover ---------------------------
(***************************************************************************)
(* What phases 3 to 5 promise to the daemons.  Each runs on a kernel       *)
(* module that KMM keeps loaded as long as a Module matches its node.  The *)
(* old Module is retired when no daemon depends on it any more; daemons    *)
(* leave it one by one, and only once the new operator has taken over and  *)
(* been told to upgrade them.                                              *)
(***************************************************************************)
CONSTANT Nodes

VARIABLES
    bound,     \* nodes whose daemon is still the one of before
    matched,   \* nodes that the old Module is for
    module,    \* there; retired by the migration; lost to somebody else
    held,      \* every Cluster has its daemon updates paused
    taken      \* the new operator is installed and asked to run

vars == <<bound, matched, module, held, taken>>

Covered == bound \subseteq matched

Init ==
    /\ bound \in SUBSET Nodes /\ matched \in SUBSET Nodes /\ Covered
    /\ module = "there" /\ held = FALSE /\ taken = FALSE

\* A node joins with the daemon of before.
Join(n) ==
    /\ module # "retired"
    /\ bound' = bound \cup {n}
    /\ matched' \in SUBSET Nodes
    /\ module = "there" => Covered'
    /\ UNCHANGED <<module, held, taken>>

Reselect ==
    /\ module = "there"
    /\ matched' \in SUBSET Nodes
    /\ UNCHANGED <<bound, module, held, taken>>
    /\ Covered'

Hold ==
    /\ ~taken /\ held' = TRUE
    /\ UNCHANGED <<bound, matched, module, taken>>

TakeOver ==
    /\ held /\ taken' = TRUE
    /\ UNCHANGED <<bound, matched, module, held>>

Release ==
    /\ taken /\ module = "there" /\ held' = FALSE
    /\ UNCHANGED <<bound, matched, module, taken>>

Upgrade(n) ==
    /\ taken /\ ~held /\ n \in bound
    /\ bound' = bound \ {n} /\ matched' = matched \ {n}
    /\ UNCHANGED <<module, held, taken>>

Retire ==
    /\ module = "there" /\ bound = {}
    /\ module' = "retired"
    /\ UNCHANGED <<bound, matched, held, taken>>

Lose ==
    /\ module = "there" /\ module' = "lost"
    /\ UNCHANGED <<bound, matched, held, taken>>

Next ==
    \/ \E n \in Nodes : Join(n) \/ Upgrade(n)
    \/ Reselect \/ Hold \/ TakeOver \/ Release \/ Retire \/ Lose

Spec == Init /\ [][Next]_vars

\* Where phase 4 leaves off and phase 5 begins.
TakenOver == Covered /\ module = "there" /\ held = TRUE /\ taken = TRUE

SecondHalf == TakenOver /\ [][Next]_vars

\* kmm_module.go:52-81, 467-612: a daemon of before has its kernel module kept by the old
\* Module, and none is left when that goes.
Kept ==
    /\ module # "lost" => Covered
    /\ module = "retired" => bound = {}

\* spectrumscale/ops.go:140-213: no daemon leaves the old Module before the updates are
\* released, and with the Module gone for good none depends on it again.
LeaveWhenReleased ==
    [][/\ \A n \in bound : n \notin bound' => taken /\ ~held
       /\ module = "retired" => module' = "retired" /\ bound' = {}]_vars
=============================================================================
