\* A pod on a lost node keeps running beside the one that replaces it: three phases are
\* enough for one pod to be a whole phase, or two, behind the other.
SPECIFICATION Spec
CONSTANTS
    Pods = {p1, p2}
    NumPhases = 3
    DetectPhase = 2
    EnablePhase = 3
    SecureBoot = TRUE
    BackoffLimit = 0
    AllowLoss = TRUE
SYMMETRY PodSymmetry
INVARIANTS
    CheckpointSound NoPhaseSkipped CompleteMeansDone StatusConsistent
