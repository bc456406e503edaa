SPECIFICATION Spec
CONSTANTS
    Pods = {p1}
    NumPhases = 7
    DetectPhase = 3
    EnablePhase = 5
    SecureBoot = TRUE
    BackoffLimit = 2
    AllowLoss = FALSE
INVARIANT SuccessIsMarked
