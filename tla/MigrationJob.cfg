\* One pod at a time, as the Job controller keeps it; the seven phases of the code.
SPECIFICATION FairSpec
CONSTANTS
    Pods = {p1}
    NumPhases = 7
    DetectPhase = 3
    EnablePhase = 5
    SecureBoot = TRUE
    BackoffLimit = 2
    AllowLoss = FALSE
INVARIANTS
    TypeOK SecureBootCarried RunsNextPhase SuccessIsCheckpointed
PROPERTIES
    ImplementsLadder DryRunReadOnly JobSettles MigrationGetsDone
