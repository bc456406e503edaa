SPECIFICATION FairSpec
CONSTANTS
    Clusters = {"c1", "c2"}
    Nodes = {"n1", "n2", "n3"}
    StorageNodes = {"n1", "n2"}
INVARIANTS
    NodesKept AccessRemoved SecretsArrive HandsOver NoDeadEnd
PROPERTIES
    NothingRollsOut ImplementsHandover PhaseGetsDone
\* Phase 4 ends.
CHECK_DEADLOCK FALSE
