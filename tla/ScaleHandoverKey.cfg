SPECIFICATION Spec
CONSTANTS
    Clusters = {"c1"}
    Nodes = {"n1"}
    StorageNodes = {"n1"}
INVARIANT KeyBeforeRemoval
\* Phase 4 ends.
CHECK_DEADLOCK FALSE
