SPECIFICATION Spec
CONSTANTS
    Nodes = {"n1", "n2"}
    StorageNodes = {"n1"}
INVARIANT KMMNotLost
\* The phase ends.
CHECK_DEADLOCK FALSE
