SPECIFICATION Spec
CONSTANTS
    Nodes = {"n1", "n2"}
    StorageNodes = {"n1"}
PROPERTY UpgradeConfirmed
\* The phase ends.
CHECK_DEADLOCK FALSE
