SPECIFICATION FairSpec
CONSTANTS
    Nodes = {"n1", "n2"}
    StorageNodes = {"n1"}
INVARIANTS
    NamespaceLast KMMKept 
PROPERTIES
    ModuleOutlivesUpgrade ImplementsHandover 
\* The phase ends.
CHECK_DEADLOCK FALSE
