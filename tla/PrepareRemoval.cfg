SPECIFICATION FairSpec
CONSTANTS
    d1 = d1
    d2 = d2
    f1 = f1
    c1 = c1
    c2 = c2
    LocalDisks = {d1, d2}
    Filesystems = {f1}
    Claims = {c1, c2}
    Owner <- MCOwner
INVARIANTS
    NothingCollected DoneMeansReleased NothingInTheWay
PROPERTIES
    NothingRestored PhaseGetsDone
\* The phase ends.
CHECK_DEADLOCK FALSE
