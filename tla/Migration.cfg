SPECIFICATION FairSpec
CONSTANTS
    Filesystems <- MCFilesystems
    Reports <- MCReports
    ClassName <- MCClassName
    Takable <- MCTakable
    Inherited <- MCInherited
    Groups <- MCGroups
    Installations <- MCInstallations
INVARIANTS
    RefusalIsHarmless OnlySupported IndexServed ClassesMatch FusionInstalled FusionCanCome
PROPERTIES
    DryRunWritesNothing ImplementsLadder MigrationEnds
\* The migration ends.
CHECK_DEADLOCK FALSE
