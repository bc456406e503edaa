--------------------------- MODULE FinalizeStorage ---------------------------
(***************************************************************************)
(* Phase 6, phases/finalize_storage_configuration.go: two StorageClasses   *)
(* for each Filesystem, and a wait until the Filesystems have recovered.   *)
(***************************************************************************)
EXTENDS MigrationPod, ScaleFilesystems

CONSTANTS
    ClassName,  \* the name of the class of a Filesystem for a kind of volume
    Takable     \* sets of names of StorageClasses somebody else may have made

VARIABLES
    classes,  \* the StorageClasses the tool made
    taken,    \* names of others
    todo,     \* classes the pod has yet to see to
    listed    \* the Filesystems found by the last pod that was not a dry run

storage == <<classes, taken, todo, listed>>

Kinds == {"general", "vm"}
Class(w) == [name |-> ClassName[w], fs |-> w[1], kind |-> w[2]]

StorageInit == classes = {} /\ taken \in Takable /\ todo = {} /\ listed = {}

\* Without any Filesystem the classes are skipped, which is what an empty list comes to.
ListFilesystems ==
    /\ pc = "list_filesystems"
    /\ todo' = present \X Kinds
    /\ listed' = IF dry THEN listed ELSE present
    /\ Goto("classes")
    /\ UNCHANGED <<classes, taken>>

\* One Filesystem after the other, the class for virtual machines second.
Begun == {w \in todo : w[2] = "vm" /\ <<w[1], "general">> \notin todo}
Due == IF Begun # {} THEN Begun ELSE {w \in todo : w[2] = "general"}

Exists(name) == name \in taken \/ \E c \in classes : c.name = name

Mut_Accepted(w) == Exists(Class(w).name)  \* at any time

Accepted(w) == Exists(Class(w).name) /\ resuming

ensureStorageClass(w) ==
    /\ pc = "classes" /\ w \in Due
    /\ IF Exists(Class(w).name) /\ ~Accepted(w)
       THEN ReturnError /\ todo' = {} /\ UNCHANGED classes
       ELSE /\ classes' = IF Accepted(w) \/ dry THEN classes ELSE classes \cup {Class(w)}
            /\ todo' = todo \ {w}
            /\ Goto("classes")
    /\ UNCHANGED <<taken, listed>>

ClassesDone ==
    /\ pc = "classes" /\ todo = {}
    /\ Goto("verify")
    /\ UNCHANGED storage

Recovered == present # {} /\ AllHealthy

\* A dry run waits as well.
VerifyFilesystemRecovery ==
    /\ pc = "verify" /\ Recovered
    /\ ReturnNil
    /\ UNCHANGED storage

RecoveryDeadline ==
    /\ pc = "verify" /\ ~Recovered
    /\ ReturnError
    /\ UNCHANGED storage
=============================================================================
