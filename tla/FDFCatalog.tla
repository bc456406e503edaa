----------------------------- MODULE FDFCatalog ------------------------------
(***************************************************************************)
(* The first call of phase 2, internal/cluster/catalogsource.go: the       *)
(* CatalogSource of FDF gets the image of this release, and the tool waits *)
(* until its status says READY.  Phase 4 installs FDF from what its        *)
(* registry pod serves.                                                    *)
(***************************************************************************)
EXTENDS MigrationPod

CONSTANT Inherited  \* images of the CatalogSource there may be before the migration, or "none"

VARIABLES
    index,     \* the CatalogSource: the image it names, the one served, and its status
    inherited  \* it was there with another image before the migration

catalogsource == <<index, inherited>>

Images == {"none", "other", "wanted"}
Index == [image : Images, served : Images, ready : BOOLEAN]

ASSUME InheritedAssumption == Inherited \subseteq Images

CatalogInit ==
    /\ index \in {i \in Index : i.image \in Inherited /\ i.served = i.image
                                /\ i.ready = (i.image # "none")}
    /\ inherited = (index.image = "other")

\* Created or updated: the status is that of the registry pod at work, which is replaced later.
EnsureFDFCatalogSource ==
    /\ pc = "index"
    /\ IF dry THEN Goto("acts") /\ UNCHANGED index
       ELSE /\ index' = [image |-> "wanted", served |-> index.served, ready |-> index.ready]
            /\ Goto("index_wait")
    /\ UNCHANGED inherited

Mut_IndexReady == index.image = "wanted"  \* nobody looks at the status

IndexReady == index.ready

waitFDFCatalogSourceReady ==
    /\ pc = "index_wait" /\ IndexReady
    /\ Goto("acts")
    /\ UNCHANGED catalogsource

IndexDeadline ==
    /\ pc = "index_wait" /\ ~IndexReady
    /\ ReturnError
    /\ UNCHANGED catalogsource

-----------------------------------------------------------------------------
(* OLM's catalog operator.  It is of no account once phase 2 is over. *)

RegistryServes ==
    /\ phase = 2 /\ index.served # index.image
    /\ index' = [image |-> index.image, served |-> index.image, ready |-> index.ready]
    /\ UNCHANGED inherited

RegistryReports ==
    /\ phase = 2 /\ index.served # "none" /\ ~index.ready
    /\ index' = [image |-> index.image, served |-> index.served, ready |-> TRUE]
    /\ UNCHANGED inherited

RegistryDown ==
    /\ phase = 2 /\ ~calm /\ index.ready
    /\ index' = [image |-> index.image, served |-> index.served, ready |-> FALSE]
    /\ UNCHANGED inherited
=============================================================================
