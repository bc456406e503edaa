--------------------------- MODULE FusionOperator ----------------------------
(***************************************************************************)
(* Phase 7, internal/cluster/fusion_operator.go: namespace, OperatorGroup, *)
(* CatalogSource and Subscription of the Fusion operator, a wait for its   *)
(* CSV, and the OdfManager.  What is there already is left as it is.       *)
(***************************************************************************)
EXTENDS MigrationPod

CONSTANT Groups  \* OperatorGroups that others may create

\* covers: its targetNamespaces are empty or name the namespace it is in.
Group == [name : {"isf-og", "custom"}, covers : BOOLEAN]

ASSUME GroupsAssumption == Groups \subseteq Group

VARIABLES
    fusionNS,    \* the namespace ibm-spectrum-fusion-ns
    groups,      \* the OperatorGroups in it
    catalog,     \* the CatalogSource in openshift-marketplace ...
    sub,         \* ... and the Subscription: made by the tool or by somebody else.  A
                 \* CatalogSource of somebody else may be lacking the package, or its channel
    current,     \* the CSV in the status of the Subscription
    installed,   \* the CSV that has Succeeded
    odfManager   \* the OdfManager

fusion == <<fusionNS, groups, catalog, sub, current, installed, odfManager>>

Origins == {"none", "wanted", "foreign"}
Catalogs == Origins \cup {"lacking"}
Serving == {"wanted", "foreign"}
CSVs == {"none", "wanted", "foreign", "misnamed"}

FusionInit ==
    /\ fusionNS = FALSE /\ groups = {} /\ catalog = "none" /\ sub = "none"
    /\ current = "none" /\ installed = "none" /\ odfManager = FALSE

EnsureNamespace ==
    /\ pc = "namespace"
    /\ fusionNS' = (fusionNS \/ ~dry)
    /\ Goto("group")
    /\ UNCHANGED <<groups, catalog, sub, current, installed, odfManager>>

Mut_ensureFusionOperatorGroup ==  \* a pod that resumes takes it for done
    /\ pc = "group"
    /\ groups' = IF dry \/ resuming \/ \E g \in groups : g.covers \/ g.name = "isf-og" THEN groups
                 ELSE groups \cup {[name |-> "isf-og", covers |-> TRUE]}
    /\ Goto("catalog")
    /\ UNCHANGED <<fusionNS, catalog, sub, current, installed, odfManager>>

\* One that covers the namespace will do; AlreadyExists is taken for success.
ensureFusionOperatorGroup ==
    /\ pc = "group"
    /\ groups' = IF dry \/ \E g \in groups : g.covers \/ g.name = "isf-og" THEN groups
                 ELSE groups \cup {[name |-> "isf-og", covers |-> TRUE]}
    /\ Goto("catalog")
    /\ UNCHANGED <<fusionNS, catalog, sub, current, installed, odfManager>>

\* One of that name will do, whatever its spec.
ensureFusionOperatorCatalogSource ==
    /\ pc = "catalog"
    /\ catalog' = IF dry \/ catalog # "none" THEN catalog ELSE "wanted"
    /\ Goto("subscription")
    /\ UNCHANGED <<fusionNS, groups, sub, current, installed, odfManager>>

Mut_ensureFusionOperatorSubscription ==  \* it is created in a dry run, too
    /\ pc = "subscription"
    /\ sub' = IF sub # "none" THEN sub ELSE "wanted"
    /\ Goto("csv_wait")
    /\ UNCHANGED <<fusionNS, groups, catalog, current, installed, odfManager>>

ensureFusionOperatorSubscription ==
    /\ pc = "subscription"
    /\ sub' = IF dry \/ sub # "none" THEN sub ELSE "wanted"
    /\ Goto("csv_wait")
    /\ UNCHANGED <<fusionNS, groups, catalog, current, installed, odfManager>>

Mut_CSVSucceeded == current # "none"  \* named is as good as installed

\* The name must be one of the isf-operator package.
CSVSucceeded == current \notin {"none", "misnamed"} /\ installed = current

waitForFusionOperatorCSVSucceeded ==
    /\ pc = "csv_wait" /\ (dry \/ CSVSucceeded)
    /\ Goto("odf_manager")
    /\ UNCHANGED fusion

\* The deadline, or a CSV of another name.
CSVWaitFails ==
    /\ pc = "csv_wait" /\ ~dry /\ ~CSVSucceeded
    /\ ReturnError
    /\ UNCHANGED fusion

ensureOdfManager ==
    /\ pc = "odf_manager"
    /\ odfManager' = (odfManager \/ ~dry)
    /\ ReturnNil
    /\ UNCHANGED <<fusionNS, groups, catalog, sub, current, installed>>

-----------------------------------------------------------------------------
(* OLM, and others who install the operator *)

\* Only where one OperatorGroup is, and covers the namespace.  The Subscription of the tool is
\* for the CatalogSource above, that of somebody else for any.
OLMResolves ==
    /\ current = "none"
    /\ \E g \in groups : groups = {g} /\ g.covers
    /\ \/ sub = "wanted" /\ catalog \in Serving /\ current' = catalog
       \/ sub = "foreign" /\ current' \in {"foreign", "misnamed"}
    /\ UNCHANGED <<fusionNS, groups, catalog, sub, installed, odfManager>>

OLMInstalls ==
    /\ installed # current
    /\ installed' = current
    /\ UNCHANGED <<fusionNS, groups, catalog, sub, current, odfManager>>

\* They may have done so long before; it is of no account until phase 7.
SomeoneInstalls ==
    /\ ~calm /\ ~dry /\ phase = 7
    /\ \/ ~fusionNS /\ fusionNS' = TRUE /\ UNCHANGED <<groups, catalog, sub>>
       \/ /\ fusionNS
          /\ \E g \in Groups : /\ \A h \in groups : h.name # g.name
                               /\ groups' = groups \cup {g}
          /\ UNCHANGED <<fusionNS, catalog, sub>>
       \/ /\ catalog = "none" /\ catalog' \in {"foreign", "lacking"}
          /\ UNCHANGED <<fusionNS, groups, sub>>
       \/ fusionNS /\ sub = "none" /\ sub' = "foreign" /\ UNCHANGED <<fusionNS, groups, catalog>>
    /\ UNCHANGED <<current, installed, odfManager>>
=============================================================================
