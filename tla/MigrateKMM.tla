----------------------------- MODULE MigrateKMM -----------------------------
(***************************************************************************)
(* Phase 5, phases/migrate_kmm.go: the kernel modules of the storage nodes *)
(* move from the KMM Module in ibm-fusion-access to the one in             *)
(* ibm-spectrum-scale, node by node as the daemons are upgraded; then the  *)
(* old Module, the KMM Subscription of the Fusion Access namespace and the *)
(* namespace itself go.                                                    *)
(*                                                                         *)
(* The tool only reads what others report: the Daemon its status.versions, *)
(* KMM the nodes each Module matches.  Both reports lag behind the nodes,  *)
(* nodes may join meanwhile, and any pod may be killed and start the phase *)
(* from its top.                                                           *)
(***************************************************************************)
EXTENDS FiniteSets, Integers

CONSTANTS
    Nodes,
    StorageNodes   \* the nodes the Daemon selects when the phase is first entered

ASSUME NodesAssumption ==
    /\ IsFiniteSet(Nodes)
    /\ StorageNodes \subseteq Nodes /\ StorageNodes # {}

VARIABLES
    tool,         \* pc; want: the number of nodes counted; counted: which they were
    selected,     \* nodes the Daemon's nodeSelector matches
    enabled,      \* the Scale Cluster has KMM on and daemon updates not paused
    stage,        \* how far the upgrade of each node is
    versions,     \* status.versions of the Daemon: the version each node was last seen with
    oldMatching,  \* status of the old Module: the nodes its selector matched
    newMatching,  \* status of the new Module: the nodes its selector matched
    newReady,     \* status of the new Module: desiredNumber equals availableNumber
    oldModule,    \* the KMM Module in ibm-fusion-access
    sub,          \* namespaces with a Subscription for KMM
    csv,          \* namespaces with the CSV of a KMM that runs
    copied,       \* OLM's copy of the KMM CSV in ibm-spectrum-scale
    namespace,    \* ibm-fusion-access
    calm,         \* TRUE once no call fails, no pod is killed and no node joins any more
    cut,          \* TRUE once a pod ended while no Subscription for KMM existed
    unseen        \* TRUE once an error of a List passed for an empty list

vars == <<tool, selected, enabled, stage, versions, oldMatching, newMatching, newReady,
          oldModule, sub, csv, copied, namespace, calm, cut, unseen>>
nodes == <<selected, stage>>
status == <<versions, oldMatching, newMatching, newReady>>
olm == <<sub, csv, copied>>
history == <<cut, unseen>>

FA == "ibm-fusion-access"
KMM == "openshift-kmm"
Elsewhere == "another namespace"

Steps == {"count", "enable", "wait", "check_old", "delete_module", "module_gone", "check_new",
          "recreate", "delete_csv", "delete_sub", "create", "csv_wait", "remove_ns", "ns_gone",
          "done"}

Tool == [pc : Steps, want : Nat, counted : SUBSET Nodes]

\* old: not begun; draining: the old daemon has stopped; loading: the image-digest label has
\* changed, and with it the Module that matches; new: the new daemon runs.
Stages == {"old", "draining", "loading", "new"}

TypeOK ==
    /\ tool \in Tool
    /\ selected \in SUBSET Nodes
    /\ enabled \in BOOLEAN
    /\ stage \in [Nodes -> Stages]
    /\ versions \in [Nodes -> {"none", "old", "target"}]
    /\ oldMatching \in SUBSET Nodes /\ newMatching \in SUBSET Nodes
    /\ newReady \in BOOLEAN
    /\ oldModule \in {"present", "deleting", "gone"}
    /\ sub \in SUBSET {FA, KMM, Elsewhere} /\ csv \in SUBSET {FA, KMM, Elsewhere}
    /\ copied \in BOOLEAN
    /\ namespace \in {"active", "terminating", "gone"}
    /\ calm \in BOOLEAN /\ cut \in BOOLEAN /\ unseen \in BOOLEAN

Start == [pc |-> "count", want |-> 0, counted |-> {}]

At(pc) == [tool EXCEPT !.pc = pc]

Goto(pc) == tool' = At(pc)

Seen(s) == CASE s = "old" -> "old" [] s = "new" -> "target" [] OTHER -> "none"

Init ==
    /\ tool = Start
    /\ selected = StorageNodes
    /\ enabled = FALSE
    /\ stage = [n \in Nodes |-> "old"]
    /\ versions = [n \in Nodes |-> IF n \in StorageNodes THEN "old" ELSE "none"]
    /\ oldMatching = StorageNodes /\ newMatching = {} /\ newReady = FALSE
    /\ oldModule = "present"
    /\ sub \in {{FA}, {KMM}, {Elsewhere}} /\ csv = sub /\ copied = TRUE
    /\ namespace = "active"
    /\ calm = FALSE /\ cut = FALSE /\ unseen = FALSE

-----------------------------------------------------------------------------
(* The surroundings *)

KMMRuns == csv # {}

\* The Scale operator upgrades node after node.  KMM loads the module the new daemon needs.
UpgradeNode(n) ==
    /\ enabled /\ n \in selected
    /\ \/ stage[n] = "old" /\ stage' = [stage EXCEPT ![n] = "draining"]
       \/ stage[n] = "draining" /\ stage' = [stage EXCEPT ![n] = "loading"]
       \/ stage[n] = "loading" /\ KMMRuns /\ stage' = [stage EXCEPT ![n] = "new"]
    /\ UNCHANGED <<tool, selected, enabled, status, oldModule, olm, namespace, calm, history>>

\* A node that joins gets what the operator rolls out at that time.
NodeJoins(n) ==
    /\ ~calm /\ n \notin selected
    /\ selected' = selected \cup {n}
    /\ stage' = [stage EXCEPT ![n] = IF enabled THEN "loading" ELSE "old"]
    /\ UNCHANGED <<tool, enabled, status, oldModule, olm, namespace, calm, history>>

DaemonReports ==
    /\ versions' = [n \in Nodes |-> IF n \in selected THEN Seen(stage[n]) ELSE "none"]
    /\ UNCHANGED <<tool, nodes, enabled, oldMatching, newMatching, newReady, oldModule, olm,
                   namespace, calm, history>>

OldModuleReports ==
    /\ KMMRuns /\ oldModule # "gone"
    /\ oldMatching' = {n \in selected : stage[n] \in {"old", "draining"}}
    /\ UNCHANGED <<tool, nodes, enabled, versions, newMatching, newReady, oldModule, olm,
                   namespace, calm, history>>

NewModuleReports ==
    /\ KMMRuns /\ enabled
    /\ newMatching' = {n \in selected : stage[n] \in {"loading", "new"}}
    /\ newReady' = \A n \in newMatching' : stage[n] = "new"
    /\ UNCHANGED <<tool, nodes, enabled, versions, oldMatching, oldModule, olm, namespace, calm,
                   history>>

\* OLM installs what a Subscription asks for, unless KMM runs from another namespace.
OLMInstalls ==
    /\ KMM \in sub /\ csv = {}
    /\ csv' = {KMM}
    /\ UNCHANGED <<tool, nodes, enabled, status, oldModule, sub, copied, namespace, calm, history>>

OLMCopies ==
    /\ copied' = KMMRuns
    /\ UNCHANGED <<tool, nodes, enabled, status, oldModule, sub, csv, namespace, calm, history>>

\* A namespace goes when nothing in it is held by a finalizer, with all that is in it.
NamespaceGoes ==
    /\ namespace = "terminating" /\ oldModule = "gone"
    /\ namespace' = "gone"
    /\ sub' = sub \ {FA} /\ csv' = csv \ {FA}
    /\ UNCHANGED <<tool, nodes, enabled, status, oldModule, copied, calm, history>>

\* The pod is killed, or a call fails and the phase returns the error.
Restart ==
    /\ ~calm /\ tool.pc # "done"
    /\ tool' = Start
    /\ cut' = (cut \/ sub = {})
    /\ UNCHANGED <<nodes, enabled, status, oldModule, olm, namespace, calm, unseen>>

\* The answer of the last write is lost with the pod before the checkpoint is stored: the
\* phase is entered again though it was done.
RunAgain ==
    /\ ~calm /\ tool.pc = "done"
    /\ tool' = Start
    /\ UNCHANGED <<nodes, enabled, status, oldModule, olm, namespace, calm, history>>

Calm ==
    /\ ~calm /\ calm' = TRUE
    /\ UNCHANGED <<tool, nodes, enabled, status, oldModule, olm, namespace, history>>

-----------------------------------------------------------------------------
(* spectrumscale: the nodes and the two Modules *)

\* Read once, and used until the phase ends.
ScaleDaemonNodeSelectorNodeCount ==
    /\ tool.pc = "count" /\ selected # {}
    /\ tool' = [pc |-> "enable", want |-> Cardinality(selected), counted |-> selected]
    /\ UNCHANGED <<nodes, enabled, status, oldModule, olm, namespace, calm, history>>

EnableKMMInScaleCluster ==
    /\ tool.pc = "enable"
    /\ enabled' = TRUE
    /\ Goto("wait")
    /\ UNCHANGED <<nodes, status, oldModule, olm, namespace, calm, history>>

Mut_Upgraded == \E n \in Nodes : versions[n] = "target"  \* the count is not compared

Upgraded ==
    /\ \A n \in Nodes : versions[n] # "old"
    /\ Cardinality({n \in Nodes : versions[n] = "target"}) = tool.want

Mut_AtDeadline == tool  \* it goes on waiting for the nodes it counted

\* The phase returns an error, and the next pod counts anew.
AtDeadline == Start

WaitForScaleDaemonVersionUpgrade ==
    /\ tool.pc = "wait"
    /\ tool' = IF Upgraded THEN At("check_old") ELSE AtDeadline
    /\ UNCHANGED <<nodes, enabled, status, oldModule, olm, namespace, calm, history>>

Mut_Inactive == TRUE  \* the check of the old Module is left out

Inactive == oldModule = "gone" \/ oldMatching = {}

CheckFusionAccessKMMModuleNodesZero ==
    /\ tool.pc = "check_old"
    /\ tool' = IF Inactive THEN At("delete_module") ELSE Start
    /\ UNCHANGED <<nodes, enabled, status, oldModule, olm, namespace, calm, history>>

Mut_AfterModuleDelete == "check_new"  \* nobody waits for the Module to go

AfterModuleDelete == IF oldModule = "gone" THEN "check_new" ELSE "module_gone"

DeleteFusionAccessKMMModule ==
    /\ tool.pc = "delete_module"
    /\ oldModule' = IF oldModule = "present" THEN "deleting" ELSE oldModule
    /\ Goto(AfterModuleDelete)
    /\ UNCHANGED <<nodes, enabled, status, olm, namespace, calm, history>>

\* The poll takes the finalizers off, and ends when the Module is not found.
waitForKMMModuleGone ==
    /\ tool.pc = "module_gone"
    /\ IF oldModule = "gone" THEN Goto("check_new") ELSE UNCHANGED tool
    /\ oldModule' = "gone"
    /\ UNCHANGED <<nodes, enabled, status, olm, namespace, calm, history>>

CheckSpectrumScaleKMMModuleNodesMatching ==
    /\ tool.pc = "check_new"
    /\ tool' = IF Cardinality(newMatching) = tool.want /\ newReady THEN At("recreate") ELSE Start
    /\ UNCHANGED <<nodes, enabled, status, oldModule, olm, namespace, calm, history>>

-----------------------------------------------------------------------------
(* openshiftkmm.RecreateKMMSubscription *)

Mut_MoveTo ==  \* the copied CSV is not looked for
    IF namespace # "gone"
    THEN IF FA \in sub THEN "delete_csv" ELSE "remove_ns"
    ELSE IF KMM \in sub THEN "csv_wait" ELSE "create"

MoveTo ==
    IF namespace # "gone"
    THEN IF FA \in sub THEN "delete_csv" ELSE "remove_ns"
    ELSE CASE KMM \in sub -> "csv_wait"
           [] KMM \notin sub /\ copied -> "remove_ns"
           [] OTHER -> "create"

RecreateKMMSubscription ==
    /\ tool.pc = "recreate"
    /\ Goto(MoveTo)
    /\ UNCHANGED <<nodes, enabled, status, oldModule, olm, namespace, calm, history>>

\* kmmCSVExistsInNamespace: an error of the List is taken for an empty one.
ListOfCSVsFails ==
    /\ tool.pc = "recreate" /\ ~calm
    /\ namespace = "gone" /\ KMM \notin sub
    /\ Goto("create")
    /\ unseen' = TRUE
    /\ UNCHANGED <<nodes, enabled, status, oldModule, olm, namespace, calm, cut>>

DeleteCSV ==
    /\ tool.pc = "delete_csv"
    /\ csv' = csv \ {FA}
    /\ Goto("delete_sub")
    /\ UNCHANGED <<nodes, enabled, status, oldModule, sub, copied, namespace, calm, history>>

Mut_AfterDelete == "remove_ns"  \* the namespace goes before the new Subscription is there

AfterDelete == "create"

DeleteSubscription ==
    /\ tool.pc = "delete_sub"
    /\ sub' = sub \ {FA}
    /\ Goto(AfterDelete)
    /\ UNCHANGED <<nodes, enabled, status, oldModule, csv, copied, namespace, calm, history>>

createKMMSubscriptionInOpenShiftKMM ==
    /\ tool.pc = "create"
    /\ sub' = sub \cup {KMM}
    /\ Goto("csv_wait")
    /\ UNCHANGED <<nodes, enabled, status, oldModule, csv, copied, namespace, calm, history>>

waitForKMMCSVSucceeded ==
    /\ tool.pc = "csv_wait" /\ KMM \in csv
    /\ Goto("remove_ns")
    /\ UNCHANGED <<nodes, enabled, status, oldModule, olm, namespace, calm, history>>

-----------------------------------------------------------------------------
(* fusionaccess.RemoveFusionAccessNamespace *)

RemoveFusionAccessNamespace ==
    /\ tool.pc = "remove_ns"
    /\ namespace' = IF namespace = "active" THEN "terminating" ELSE namespace
    /\ Goto(IF namespace = "gone" THEN "done" ELSE "ns_gone")
    /\ UNCHANGED <<nodes, enabled, status, oldModule, olm, calm, history>>

waitForNamespaceGone ==
    /\ tool.pc = "ns_gone" /\ namespace = "gone"
    /\ Goto("done")
    /\ UNCHANGED <<nodes, enabled, status, oldModule, olm, namespace, calm, history>>

-----------------------------------------------------------------------------

ToolStep ==
    \/ ScaleDaemonNodeSelectorNodeCount \/ EnableKMMInScaleCluster
    \/ WaitForScaleDaemonVersionUpgrade \/ CheckFusionAccessKMMModuleNodesZero
    \/ DeleteFusionAccessKMMModule \/ waitForKMMModuleGone
    \/ CheckSpectrumScaleKMMModuleNodesMatching
    \/ RecreateKMMSubscription \/ ListOfCSVsFails \/ DeleteCSV \/ DeleteSubscription
    \/ createKMMSubscriptionInOpenShiftKMM \/ waitForKMMCSVSucceeded
    \/ RemoveFusionAccessNamespace \/ waitForNamespaceGone

Next ==
    \/ ToolStep \/ Restart \/ RunAgain \/ Calm
    \/ \E n \in Nodes : UpgradeNode(n) \/ NodeJoins(n)
    \/ DaemonReports \/ OldModuleReports \/ NewModuleReports
    \/ OLMInstalls \/ OLMCopies \/ NamespaceGoes

Spec == Init /\ [][Next]_vars

\* Every poll of the tool has a deadline, and the controllers around it get to their work.
Fairness ==
    /\ WF_vars(ToolStep)
    /\ \A n \in Nodes : WF_vars(UpgradeNode(n))
    /\ WF_vars(DaemonReports) /\ WF_vars(OldModuleReports) /\ WF_vars(NewModuleReports)
    /\ WF_vars(OLMInstalls) /\ WF_vars(NamespaceGoes)

FairSpec == Spec /\ Fairness

-----------------------------------------------------------------------------
(* Properties *)

\* kmm_module.go:467-612: the old Module is not deleted while the selector of one node still
\* matches it, however the reports lag and whatever nodes join: no node in use loses the
\* kernel module it runs on.
OldModuleUnused ==
    oldModule # "present" => \A n \in selected : stage[n] \notin {"old", "draining"}

\* migrate_kmm.go:22-31: the old Module goes when every daemon runs the target version, and
\* not already when no node matches it any more, if no node joined since the count.
ModuleOutlivesUpgrade ==
    [][oldModule = "present" /\ oldModule' # "present" /\ tool.counted = selected
          => \A n \in selected : stage[n] = "new"]_vars

\* The phase, seen from the daemons.
Handover == INSTANCE DaemonHandover WITH
    bound <- {n \in selected : stage[n] \in {"old", "draining"}},
    matched <- {n \in selected : stage[n] \in {"old", "draining"}},
    module <- IF oldModule = "present" THEN "there" ELSE "retired",
    held <- ~enabled,
    taken <- TRUE

\* phases/migrate_kmm.go:10-57: the phase is the second half of what phases 3 and 4 begin,
\* however often it is entered: the daemons are released by it alone, and leave the old
\* Module one by one before it is retired for good.
ImplementsHandover == Handover!SecondHalf

\* fusionaccess/ops.go:346-385: ibm-fusion-access goes last: the Module in it is gone, so
\* that no finalizer holds the namespace, and no Subscription for KMM is lost with it.
NamespaceLast ==
    namespace # "active" => oldModule = "gone" /\ FA \notin sub

\* openshiftkmm/ops.go:169-237: unless a pod ended between the deletion of the one Subscription for
\* KMM and the creation of the other, a done phase leaves one, and there never are two, with the
\* lists answered: a KMM managed elsewhere is left alone however often the phase is entered.
KMMKept ==
    ~cut =>
        /\ tool.pc = "done" => sub # {}
        /\ ~unseen => Cardinality(sub) <= 1

\* openshiftkmm/ops.go:197-237, 286-330: the CSV in openshift-kmm is only waited for when it is
\* there or OLM is free to install it: a KMM managed elsewhere, which would keep it from that,
\* was noticed, with the lists answered.
CSVCanCome ==
    tool.pc = "csv_wait" /\ ~unseen => KMM \in csv \/ (KMM \in sub /\ csv = {})

\* Once failures stop, a phase left off anywhere gets done, though the count it goes by may
\* be stale and the reports lag.  KMM must run, or have its Subscription in openshift-kmm: a
\* pod killed after the old CSV was deleted leaves the checks of the next to reports that
\* nobody writes any more.
PhaseGetsDone ==
    (calm /\ ~unseen /\ (KMMRuns \/ KMM \in sub)) ~> tool.pc = "done"

\* openshiftkmm/ops.go:159-168: "interrupted-migration recovery" puts the Subscription in openshift-kmm
\* after a restart: KMM is not lost.
KMMNotLost == tool.pc = "done" => sub # {}

\* kmm_module.go:346-349: the wait "confirms the actual kernel module upgrade on nodes has
\* completed".
UpgradeConfirmed ==
    [][tool.pc = "wait" /\ tool'.pc = "check_old" =>
          \A n \in tool.counted : stage[n] = "new"]_vars
=============================================================================
