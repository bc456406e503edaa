-------------------------- MODULE MigrateKMMProofs --------------------------
(* Proofs about MigrateKMM, for any finite set of nodes. *)
EXTENDS MigrateKMM, FiniteSetTheorems, TLAPS

(***************************************************************************)
(* Positions of the tool in the phase.                                     *)
(***************************************************************************)
Counted == Steps \ {"count"}
Confirmed == {"check_old", "delete_module"}
Moving == {"delete_csv", "delete_sub"}
Moved == {"create", "csv_wait", "remove_ns", "ns_gone", "done"}
ModuleGone == {"check_new", "recreate"} \cup Moving \cup Moved

NoneOld == \A n \in selected : stage[n] \notin {"old", "draining"}

\* What the reports say can be late, but is never ahead of the nodes.
ReportsInv ==
    /\ selected # {}
    /\ ~enabled => oldMatching # {} /\ \A n \in selected : stage[n] = "old"
    /\ oldMatching = {} => NoneOld
    /\ \A n \in Nodes : versions[n] = "target" => n \in selected /\ stage[n] = "new"

\* Where the tool is tells what it has seen to.
PositionInv ==
    /\ tool.pc \in Counted \ {"enable"} => enabled
    /\ tool.pc = "delete_module" => NoneOld
    /\ oldModule # "present" => enabled /\ NoneOld
    /\ tool.pc = "module_gone" => oldModule # "present"
    /\ tool.pc \in ModuleGone => oldModule = "gone"

\* The count is that of the nodes counted, and the versions were those of these nodes.
CountInv ==
    /\ tool.counted \subseteq selected
    /\ tool.pc \in Counted => tool.want = Cardinality(tool.counted)
    /\ tool.pc \in Confirmed /\ tool.counted = selected
          => \A n \in selected : stage[n] = "new"

\* The Subscription is in one place, or on its way.
SubInv ==
    /\ tool.pc \in Moving => FA \in sub
    /\ tool.pc \in Moved => FA \notin sub
    /\ namespace # "active" => FA \notin sub
    /\ ~cut /\ sub = {} => tool.pc = "create"
    /\ Elsewhere \in sub => Elsewhere \in csv
    /\ Elsewhere \in csv => copied
    /\ ~unseen /\ ~cut => sub \in {{}, {FA}, {KMM}, {Elsewhere}}
    /\ ~unseen /\ ~cut /\ tool.pc = "create" => sub = {}
    /\ namespace # "active" => oldModule = "gone"

\* Where KMM runs, and that OLM is free to install it where the tool waits for that.
CSVInv ==
    /\ FA \in sub => sub = {FA}
    /\ FA \in csv => FA \in sub
    /\ Elsewhere \in csv => Elsewhere \in sub
    /\ ~copied => csv \subseteq {KMM}
    /\ ~unseen /\ (KMM \in sub \/ tool.pc = "create") => Elsewhere \notin csv
    /\ tool.pc = "delete_sub" => FA \notin csv
    /\ tool.pc = "csv_wait" => KMM \in sub

Inv == TypeOK /\ ReportsInv /\ PositionInv /\ CountInv /\ SubInv /\ CSVInv

-----------------------------------------------------------------------------
(* Facts about the records of the tool *)

LEMMA StartFacts ==
    /\ Start \in Tool
    /\ Start.pc = "count" /\ Start.want = 0 /\ Start.counted = {}
BY DEF Start, Tool, Steps

LEMMA AtFacts ==
    ASSUME tool \in Tool, NEW pc \in Steps
    PROVE  /\ At(pc) \in Tool
           /\ At(pc).pc = pc /\ At(pc).want = tool.want /\ At(pc).counted = tool.counted
BY DEF At, Tool

LEMMA CountFacts ==
    ASSUME NEW s \in SUBSET Nodes
    PROVE  /\ [pc |-> "enable", want |-> Cardinality(s), counted |-> s] \in Tool
           /\ Cardinality(s) \in Nat
<1>1. IsFiniteSet(s)
  BY FS_Subset, NodesAssumption
<1>2. Cardinality(s) \in Nat
  BY <1>1, FS_CardinalityType
<1> QED
  BY <1>2 DEF Tool, Steps

-----------------------------------------------------------------------------
(* Type correctness *)

LEMMA InitType == Init => TypeOK
<1> SUFFICES ASSUME Init PROVE TypeOK
  OBVIOUS
<1>1. tool \in Tool
  BY StartFacts DEF Init
<1>2. stage \in [Nodes -> Stages]
  BY DEF Init, Stages
<1>3. versions \in [Nodes -> {"none", "old", "target"}]
  BY DEF Init
<1>4. selected \in SUBSET Nodes /\ oldMatching \in SUBSET Nodes /\ newMatching \in SUBSET Nodes
  BY NodesAssumption DEF Init
<1>5. sub \in SUBSET {FA, KMM, Elsewhere} /\ csv \in SUBSET {FA, KMM, Elsewhere}
  BY DEF Init
<1> QED
  BY <1>1, <1>2, <1>3, <1>4, <1>5 DEF Init, TypeOK

LEMMA ToolType == ASSUME TypeOK, ToolStep PROVE TypeOK'
<1>1. CASE ScaleDaemonNodeSelectorNodeCount
  <2>1. selected \in SUBSET Nodes
    BY DEF TypeOK
  <2>2. tool' \in Tool
    BY <1>1, <2>1, CountFacts DEF ScaleDaemonNodeSelectorNodeCount
  <2> QED
    BY <1>1, <2>2 DEF TypeOK, ScaleDaemonNodeSelectorNodeCount, nodes, status, olm, history
<1>2. CASE EnableKMMInScaleCluster
  <2>1. {"wait"} \subseteq Steps
    BY DEF Steps
  <2>2. tool' \in Tool
    BY <1>2, <2>1, AtFacts, StartFacts DEF TypeOK, EnableKMMInScaleCluster, Goto
  <2> QED
    BY <1>2, <2>2 DEF TypeOK, EnableKMMInScaleCluster, nodes, status, olm, history
<1>3. CASE WaitForScaleDaemonVersionUpgrade
  <2>1. {"check_old"} \subseteq Steps
    BY DEF Steps
  <2>2. tool' \in Tool
    BY <1>3, <2>1, AtFacts, StartFacts DEF TypeOK, WaitForScaleDaemonVersionUpgrade, Goto, AtDeadline
  <2> QED
    BY <1>3, <2>2 DEF TypeOK, WaitForScaleDaemonVersionUpgrade, nodes, status, olm, history
<1>4. CASE CheckFusionAccessKMMModuleNodesZero
  <2>1. {"delete_module"} \subseteq Steps
    BY DEF Steps
  <2>2. tool' \in Tool
    BY <1>4, <2>1, AtFacts, StartFacts DEF TypeOK, CheckFusionAccessKMMModuleNodesZero, Goto
  <2> QED
    BY <1>4, <2>2 DEF TypeOK, CheckFusionAccessKMMModuleNodesZero, nodes, status, olm, history
<1>5. CASE DeleteFusionAccessKMMModule
  <2>1. {"check_new", "module_gone"} \subseteq Steps
    BY DEF Steps
  <2>2. tool' \in Tool
    BY <1>5, <2>1, AtFacts, StartFacts DEF TypeOK, DeleteFusionAccessKMMModule, Goto, AfterModuleDelete
  <2> QED
    BY <1>5, <2>2 DEF TypeOK, DeleteFusionAccessKMMModule, nodes, status, olm, history
<1>6. CASE waitForKMMModuleGone
  <2>1. {"check_new"} \subseteq Steps
    BY DEF Steps
  <2>2. tool' \in Tool
    BY <1>6, <2>1, AtFacts, StartFacts DEF TypeOK, waitForKMMModuleGone, Goto
  <2> QED
    BY <1>6, <2>2 DEF TypeOK, waitForKMMModuleGone, nodes, status, olm, history
<1>7. CASE CheckSpectrumScaleKMMModuleNodesMatching
  <2>1. {"recreate"} \subseteq Steps
    BY DEF Steps
  <2>2. tool' \in Tool
    BY <1>7, <2>1, AtFacts, StartFacts DEF TypeOK, CheckSpectrumScaleKMMModuleNodesMatching, Goto
  <2> QED
    BY <1>7, <2>2 DEF TypeOK, CheckSpectrumScaleKMMModuleNodesMatching, nodes, status, olm, history
<1>8. CASE RecreateKMMSubscription
  <2>1. {"delete_csv", "remove_ns", "csv_wait", "create"} \subseteq Steps
    BY DEF Steps
  <2>2. tool' \in Tool
    BY <1>8, <2>1, AtFacts, StartFacts DEF TypeOK, RecreateKMMSubscription, Goto, MoveTo
  <2> QED
    BY <1>8, <2>2 DEF TypeOK, RecreateKMMSubscription, nodes, status, olm, history
<1>9. CASE ListOfCSVsFails
  <2>1. {"create"} \subseteq Steps
    BY DEF Steps
  <2>2. tool' \in Tool
    BY <1>9, <2>1, AtFacts, StartFacts DEF TypeOK, ListOfCSVsFails, Goto
  <2> QED
    BY <1>9, <2>2 DEF TypeOK, ListOfCSVsFails, nodes, status, olm, history
<1>10. CASE DeleteCSV
  <2>1. {"delete_sub"} \subseteq Steps
    BY DEF Steps
  <2>2. tool' \in Tool
    BY <1>10, <2>1, AtFacts, StartFacts DEF TypeOK, DeleteCSV, Goto
  <2> QED
    BY <1>10, <2>2 DEF TypeOK, DeleteCSV, nodes, status, olm, history
<1>11. CASE DeleteSubscription
  <2>1. {"create"} \subseteq Steps
    BY DEF Steps
  <2>2. tool' \in Tool
    BY <1>11, <2>1, AtFacts, StartFacts DEF TypeOK, DeleteSubscription, Goto, AfterDelete
  <2> QED
    BY <1>11, <2>2 DEF TypeOK, DeleteSubscription, nodes, status, olm, history
<1>12. CASE createKMMSubscriptionInOpenShiftKMM
  <2>1. {"csv_wait"} \subseteq Steps
    BY DEF Steps
  <2>2. tool' \in Tool
    BY <1>12, <2>1, AtFacts, StartFacts DEF TypeOK, createKMMSubscriptionInOpenShiftKMM, Goto
  <2> QED
    BY <1>12, <2>2 DEF TypeOK, createKMMSubscriptionInOpenShiftKMM, nodes, status, olm, history
<1>13. CASE waitForKMMCSVSucceeded
  <2>1. {"remove_ns"} \subseteq Steps
    BY DEF Steps
  <2>2. tool' \in Tool
    BY <1>13, <2>1, AtFacts, StartFacts DEF TypeOK, waitForKMMCSVSucceeded, Goto
  <2> QED
    BY <1>13, <2>2 DEF TypeOK, waitForKMMCSVSucceeded, nodes, status, olm, history
<1>14. CASE RemoveFusionAccessNamespace
  <2>1. {"done", "ns_gone"} \subseteq Steps
    BY DEF Steps
  <2>2. tool' \in Tool
    BY <1>14, <2>1, AtFacts, StartFacts DEF TypeOK, RemoveFusionAccessNamespace, Goto
  <2> QED
    BY <1>14, <2>2 DEF TypeOK, RemoveFusionAccessNamespace, nodes, status, olm, history
<1>15. CASE waitForNamespaceGone
  <2>1. {"done"} \subseteq Steps
    BY DEF Steps
  <2>2. tool' \in Tool
    BY <1>15, <2>1, AtFacts, StartFacts DEF TypeOK, waitForNamespaceGone, Goto
  <2> QED
    BY <1>15, <2>2 DEF TypeOK, waitForNamespaceGone, nodes, status, olm, history
<1> QED
  BY <1>1, <1>2, <1>3, <1>4, <1>5, <1>6, <1>7, <1>8, <1>9, <1>10, <1>11, <1>12, <1>13, <1>14, <1>15 DEF ToolStep

LEMMA TypeStep == ASSUME TypeOK, [Next]_vars PROVE TypeOK'
<1>1. CASE ToolStep
  BY <1>1, ToolType
<1>2. CASE Restart \/ RunAgain \/ Calm
  <2>1. CASE Restart
    BY <2>1, StartFacts DEF TypeOK, Restart, nodes, status, olm
  <2>2. CASE RunAgain
    BY <2>2, StartFacts DEF TypeOK, RunAgain, nodes, status, olm, history
  <2>3. CASE Calm
    BY <2>3 DEF TypeOK, Calm, nodes, status, olm, history
  <2> QED
    BY <1>2, <2>1, <2>2, <2>3
<1>3. ASSUME NEW n \in Nodes, UpgradeNode(n) PROVE TypeOK'
  <2>1. stage' \in [Nodes -> Stages]
    BY <1>3 DEF TypeOK, UpgradeNode, Stages
  <2> QED
    BY <1>3, <2>1 DEF TypeOK, UpgradeNode, status, olm, history
<1>4. ASSUME NEW n \in Nodes, NodeJoins(n) PROVE TypeOK'
  <2>1. stage' \in [Nodes -> Stages] /\ selected' \in SUBSET Nodes
    BY <1>4 DEF TypeOK, NodeJoins, Stages
  <2> QED
    BY <1>4, <2>1 DEF TypeOK, NodeJoins, status, olm, history
<1>5. CASE DaemonReports
  <2>1. versions' \in [Nodes -> {"none", "old", "target"}]
    BY <1>5 DEF DaemonReports, Seen
  <2> QED
    BY <1>5, <2>1 DEF TypeOK, DaemonReports, nodes, olm, history
<1>6. CASE OldModuleReports
  BY <1>6 DEF TypeOK, OldModuleReports, nodes, olm, history
<1>7. CASE NewModuleReports
  <2>1. newReady' \in BOOLEAN
    BY <1>7 DEF NewModuleReports
  <2>2. newMatching' \in SUBSET Nodes
    BY <1>7 DEF TypeOK, NewModuleReports
  <2> QED
    BY <1>7, <2>1, <2>2 DEF TypeOK, NewModuleReports, nodes, olm, history
<1>8. CASE OLMInstalls
  BY <1>8 DEF TypeOK, OLMInstalls, nodes, status, history
<1>9. CASE OLMCopies
  BY <1>9 DEF TypeOK, OLMCopies, KMMRuns, nodes, status, history
<1>10. CASE NamespaceGoes
  BY <1>10 DEF TypeOK, NamespaceGoes, nodes, status, history
<1>11. CASE UNCHANGED vars
  BY <1>11 DEF TypeOK, vars
<1> QED
  BY <1>1, <1>2, <1>3, <1>4, <1>5, <1>6, <1>7, <1>8, <1>9, <1>10, <1>11 DEF Next

\* Every reachable state of the phase has its type, for any finite set of nodes.
THEOREM TypeCorrect == Spec => []TypeOK
<1>1. Init => TypeOK
  BY InitType
<1>2. TypeOK /\ [Next]_vars => TypeOK'
  BY TypeStep
<1> QED
  BY <1>1, <1>2, PTL DEF Spec

-----------------------------------------------------------------------------
(* The reports and the nodes *)

LEMMA ReportsStep == ASSUME TypeOK, ReportsInv, [Next]_vars PROVE ReportsInv'
<1>1. CASE /\ UNCHANGED <<selected, stage, versions, oldMatching>>
           /\ enabled' = enabled \/ enabled'
  BY <1>1 DEF ReportsInv, NoneOld, TypeOK
<1>2. CASE ToolStep
  <2>1. UNCHANGED <<selected, stage, versions, oldMatching>>
    BY <1>2 DEF ToolStep, nodes, status,
      ScaleDaemonNodeSelectorNodeCount, EnableKMMInScaleCluster, WaitForScaleDaemonVersionUpgrade,
      CheckFusionAccessKMMModuleNodesZero, DeleteFusionAccessKMMModule, waitForKMMModuleGone,
      CheckSpectrumScaleKMMModuleNodesMatching, RecreateKMMSubscription, ListOfCSVsFails, DeleteCSV,
      DeleteSubscription, createKMMSubscriptionInOpenShiftKMM, waitForKMMCSVSucceeded, RemoveFusionAccessNamespace, waitForNamespaceGone
  <2>2. enabled' = enabled \/ enabled'
    BY <1>2 DEF ToolStep,
      ScaleDaemonNodeSelectorNodeCount, EnableKMMInScaleCluster, WaitForScaleDaemonVersionUpgrade,
      CheckFusionAccessKMMModuleNodesZero, DeleteFusionAccessKMMModule, waitForKMMModuleGone,
      CheckSpectrumScaleKMMModuleNodesMatching, RecreateKMMSubscription, ListOfCSVsFails, DeleteCSV,
      DeleteSubscription, createKMMSubscriptionInOpenShiftKMM, waitForKMMCSVSucceeded, RemoveFusionAccessNamespace, waitForNamespaceGone
  <2> QED
    BY <1>1, <2>1, <2>2
<1>3. CASE Restart \/ RunAgain \/ Calm \/ NewModuleReports \/ OLMInstalls \/ OLMCopies
           \/ NamespaceGoes \/ UNCHANGED vars
  BY <1>1, <1>3 DEF Restart, RunAgain, Calm, NewModuleReports, OLMInstalls, OLMCopies,
     NamespaceGoes, nodes, status, vars
<1>4. ASSUME NEW n \in Nodes, UpgradeNode(n) PROVE ReportsInv'
  <2>1. /\ enabled /\ UNCHANGED <<selected, enabled, versions, oldMatching>>
        /\ stage[n] # "new"
        /\ stage' = [stage EXCEPT ![n] = stage'[n]]
        /\ stage[n] \notin {"old", "draining"} => stage'[n] \notin {"old", "draining"}
    BY <1>4 DEF UpgradeNode, status, TypeOK
  <2>2. oldMatching' = {} => NoneOld'
    BY <2>1 DEF ReportsInv, NoneOld, TypeOK
  <2>3. \A k \in Nodes : versions'[k] = "target" => k \in selected' /\ stage'[k] = "new"
    BY <2>1 DEF ReportsInv, TypeOK
  <2> QED
    BY <2>1, <2>2, <2>3 DEF ReportsInv
<1>5. ASSUME NEW n \in Nodes, NodeJoins(n) PROVE ReportsInv'
  <2>1. /\ n \notin selected /\ selected' = selected \cup {n}
        /\ UNCHANGED <<enabled, versions, oldMatching>>
        /\ stage' = [stage EXCEPT ![n] = stage'[n]]
        /\ stage'[n] = IF enabled THEN "loading" ELSE "old"
    BY <1>5 DEF NodeJoins, status, TypeOK
  <2>2. oldMatching' = {} => NoneOld'
    BY <2>1 DEF ReportsInv, NoneOld, TypeOK
  <2>3. \A k \in Nodes : versions'[k] = "target" => k \in selected' /\ stage'[k] = "new"
    BY <2>1 DEF ReportsInv, TypeOK
  <2>4. ~enabled' => oldMatching' # {} /\ \A k \in selected' : stage'[k] = "old"
    BY <2>1 DEF ReportsInv, TypeOK
  <2> QED
    BY <2>1, <2>2, <2>3, <2>4 DEF ReportsInv
<1>6. CASE DaemonReports
  <2>1. \A k \in Nodes : versions'[k] = "target" => k \in selected /\ stage[k] = "new"
    BY <1>6 DEF DaemonReports, Seen
  <2> QED
    BY <1>6, <2>1 DEF DaemonReports, ReportsInv, NoneOld, nodes
<1>7. CASE OldModuleReports
  <2>1. oldMatching' = {} => NoneOld
    BY <1>7 DEF OldModuleReports, NoneOld
  <2>2. ~enabled => oldMatching' # {}
    BY <1>7 DEF OldModuleReports, ReportsInv
  <2> QED
    BY <1>7, <2>1, <2>2 DEF OldModuleReports, ReportsInv, NoneOld, nodes
<1> QED
  BY <1>2, <1>3, <1>4, <1>5, <1>6, <1>7 DEF Next

-----------------------------------------------------------------------------
(* Positions *)

\* Once no node is old, none becomes old again.
LEMMA NoneOldKept == ASSUME TypeOK, NoneOld, enabled, [Next]_vars PROVE NoneOld'
<1>1. CASE UNCHANGED nodes
  BY <1>1 DEF NoneOld, nodes
<1>2. CASE ToolStep
  <2>1. UNCHANGED nodes
    BY <1>2 DEF ToolStep,
      ScaleDaemonNodeSelectorNodeCount, EnableKMMInScaleCluster, WaitForScaleDaemonVersionUpgrade,
      CheckFusionAccessKMMModuleNodesZero, DeleteFusionAccessKMMModule, waitForKMMModuleGone,
      CheckSpectrumScaleKMMModuleNodesMatching, RecreateKMMSubscription, ListOfCSVsFails, DeleteCSV,
      DeleteSubscription, createKMMSubscriptionInOpenShiftKMM, waitForKMMCSVSucceeded, RemoveFusionAccessNamespace, waitForNamespaceGone
  <2> QED
    BY <1>1, <2>1
<1>3. ASSUME NEW n \in Nodes, UpgradeNode(n) PROVE NoneOld'
  BY <1>3 DEF UpgradeNode, NoneOld, TypeOK
<1>4. ASSUME NEW n \in Nodes, NodeJoins(n) PROVE NoneOld'
  BY <1>4 DEF NodeJoins, NoneOld, TypeOK
<1>5. CASE Restart \/ RunAgain \/ Calm \/ DaemonReports \/ OldModuleReports \/ NewModuleReports
           \/ OLMInstalls \/ OLMCopies \/ NamespaceGoes \/ UNCHANGED vars
  BY <1>1, <1>5 DEF Restart, RunAgain, Calm, DaemonReports, OldModuleReports, NewModuleReports,
     OLMInstalls, OLMCopies, NamespaceGoes, nodes, vars
<1> QED
  BY <1>2, <1>3, <1>4, <1>5 DEF Next

LEMMA PositionStep ==
    ASSUME TypeOK, ReportsInv, PositionInv, [Next]_vars
    PROVE  PositionInv'
<1> USE DEF Counted, ModuleGone, Moving, Moved, Steps
<1>0. (enabled /\ NoneOld) => NoneOld'
  BY NoneOldKept
<1>1. CASE UNCHANGED <<tool, enabled, oldModule>>
  BY <1>0, <1>1 DEF PositionInv
<1>2. CASE \/ \E n \in Nodes : UpgradeNode(n) \/ NodeJoins(n)
           \/ Calm \/ DaemonReports \/ OldModuleReports \/ NewModuleReports
           \/ OLMInstalls \/ OLMCopies \/ NamespaceGoes \/ UNCHANGED vars
  BY <1>1, <1>2 DEF UpgradeNode, NodeJoins, Calm, DaemonReports, OldModuleReports,
     NewModuleReports, OLMInstalls, OLMCopies, NamespaceGoes, nodes, vars
<1>3. CASE Restart \/ RunAgain
  BY <1>0, <1>3, StartFacts DEF Restart, RunAgain, PositionInv
<1>4. CASE ScaleDaemonNodeSelectorNodeCount
  BY <1>0, <1>4, AtFacts, StartFacts DEF ScaleDaemonNodeSelectorNodeCount, Goto, PositionInv, TypeOK
<1>5. CASE EnableKMMInScaleCluster
  BY <1>0, <1>5, AtFacts, StartFacts DEF EnableKMMInScaleCluster, Goto, PositionInv, TypeOK
<1>6. CASE WaitForScaleDaemonVersionUpgrade
  BY <1>0, <1>6, AtFacts, StartFacts DEF WaitForScaleDaemonVersionUpgrade, AtDeadline, Goto, PositionInv, TypeOK
<1>7. CASE CheckFusionAccessKMMModuleNodesZero
  BY <1>0, <1>7, AtFacts, StartFacts DEF CheckFusionAccessKMMModuleNodesZero, Inactive, ReportsInv, NoneOld, nodes, Goto, PositionInv, TypeOK
<1>8. CASE DeleteFusionAccessKMMModule
  BY <1>0, <1>8, AtFacts, StartFacts DEF DeleteFusionAccessKMMModule, AfterModuleDelete, Goto, PositionInv, TypeOK
<1>9. CASE waitForKMMModuleGone
  BY <1>0, <1>9, AtFacts, StartFacts DEF waitForKMMModuleGone, Goto, PositionInv, TypeOK
<1>10. CASE CheckSpectrumScaleKMMModuleNodesMatching
  BY <1>0, <1>10, AtFacts, StartFacts DEF CheckSpectrumScaleKMMModuleNodesMatching, Goto, PositionInv, TypeOK
<1>11. CASE RecreateKMMSubscription
  BY <1>0, <1>11, AtFacts, StartFacts DEF RecreateKMMSubscription, MoveTo, Goto, PositionInv, TypeOK
<1>12. CASE ListOfCSVsFails
  BY <1>0, <1>12, AtFacts, StartFacts DEF ListOfCSVsFails, Goto, PositionInv, TypeOK
<1>13. CASE DeleteCSV
  BY <1>0, <1>13, AtFacts, StartFacts DEF DeleteCSV, Goto, PositionInv, TypeOK
<1>14. CASE DeleteSubscription
  BY <1>0, <1>14, AtFacts, StartFacts DEF DeleteSubscription, AfterDelete, Goto, PositionInv, TypeOK
<1>15. CASE createKMMSubscriptionInOpenShiftKMM
  BY <1>0, <1>15, AtFacts, StartFacts DEF createKMMSubscriptionInOpenShiftKMM, Goto, PositionInv, TypeOK
<1>16. CASE waitForKMMCSVSucceeded
  BY <1>0, <1>16, AtFacts, StartFacts DEF waitForKMMCSVSucceeded, Goto, PositionInv, TypeOK
<1>17. CASE RemoveFusionAccessNamespace
  BY <1>0, <1>17, AtFacts, StartFacts DEF RemoveFusionAccessNamespace, Goto, PositionInv, TypeOK
<1>18. CASE waitForNamespaceGone
  BY <1>0, <1>18, AtFacts, StartFacts DEF waitForNamespaceGone, Goto, PositionInv, TypeOK
<1> QED
  BY <1>2, <1>3, <1>4, <1>5, <1>6, <1>7, <1>8, <1>9, <1>10, <1>11, <1>12, <1>13, <1>14, <1>15, <1>16, <1>17, <1>18 DEF Next, ToolStep

-----------------------------------------------------------------------------
(* The count *)

\* Nodes only join, and a new daemon stays new.
LEMMA NodesGrow ==
    ASSUME TypeOK, [Next]_vars
    PROVE  /\ selected \subseteq selected'
           /\ \A n \in selected : stage[n] = "new" => stage'[n] = "new"
<1>1. CASE UNCHANGED nodes
  BY <1>1 DEF nodes
<1>2. CASE ToolStep
  <2>1. UNCHANGED nodes
    BY <1>2 DEF ToolStep, ScaleDaemonNodeSelectorNodeCount, WaitForScaleDaemonVersionUpgrade,
      EnableKMMInScaleCluster, CheckFusionAccessKMMModuleNodesZero, DeleteFusionAccessKMMModule, waitForKMMModuleGone,
      CheckSpectrumScaleKMMModuleNodesMatching, RecreateKMMSubscription, ListOfCSVsFails, DeleteCSV,
      DeleteSubscription, createKMMSubscriptionInOpenShiftKMM, waitForKMMCSVSucceeded, RemoveFusionAccessNamespace, waitForNamespaceGone
  <2> QED
    BY <1>1, <2>1
<1>3. ASSUME NEW n \in Nodes, UpgradeNode(n)
      PROVE  selected = selected' /\ \A k \in selected : stage[k] = "new" => stage'[k] = "new"
  BY <1>3 DEF UpgradeNode, TypeOK
<1>4. ASSUME NEW n \in Nodes, NodeJoins(n)
      PROVE  /\ selected \subseteq selected'
             /\ \A k \in selected : stage[k] = "new" => stage'[k] = "new"
  BY <1>4 DEF NodeJoins, TypeOK
<1>5. CASE Restart \/ RunAgain \/ Calm \/ DaemonReports \/ OldModuleReports \/ NewModuleReports
           \/ OLMInstalls \/ OLMCopies \/ NamespaceGoes \/ UNCHANGED vars
  BY <1>1, <1>5 DEF Restart, RunAgain, Calm, DaemonReports, OldModuleReports, NewModuleReports,
     OLMInstalls, OLMCopies, NamespaceGoes, nodes, vars
<1> QED
  BY <1>2, <1>3, <1>4, <1>5 DEF Next

\* As many targets as nodes were counted, among the nodes counted, are these nodes.
LEMMA UpgradedMeansAll ==
    ASSUME TypeOK, ReportsInv, Upgraded, tool.counted = selected,
           tool.want = Cardinality(tool.counted)
    PROVE  \A n \in selected : stage[n] = "new"
<1> DEFINE T == {n \in Nodes : versions[n] = "target"}
<1>1. T \subseteq selected
  BY DEF ReportsInv
<1>2. IsFiniteSet(selected)
  BY FS_Subset, NodesAssumption DEF TypeOK
<1>3. Cardinality(T) = Cardinality(selected)
  BY DEF Upgraded
<1> HIDE DEF T
<1>4. T = selected
  BY <1>1, <1>2, <1>3, FS_Subset
<1> QED
  BY <1>4 DEF T, ReportsInv

LEMMA CountStep ==
    ASSUME TypeOK, ReportsInv, CountInv, [Next]_vars
    PROVE  CountInv'
<1> USE DEF Counted, Confirmed, Steps
<1>0. /\ selected \subseteq selected'
      /\ \A n \in selected : stage[n] = "new" => stage'[n] = "new"
  BY NodesGrow
<1>1. CASE UNCHANGED tool
  <2>1. ASSUME tool.pc \in Confirmed, tool.counted = selected'
        PROVE  \A n \in selected' : stage'[n] = "new"
    BY <1>0, <2>1 DEF CountInv
  <2> QED
    BY <1>0, <1>1, <2>1 DEF CountInv
<1>2. CASE tool' = Start
  BY <1>2, StartFacts DEF CountInv
<1>3. CASE \/ \E n \in Nodes : UpgradeNode(n) \/ NodeJoins(n)
           \/ Calm \/ DaemonReports \/ OldModuleReports \/ NewModuleReports
           \/ OLMInstalls \/ OLMCopies \/ NamespaceGoes \/ UNCHANGED vars
  BY <1>1, <1>3 DEF UpgradeNode, NodeJoins, Calm, DaemonReports, OldModuleReports,
     NewModuleReports, OLMInstalls, OLMCopies, NamespaceGoes, vars
<1>4. CASE Restart \/ RunAgain
  BY <1>2, <1>4 DEF Restart, RunAgain
<1>5. CASE ScaleDaemonNodeSelectorNodeCount
  <2>1. /\ tool'.pc = "enable" /\ tool'.want = Cardinality(selected)
        /\ tool'.counted = selected /\ selected' = selected
    BY <1>5 DEF ScaleDaemonNodeSelectorNodeCount, nodes
  <2> QED
    BY <2>1 DEF CountInv
<1>6. CASE WaitForScaleDaemonVersionUpgrade
  <2>1. CASE Upgraded
    <3>1. /\ tool'.pc = "check_old" /\ tool'.want = tool.want /\ tool'.counted = tool.counted
          /\ UNCHANGED nodes /\ tool.pc = "wait"
      BY <1>6, <2>1, AtFacts DEF WaitForScaleDaemonVersionUpgrade, TypeOK
    <3>2. tool.want = Cardinality(tool.counted)
      BY <3>1 DEF CountInv
    <3>3. tool.counted = selected => \A n \in selected : stage[n] = "new"
      BY <2>1, <3>2, UpgradedMeansAll
    <3> QED
      BY <3>1, <3>2, <3>3 DEF CountInv, nodes
  <2>2. CASE ~Upgraded
    BY <1>2, <1>6, <2>2 DEF WaitForScaleDaemonVersionUpgrade, AtDeadline
  <2> QED
    BY <2>1, <2>2
<1>7. CASE EnableKMMInScaleCluster
  BY <1>7, AtFacts, StartFacts DEF EnableKMMInScaleCluster, Goto, CountInv, TypeOK, nodes
<1>8. CASE CheckFusionAccessKMMModuleNodesZero
  BY <1>8, AtFacts, StartFacts DEF CheckFusionAccessKMMModuleNodesZero, Goto, CountInv, TypeOK, nodes
<1>9. CASE DeleteFusionAccessKMMModule
  BY <1>9, AtFacts, StartFacts DEF DeleteFusionAccessKMMModule, AfterModuleDelete, Goto, CountInv, TypeOK, nodes
<1>10. CASE waitForKMMModuleGone
  BY <1>10, AtFacts, StartFacts DEF waitForKMMModuleGone, Goto, CountInv, TypeOK, nodes
<1>11. CASE CheckSpectrumScaleKMMModuleNodesMatching
  BY <1>11, AtFacts, StartFacts DEF CheckSpectrumScaleKMMModuleNodesMatching, Goto, CountInv, TypeOK, nodes
<1>12. CASE RecreateKMMSubscription
  BY <1>12, AtFacts, StartFacts DEF RecreateKMMSubscription, MoveTo, Goto, CountInv, TypeOK, nodes
<1>13. CASE ListOfCSVsFails
  BY <1>13, AtFacts, StartFacts DEF ListOfCSVsFails, Goto, CountInv, TypeOK, nodes
<1>14. CASE DeleteCSV
  BY <1>14, AtFacts, StartFacts DEF DeleteCSV, Goto, CountInv, TypeOK, nodes
<1>15. CASE DeleteSubscription
  BY <1>15, AtFacts, StartFacts DEF DeleteSubscription, AfterDelete, Goto, CountInv, TypeOK, nodes
<1>16. CASE createKMMSubscriptionInOpenShiftKMM
  BY <1>16, AtFacts, StartFacts DEF createKMMSubscriptionInOpenShiftKMM, Goto, CountInv, TypeOK, nodes
<1>17. CASE waitForKMMCSVSucceeded
  BY <1>17, AtFacts, StartFacts DEF waitForKMMCSVSucceeded, Goto, CountInv, TypeOK, nodes
<1>18. CASE RemoveFusionAccessNamespace
  BY <1>18, AtFacts, StartFacts DEF RemoveFusionAccessNamespace, Goto, CountInv, TypeOK, nodes
<1>19. CASE waitForNamespaceGone
  BY <1>19, AtFacts, StartFacts DEF waitForNamespaceGone, Goto, CountInv, TypeOK, nodes
<1> QED
  BY <1>3, <1>4, <1>5, <1>6, <1>7, <1>8, <1>9, <1>10, <1>11, <1>12, <1>13, <1>14, <1>15, <1>16, <1>17, <1>18, <1>19 DEF Next, ToolStep

-----------------------------------------------------------------------------
(* The Subscription *)

LEMMA SubStep ==
    ASSUME TypeOK, PositionInv, SubInv, [Next]_vars
    PROVE  SubInv'
<1> USE DEF Moving, Moved, ModuleGone, FA, KMM, Elsewhere
<1>1. CASE UNCHANGED <<tool, oldModule, sub, csv, copied, namespace, cut, unseen>>
  BY <1>1 DEF SubInv
<1>2. CASE \/ \E n \in Nodes : UpgradeNode(n) \/ NodeJoins(n)
           \/ Calm \/ DaemonReports \/ OldModuleReports \/ NewModuleReports \/ UNCHANGED vars
  BY <1>1, <1>2 DEF UpgradeNode, NodeJoins, Calm, DaemonReports, OldModuleReports,
     NewModuleReports, olm, history, vars
<1>3. CASE Restart
  BY <1>3, StartFacts DEF Restart, SubInv, olm
<1>4. CASE RunAgain
  BY <1>4, StartFacts DEF RunAgain, SubInv, olm, history
<1>5. CASE OLMInstalls
  BY <1>5 DEF OLMInstalls, SubInv, history
<1>6. CASE OLMCopies
  BY <1>6 DEF OLMCopies, KMMRuns, SubInv, history
<1>7. CASE NamespaceGoes
  <2>1. FA \notin sub
    BY <1>7 DEF NamespaceGoes, SubInv
  <2>2. sub' = sub /\ (Elsewhere \in csv => Elsewhere \in csv') /\ csv' \subseteq csv
    BY <1>7, <2>1 DEF NamespaceGoes
  <2> QED
    BY <1>7, <2>1, <2>2 DEF NamespaceGoes, SubInv, history
<1>8. CASE ScaleDaemonNodeSelectorNodeCount
  BY <1>8, AtFacts, StartFacts DEF ScaleDaemonNodeSelectorNodeCount, Goto, SubInv, PositionInv, TypeOK,
     olm, history, Steps
<1>9. CASE WaitForScaleDaemonVersionUpgrade
  BY <1>9, AtFacts, StartFacts DEF WaitForScaleDaemonVersionUpgrade, AtDeadline, Goto, SubInv, PositionInv, TypeOK,
     olm, history, Steps
<1>10. CASE EnableKMMInScaleCluster
  BY <1>10, AtFacts, StartFacts DEF EnableKMMInScaleCluster, Goto, SubInv, PositionInv, TypeOK,
     olm, history, Steps
<1>11. CASE CheckFusionAccessKMMModuleNodesZero
  BY <1>11, AtFacts, StartFacts DEF CheckFusionAccessKMMModuleNodesZero, Goto, SubInv, PositionInv, TypeOK,
     olm, history, Steps
<1>12. CASE DeleteFusionAccessKMMModule
  BY <1>12, AtFacts, StartFacts DEF DeleteFusionAccessKMMModule, AfterModuleDelete, Goto, SubInv, PositionInv, TypeOK,
     olm, history, Steps
<1>13. CASE waitForKMMModuleGone
  BY <1>13, AtFacts, StartFacts DEF waitForKMMModuleGone, Goto, SubInv, PositionInv, TypeOK,
     olm, history, Steps
<1>14. CASE CheckSpectrumScaleKMMModuleNodesMatching
  BY <1>14, AtFacts, StartFacts DEF CheckSpectrumScaleKMMModuleNodesMatching, Goto,
     SubInv, PositionInv, TypeOK, olm, history, Steps
<1>15. CASE RecreateKMMSubscription
  BY <1>15, AtFacts, StartFacts DEF RecreateKMMSubscription, MoveTo, Goto, SubInv, PositionInv, TypeOK,
     olm, history, Steps
<1>16. CASE ListOfCSVsFails
  BY <1>16, AtFacts, StartFacts DEF ListOfCSVsFails, Goto, SubInv, PositionInv, TypeOK,
     olm, history, Steps
<1>17. CASE DeleteCSV
  BY <1>17, AtFacts, StartFacts DEF DeleteCSV, Goto, SubInv, PositionInv, TypeOK,
     olm, history, Steps
<1>18. CASE DeleteSubscription
  <2>1. /\ tool.pc = "delete_sub" /\ tool'.pc = "create"
        /\ sub' = sub \ {FA} /\ FA \in sub
        /\ UNCHANGED <<oldModule, csv, copied, namespace, cut, unseen>>
    BY <1>18, AtFacts DEF DeleteSubscription, AfterDelete, Goto, SubInv, TypeOK, history, Steps
  <2>2. ~unseen /\ ~cut => sub = {FA}
    BY <2>1 DEF SubInv
  <2>3. ~unseen /\ ~cut => sub' = {}
    BY <2>1, <2>2
  <2>4. FA \notin sub' /\ (Elsewhere \in sub' => Elsewhere \in sub)
    BY <2>1
  <2> QED
    BY <2>1, <2>3, <2>4 DEF SubInv
<1>19. CASE createKMMSubscriptionInOpenShiftKMM
  BY <1>19, AtFacts, StartFacts DEF createKMMSubscriptionInOpenShiftKMM, Goto, SubInv, PositionInv, TypeOK,
     olm, history, Steps
<1>20. CASE waitForKMMCSVSucceeded
  BY <1>20, AtFacts, StartFacts DEF waitForKMMCSVSucceeded, Goto, SubInv, PositionInv, TypeOK,
     olm, history, Steps
<1>21. CASE RemoveFusionAccessNamespace
  BY <1>21, AtFacts, StartFacts DEF RemoveFusionAccessNamespace, Goto, SubInv, PositionInv, TypeOK,
     olm, history, Steps
<1>22. CASE waitForNamespaceGone
  BY <1>22, AtFacts, StartFacts DEF waitForNamespaceGone, Goto, SubInv, PositionInv, TypeOK,
     olm, history, Steps
<1> QED
  BY <1>2, <1>3, <1>4, <1>5, <1>6, <1>7, <1>8, <1>9, <1>10, <1>11, <1>12, <1>13, <1>14,
     <1>15, <1>16, <1>17, <1>18, <1>19, <1>20, <1>21, <1>22 DEF Next, ToolStep

-----------------------------------------------------------------------------
(* Where KMM runs *)

LEMMA NamespacesDiffer == FA # KMM /\ FA # Elsewhere /\ KMM # Elsewhere
BY DEF FA, KMM, Elsewhere

LEMMA CSVStep ==
    ASSUME TypeOK, SubInv, CSVInv, [Next]_vars
    PROVE  CSVInv'
<1> USE NamespacesDiffer
<1>1. CASE UNCHANGED <<sub, csv, copied, unseen>> /\ tool'.pc \notin {"create", "delete_sub", "csv_wait"}
  BY <1>1 DEF CSVInv
<1>2. CASE UNCHANGED <<tool, sub, csv, copied, unseen>>
  BY <1>2 DEF CSVInv
<1>3. CASE \/ \E n \in Nodes : UpgradeNode(n) \/ NodeJoins(n)
           \/ Calm \/ DaemonReports \/ OldModuleReports \/ NewModuleReports \/ UNCHANGED vars
  BY <1>2, <1>3 DEF UpgradeNode, NodeJoins, Calm, DaemonReports, OldModuleReports,
     NewModuleReports, olm, history, vars
<1>4. CASE Restart \/ RunAgain
  BY <1>1, <1>4, StartFacts DEF Restart, RunAgain, olm, history
<1>5. CASE OLMInstalls
  BY <1>5 DEF OLMInstalls, CSVInv, history
<1>6. CASE OLMCopies
  BY <1>6 DEF OLMCopies, KMMRuns, CSVInv, history
<1>7. CASE NamespaceGoes
  BY <1>7 DEF NamespaceGoes, CSVInv, SubInv, history
<1>8. CASE \/ ScaleDaemonNodeSelectorNodeCount \/ EnableKMMInScaleCluster
           \/ WaitForScaleDaemonVersionUpgrade \/ CheckFusionAccessKMMModuleNodesZero
           \/ DeleteFusionAccessKMMModule \/ waitForKMMModuleGone
           \/ CheckSpectrumScaleKMMModuleNodesMatching
           \/ RemoveFusionAccessNamespace \/ waitForNamespaceGone
  <2>1. UNCHANGED <<sub, csv, copied, unseen>>
    BY <1>8 DEF ScaleDaemonNodeSelectorNodeCount, EnableKMMInScaleCluster,
       WaitForScaleDaemonVersionUpgrade, CheckFusionAccessKMMModuleNodesZero,
       DeleteFusionAccessKMMModule, waitForKMMModuleGone,
       CheckSpectrumScaleKMMModuleNodesMatching, RemoveFusionAccessNamespace,
       waitForNamespaceGone, olm, history
  <2>2. tool'.pc \in {"enable", "wait", "check_old", "count", "delete_module", "check_new",
                     "module_gone", "recreate", "done", "ns_gone"}
    BY <1>8, AtFacts, StartFacts DEF ScaleDaemonNodeSelectorNodeCount, EnableKMMInScaleCluster,
       WaitForScaleDaemonVersionUpgrade, AtDeadline, CheckFusionAccessKMMModuleNodesZero,
       DeleteFusionAccessKMMModule, AfterModuleDelete, waitForKMMModuleGone,
       CheckSpectrumScaleKMMModuleNodesMatching, RemoveFusionAccessNamespace,
       waitForNamespaceGone, Goto, TypeOK, Steps
  <2> QED
    BY <1>1, <2>1, <2>2
<1>9. CASE RecreateKMMSubscription
  <2>1. UNCHANGED <<sub, csv, copied, unseen>> /\ tool'.pc = MoveTo
    BY <1>9, AtFacts DEF RecreateKMMSubscription, MoveTo, Goto, TypeOK, Steps, olm, history
  <2>2. MoveTo = "create" => Elsewhere \notin csv
    BY DEF MoveTo, CSVInv
  <2>3. MoveTo = "csv_wait" => KMM \in sub
    BY DEF MoveTo
  <2>4. MoveTo # "delete_sub"
    BY DEF MoveTo
  <2> QED
    BY <2>1, <2>2, <2>3, <2>4 DEF CSVInv
<1>10. CASE ListOfCSVsFails
  <2>1. UNCHANGED <<sub, csv, copied>> /\ tool'.pc = "create" /\ unseen'
    BY <1>10, AtFacts DEF ListOfCSVsFails, Goto, TypeOK, Steps, olm
  <2> QED
    BY <2>1 DEF CSVInv
<1>11. CASE DeleteCSV
  <2>1. UNCHANGED <<sub, copied, unseen>> /\ tool'.pc = "delete_sub" /\ csv' = csv \ {FA}
    BY <1>11, AtFacts DEF DeleteCSV, Goto, TypeOK, Steps, history
  <2> QED
    BY <2>1 DEF CSVInv
<1>12. CASE DeleteSubscription
  <2>1. /\ UNCHANGED <<csv, copied, unseen>> /\ tool'.pc = "create" /\ sub' = sub \ {FA}
        /\ tool.pc = "delete_sub"
    BY <1>12, AtFacts DEF DeleteSubscription, AfterDelete, Goto, TypeOK, Steps, history
  <2>2. sub = {FA} /\ FA \notin csv
    BY <2>1 DEF SubInv, CSVInv, Moving
  <2> QED
    BY <2>1, <2>2 DEF CSVInv
<1>13. CASE createKMMSubscriptionInOpenShiftKMM
  <2>1. /\ UNCHANGED <<csv, copied, unseen>> /\ tool'.pc = "csv_wait" /\ sub' = sub \cup {KMM}
        /\ tool.pc = "create"
    BY <1>13, AtFacts DEF createKMMSubscriptionInOpenShiftKMM, Goto, TypeOK, Steps, history
  <2>2. FA \notin sub
    BY <2>1 DEF SubInv, Moved
  <2> QED
    BY <2>1, <2>2 DEF CSVInv
<1>14. CASE waitForKMMCSVSucceeded
  BY <1>1, <1>14, AtFacts DEF waitForKMMCSVSucceeded, Goto, TypeOK, Steps, olm, history
<1> QED
  BY <1>3, <1>4, <1>5, <1>6, <1>7, <1>8, <1>9, <1>10, <1>11, <1>12, <1>13, <1>14 DEF Next, ToolStep

-----------------------------------------------------------------------------
(* The theorems *)

LEMMA InitInv == Init => Inv
<1> SUFFICES ASSUME Init PROVE Inv
  OBVIOUS
<1>1. TypeOK
  BY InitType
<1>2. ReportsInv
  BY NodesAssumption DEF Init, ReportsInv, NoneOld
<1>3. PositionInv
  BY StartFacts DEF Init, PositionInv, Counted, ModuleGone, Moving, Moved, Steps
<1>4. CountInv
  BY StartFacts DEF Init, CountInv, Counted, Confirmed, Steps
<1>5. SubInv
  BY StartFacts DEF Init, SubInv, Moving, Moved, FA, KMM, Elsewhere
<1>6. CSVInv
  BY StartFacts, NamespacesDiffer DEF Init, CSVInv
<1> QED
  BY <1>1, <1>2, <1>3, <1>4, <1>5, <1>6 DEF Inv

\* The inductive invariant: the reports are never ahead of the nodes, and where the tool is
\* in the phase tells what was seen to and where the Subscription is.
THEOREM Invariant == Spec => []Inv
<1>1. Inv /\ [Next]_vars => Inv'
  BY TypeStep, ReportsStep, PositionStep, CountStep, SubStep, CSVStep DEF Inv
<1> QED
  BY InitInv, <1>1, PTL DEF Spec

\* No node loses the kernel module it runs on: the old Module is deleted when no node's label
\* matches it any more (kmm_module.go:467-612).
THEOREM OldModuleIsUnused == Spec => []OldModuleUnused
<1>1. Inv => OldModuleUnused
  BY DEF Inv, PositionInv, NoneOld, OldModuleUnused
<1> QED
  BY <1>1, Invariant, PTL

\* The Fusion Access namespace is deleted with nothing in it that is held or still needed
\* (fusionaccess/ops.go:346-385).
THEOREM NamespaceGoesLast == Spec => []NamespaceLast
<1>1. Inv => NamespaceLast
  BY DEF Inv, SubInv, NamespaceLast
<1> QED
  BY <1>1, Invariant, PTL

\* With no pod killed between the two Subscriptions the phase never ends without one, and with
\* the lists answered KMM is never subscribed to twice (openshiftkmm/ops.go:169-237).
THEOREM KMMIsKept == Spec => []KMMKept
<1>1. Inv => KMMKept
  <2>1. Cardinality({}) = 0
    BY FS_EmptySet
  <2>2. /\ Cardinality({FA}) = 1 /\ Cardinality({KMM}) = 1 /\ Cardinality({Elsewhere}) = 1
    BY FS_Singleton
  <2>3. ASSUME Inv, ~unseen, ~cut PROVE Cardinality(sub) <= 1
    <3>1. sub \in {{}, {FA}, {KMM}, {Elsewhere}}
      BY <2>3 DEF Inv, SubInv
    <3>2. Cardinality(sub) \in {0, 1}
      BY <2>1, <2>2, <3>1
    <3> QED
      BY <3>2
  <2>4. ASSUME Inv, ~cut, tool.pc = "done" PROVE sub # {}
    BY <2>4 DEF Inv, SubInv
  <2> QED
    BY <2>3, <2>4 DEF KMMKept
<1> QED
  BY <1>1, Invariant, PTL

\* The CSV in openshift-kmm is only waited for when nothing keeps OLM from installing it
\* (openshiftkmm/ops.go:197-237).
THEOREM TheCSVCanCome == Spec => []CSVCanCome
<1>1. ASSUME Inv, tool.pc = "csv_wait", ~unseen PROVE KMM \in csv \/ (KMM \in sub /\ csv = {})
  <2>1. KMM \in sub
    BY <1>1 DEF Inv, CSVInv
  <2>2. FA \notin csv /\ Elsewhere \notin csv
    BY <1>1, <2>1, NamespacesDiffer DEF Inv, CSVInv
  <2>3. csv \subseteq {FA, KMM, Elsewhere}
    BY <1>1 DEF Inv, TypeOK
  <2> QED
    BY <2>1, <2>2, <2>3
<1>2. Inv => CSVCanCome
  BY <1>1 DEF CSVCanCome
<1> QED
  BY <1>2, Invariant, PTL

\* When the old Module is deleted every daemon counted runs the target version
\* (kmm_module.go:350-462): the count of the status and the count of the nodes agree on
\* which nodes these are.
THEOREM ModuleOutlives == Spec => ModuleOutlivesUpgrade
<1> DEFINE Kept == oldModule = "present" /\ oldModule' # "present" /\ tool.counted = selected
                      => \A n \in selected : stage[n] = "new"
<1>1. Inv /\ [Next]_vars => Kept
  <2> SUFFICES ASSUME Inv, [Next]_vars, oldModule = "present", oldModule' # "present",
                      tool.counted = selected
               PROVE  \A n \in selected : stage[n] = "new"
    OBVIOUS
  <2>1. DeleteFusionAccessKMMModule \/ waitForKMMModuleGone
    BY DEF Next, ToolStep, vars, Restart, RunAgain, Calm, UpgradeNode, NodeJoins, DaemonReports,
       OldModuleReports, NewModuleReports, OLMInstalls, OLMCopies, NamespaceGoes,
       ScaleDaemonNodeSelectorNodeCount, EnableKMMInScaleCluster,
       WaitForScaleDaemonVersionUpgrade, CheckFusionAccessKMMModuleNodesZero,
       CheckSpectrumScaleKMMModuleNodesMatching, RecreateKMMSubscription, ListOfCSVsFails,
       DeleteCSV, DeleteSubscription, createKMMSubscriptionInOpenShiftKMM,
       waitForKMMCSVSucceeded, RemoveFusionAccessNamespace, waitForNamespaceGone
  <2>2. tool.pc = "delete_module"
    BY <2>1 DEF DeleteFusionAccessKMMModule, waitForKMMModuleGone, Inv, PositionInv
  <2> QED
    BY <2>2 DEF Inv, CountInv, Confirmed
<1> QED
  BY <1>1, Invariant, PTL DEF Spec, ModuleOutlivesUpgrade
-----------------------------------------------------------------------------
(* The second half of the handover *)

LEMMA ToolUnseen ==  \* by the daemons
    ASSUME TypeOK, ToolStep, ~EnableKMMInScaleCluster, ~DeleteFusionAccessKMMModule,
           ~waitForKMMModuleGone
    PROVE  UNCHANGED <<selected, stage, enabled, oldModule>>
BY DEF ToolStep, ScaleDaemonNodeSelectorNodeCount, WaitForScaleDaemonVersionUpgrade,
   CheckFusionAccessKMMModuleNodesZero, CheckSpectrumScaleKMMModuleNodesMatching,
   RecreateKMMSubscription, ListOfCSVsFails, DeleteCSV, DeleteSubscription,
   createKMMSubscriptionInOpenShiftKMM, waitForKMMCSVSucceeded, RemoveFusionAccessNamespace,
   waitForNamespaceGone, nodes

LEMMA HandoverStep ==
    ASSUME Inv, [Next]_vars
    PROVE  [Handover!Next]_(Handover!vars)
<1> DEFINE Old == {n \in selected : stage[n] \in {"old", "draining"}}
<1>1. CASE UNCHANGED <<selected, stage, enabled, oldModule>>
  BY <1>1 DEF Handover!vars
<1>2. CASE EnableKMMInScaleCluster
  <2>1. UNCHANGED <<selected, stage, oldModule>> /\ enabled'
    BY <1>2 DEF EnableKMMInScaleCluster, nodes
  <2>2. CASE enabled
    BY <1>1, <2>1, <2>2 DEF Inv, TypeOK
  <2>3. CASE ~enabled
    <3>1. oldModule = "present"
      BY <2>3 DEF Inv, PositionInv
    <3>2. Handover!Release
      BY <2>1, <3>1 DEF Handover!Release
    <3> QED
      BY <3>2 DEF Handover!Next
  <2> QED
    BY <2>2, <2>3
<1>3. CASE DeleteFusionAccessKMMModule \/ waitForKMMModuleGone
  <2>1. UNCHANGED <<selected, stage, enabled>>
    BY <1>3 DEF DeleteFusionAccessKMMModule, waitForKMMModuleGone, nodes
  <2>2. oldModule' # "present"
    BY <1>3 DEF DeleteFusionAccessKMMModule, waitForKMMModuleGone
  <2>3. CASE oldModule # "present"
    BY <2>1, <2>2, <2>3 DEF Handover!vars
  <2>4. CASE oldModule = "present"
    <3>1. NoneOld
      BY <1>3, <2>4 DEF DeleteFusionAccessKMMModule, waitForKMMModuleGone, Inv, PositionInv
    <3>2. Old = {}
      BY <3>1 DEF NoneOld
    <3>3. Handover!Retire
      BY <2>1, <2>2, <2>4, <3>2 DEF Handover!Retire
    <3> QED
      BY <3>3 DEF Handover!Next
  <2> QED
    BY <2>3, <2>4
<1>4. ASSUME NEW n \in Nodes, UpgradeNode(n) PROVE [Handover!Next]_(Handover!vars)
  <2>1. enabled /\ n \in selected /\ UNCHANGED <<selected, enabled, oldModule>>
    BY <1>4 DEF UpgradeNode
  <2>2. CASE stage[n] = "draining"
    <3>1. stage' = [stage EXCEPT ![n] = "loading"]
      BY <1>4, <2>2 DEF UpgradeNode
    <3>2. {m \in selected' : stage'[m] \in {"old", "draining"}} = Old \ {n}
      BY <2>1, <3>1 DEF Inv, TypeOK
    <3>3. n \in Old
      BY <2>1, <2>2
    <3>4. Handover!Upgrade(n)
      BY <2>1, <3>2, <3>3 DEF Handover!Upgrade
    <3> QED
      BY <3>4 DEF Handover!Next
  <2>3. CASE stage[n] # "draining"
    <3>1. \/ stage[n] = "old" /\ stage' = [stage EXCEPT ![n] = "draining"]
          \/ stage[n] = "loading" /\ stage' = [stage EXCEPT ![n] = "new"]
      BY <1>4, <2>3 DEF UpgradeNode
    <3>2. {m \in selected' : stage'[m] \in {"old", "draining"}} = Old
      BY <2>1, <3>1 DEF Inv, TypeOK
    <3> QED
      BY <2>1, <3>2 DEF Handover!vars
  <2> QED
    BY <2>2, <2>3
<1>5. ASSUME NEW n \in Nodes, NodeJoins(n) PROVE [Handover!Next]_(Handover!vars)
  <2>1. /\ n \notin selected /\ selected' = selected \cup {n}
        /\ stage' = [stage EXCEPT ![n] = IF enabled THEN "loading" ELSE "old"]
        /\ UNCHANGED <<enabled, oldModule>>
    BY <1>5 DEF NodeJoins
  <2>2. CASE enabled
    <3>1. {m \in selected' : stage'[m] \in {"old", "draining"}} = Old
      BY <2>1, <2>2 DEF Inv, TypeOK
    <3> QED
      BY <2>1, <3>1 DEF Handover!vars
  <2>3. CASE ~enabled
    <3>1. oldModule = "present"
      BY <2>3 DEF Inv, PositionInv
    <3>2. {m \in selected' : stage'[m] \in {"old", "draining"}} = Old \cup {n}
      BY <2>1, <2>3 DEF Inv, TypeOK
    <3>3. Old \cup {n} \in SUBSET Nodes
      BY DEF Inv, TypeOK
    <3>4. Handover!Join(n)
      BY <2>1, <3>1, <3>2, <3>3 DEF Handover!Join, Handover!Covered
    <3> QED
      BY <3>4 DEF Handover!Next
  <2> QED
    BY <2>2, <2>3
<1>6. CASE Restart \/ RunAgain \/ Calm \/ DaemonReports \/ OldModuleReports \/ NewModuleReports
           \/ OLMInstalls \/ OLMCopies \/ NamespaceGoes \/ UNCHANGED vars
  BY <1>1, <1>6 DEF Restart, RunAgain, Calm, DaemonReports, OldModuleReports, NewModuleReports,
     OLMInstalls, OLMCopies, NamespaceGoes, nodes, vars
<1> QED
  BY <1>1, <1>2, <1>3, <1>4, <1>5, <1>6, ToolUnseen DEF Inv, Next

\* The phase implements the second half of the handover, for any finite set of nodes, though
\* it sees the nodes through late reports and is entered again and again (migrate_kmm.go).
THEOREM HandoverImplemented == Spec => ImplementsHandover
<1>1. Init => Handover!TakenOver
  BY NodesAssumption DEF Init, Handover!TakenOver, Handover!Covered
<1>2. Inv /\ [Next]_vars => [Handover!Next]_(Handover!vars)
  BY HandoverStep
<1> QED
  BY <1>1, <1>2, Invariant, PTL DEF Spec, ImplementsHandover, Handover!SecondHalf

\* What DaemonHandoverProofs shows of the handover, with the nodes and Modules of this module.
Daemons == INSTANCE DaemonHandoverProofs WITH
    bound <- {n \in selected : stage[n] \in {"old", "draining"}},
    matched <- {n \in selected : stage[n] \in {"old", "draining"}},
    module <- IF oldModule = "present" THEN "there" ELSE "retired",
    held <- ~enabled,
    taken <- TRUE

\* No daemon leaves the old Module before this phase releases the updates, and with the Module
\* deleted none is left, nor ever comes back to it (migrate_kmm.go:10-57).
THEOREM DaemonsAreSafe == Spec => []Handover!Kept /\ Handover!LeaveWhenReleased
<1>1. Spec => Handover!SecondHalf
  BY HandoverImplemented DEF ImplementsHandover
<1>2. Handover!TakenOver => Daemons!TakenOver
  BY Zenon DEF Handover!TakenOver, Handover!Covered, Daemons!TakenOver, Daemons!Covered
<1>3. [Handover!Next]_(Handover!vars) => [Daemons!Next]_(Daemons!vars)
  BY Zenon DEF Handover!Next, Handover!vars, Handover!Covered, Handover!Join, Handover!Reselect,
         Handover!Hold, Handover!TakeOver, Handover!Release, Handover!Upgrade, Handover!Retire,
         Handover!Lose,
         Daemons!Next, Daemons!vars, Daemons!Covered, Daemons!Join, Daemons!Reselect,
         Daemons!Hold, Daemons!TakeOver, Daemons!Release, Daemons!Upgrade, Daemons!Retire,
         Daemons!Lose
<1>4. Handover!SecondHalf => Daemons!SecondHalf
  BY <1>2, <1>3, PTL DEF Handover!SecondHalf, Daemons!SecondHalf
<1>5. Daemons!Kept => Handover!Kept
  BY Zenon DEF Daemons!Kept, Daemons!Covered, Handover!Kept, Handover!Covered
<1>6. Daemons!SecondHalf => []Daemons!Kept /\ Daemons!LeaveWhenReleased
  BY Daemons!DaemonsAreKept, Daemons!DaemonsLeaveLate, PTL
<1>7. Daemons!LeaveWhenReleased => Handover!LeaveWhenReleased
  BY PTL DEF Daemons!LeaveWhenReleased, Handover!LeaveWhenReleased, Daemons!vars, Handover!vars
<1> QED
  BY <1>1, <1>4, <1>5, <1>6, <1>7, PTL
=============================================================================
