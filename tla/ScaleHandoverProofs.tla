------------------------- MODULE ScaleHandoverProofs -------------------------
(* Proofs about ScaleHandover, for any Clusters and nodes. *)
EXTENDS ScaleHandover, FiniteSetTheorems, TLAPS

(***************************************************************************)
(* Positions of the tool in the two phases.                                *)
(***************************************************************************)
Paused == (Phase3 \ {"remove", "remove_rest", "list_clusters", "pause"}) \cup Phase4
ScaleReady == {"list_grafana", "grafana", "monitoring", "done"}

\* The checkpoint of phase 3 stands between the phases, and what it vouches for.
HandedInv ==
    /\ handed <=> tool.pc \in Phase4
    /\ tool.pc \in Paused => paused = Clusters
    /\ tool.pc = "pause" => Clusters \ paused \subseteq tool.todo
    /\ AccessRemoved
    /\ ~upgrade /\ "csv" \in fa => "sub" \in fa /\ tool.pc # "remove_rest"

\* What must have happened before the new operator can run.
ChainInv ==
    /\ fdfSub = "desired" => handed
    /\ current = "4.21" => fdfSub = "desired"
    /\ fdf \in {"installing", "4.21"} => current = "4.21"
    /\ scale # "none" => fdf = "4.21"
    /\ newRuns => scale # "none"

\* Every daemon runs the image of before, and the Module asks for no other.
DigestInv ==
    /\ \A n \in StorageNodes : label[n] \in {"none", "old"}
    /\ \E n \in StorageNodes : label[n] = "old"
    /\ selector.digest \in {"any", "old"}
    /\ tool.pc = "patch_update" => selector.digest = "old" \/ tool.digest = "old"

\* A signing key in ibm-spectrum-scale came with its pair, which stays where it came from.
SecretsInv ==
    /\ faNS /\ Pair \cap copied # {} => Pair \subseteq held
    /\ tool.pc \in {"sign_key", "sign_pub"} => (faNS => Pair \subseteq held)
    /\ tool.pc = "sign_pub" => "secureboot-signing-key" \in copied
    /\ tool.pc \in {"entitle", "handed"} \cup Phase4 => (flag <=> Pair \subseteq copied)
    /\ tool.pc \in {"handed"} \cup Phase4 => Entitlement \in copied

\* What phase 4 has seen to.
InstalledInv ==
    /\ tool.pc \in ScaleReady => scale = "Succeeded" /\ replicas
    /\ tool.pc = "grafana" => Clusters \ grafana \subseteq tool.todo
    /\ tool.pc \in {"monitoring", "done"} => grafana = Clusters
    /\ tool.pc \in ScaleReady \cup {"scale_wait"} => "console_plugin" \in settled
    /\ tool.pc = "done" => "monitoring_label" \in settled

\* What the tool still needs it has not switched off, and what it waits for it has asked for.
ServiceInv ==
    /\ paused # Clusters => wanted /\ oldRuns
    /\ tool.pc = "pause" => tool.todo \cap paused = {}
    /\ tool.pc \in Phase4 \ {"group"} => OwnGroup \in groups
    /\ tool.pc \in Phase4 \ {"group", "subscribe"} => fdfSub = "desired"

Inv ==
    TypeOK /\ HandedInv /\ ChainInv /\ DigestInv /\ SecretsInv /\ InstalledInv /\ ServiceInv

-----------------------------------------------------------------------------
(* Type correctness *)

LEMMA AtFacts ==
    ASSUME NEW pc \in Steps, NEW todo \in SUBSET Clusters, NEW digest \in Digests \cup {"unread"}
    PROVE  At(pc, todo, digest) \in Tool
BY DEF At, Tool

LEMMA GotoFacts ==
    ASSUME tool \in Tool, NEW pc \in Steps, Goto(pc)
    PROVE  tool' \in Tool
<1>1. tool.digest \in Digests \cup {"unread"}
  BY DEF Tool
<1> QED
  BY <1>1, AtFacts DEF Goto

LEMMA TodoFacts ==
    ASSUME tool \in Tool, NEW c, tool' = [tool EXCEPT !.todo = @ \ {c}]
    PROVE  /\ tool' \in Tool
           /\ tool'.pc = tool.pc /\ tool'.todo = tool.todo \ {c} /\ tool'.digest = tool.digest
BY DEF Tool

LEMMA AgainFacts ==
    ASSUME Again
    PROVE  /\ tool' \in Tool
           /\ resuming' \in BOOLEAN /\ flag' \in BOOLEAN /\ UNCHANGED handed
<1>1. "group" \in Steps /\ "remove" \in Steps
  BY DEF Steps, Phase3, Phase4
<1>2. {} \in SUBSET Clusters /\ "unread" \in Digests \cup {"unread"}
  OBVIOUS
<1>3. (IF handed THEN "group" ELSE "remove") \in Steps
  BY <1>1
<1>4. At(IF handed THEN "group" ELSE "remove", {}, "unread") \in Tool
  BY <1>2, <1>3, AtFacts
<1> QED
  BY <1>4 DEF Again

LEMMA InitType == Init => TypeOK
<1> SUFFICES ASSUME Init PROVE TypeOK
  OBVIOUS
<1>1. "remove" \in Steps /\ "unread" \in Digests \cup {"unread"}
  BY DEF Steps, Phase3
<1>2. tool \in Tool
  BY <1>1, AtFacts DEF Init
<1>3. held \in SUBSET Secrets /\ copied \in SUBSET Secrets
  BY DEF Init, Secrets
<1>4. selector \in [role : BOOLEAN, digest : Digests \cup {"any"}]
  BY DEF Init, Digests
<1>5. label \in [Nodes -> Digests \cup {"none"}]
  BY DEF Init, Digests
<1>6. groups \in SUBSET {OwnGroup, OtherGroup} /\ fdfSub \in {"none", "old", "desired"}
      /\ current \in {"none", "4.20", "pending", "4.21"} /\ fdf \in {"none", "4.20", "installing", "4.21"}
  BY DEF Init
<1> QED
  BY <1>2, <1>3, <1>4, <1>5, <1>6 DEF Init, TypeOK

\* An upgrade touches what Fusion Access has installed, or the CSV named for FDF 4.20.
LEMMA UpgradesFacts ==
    ASSUME TypeOK, Upgrades
    PROVE  /\ UNCHANGED <<tool, checkpoint, faNS, held, copied, daemons, old, groups, fdfSub,
                           fdf, new, settled, calm>>
           /\ fa' \in SUBSET {"sub", "csv"} /\ upgrade' \in BOOLEAN
           /\ \/ UNCHANGED <<fa, upgrade>>
              \/ "sub" \in fa /\ upgrade'
           /\ \/ UNCHANGED current
              \/ fdfSub = "old" /\ current' \in {"4.20", "pending"}
<1>1. CASE UpgradeFound
  BY <1>1 DEF TypeOK, UpgradeFound, olm
<1>2. CASE UpgradeInstalled
  BY <1>2 DEF TypeOK, UpgradeInstalled, olm
<1>3. CASE FDFUpgradeWaits
  BY <1>3 DEF TypeOK, FDFUpgradeWaits, access
<1> QED
  BY <1>1, <1>2, <1>3 DEF Upgrades

LEMMA ToolType == ASSUME TypeOK, DigestInv, ToolStep PROVE TypeOK'
<1>1. CASE RemoveSubscriptionAndCSV
  <2>2. "remove_rest" \in Steps /\ "list_clusters" \in Steps
    BY DEF Steps, Phase3, Phase4
  <2>1. tool' \in Tool
    BY <1>1, <2>2, GotoFacts DEF TypeOK, RemoveSubscriptionAndCSV, Following
  <2>3. fa' \in SUBSET {"sub", "csv"}
    BY <1>1 DEF TypeOK, RemoveSubscriptionAndCSV, LeftAfter
  <2> QED
    BY <1>1, <2>1, <2>3 DEF TypeOK, RemoveSubscriptionAndCSV, checkpoint, access, daemons,
       clusters, old, olm, new
<1>2. CASE RemoveRest
  <2>2. "list_clusters" \in Steps
    BY DEF Steps, Phase3, Phase4
  <2>1. tool' \in Tool
    BY <1>2, <2>2, GotoFacts DEF TypeOK, RemoveRest, Following
  <2>3. fa' \in SUBSET {"sub", "csv"}
    BY <1>2 DEF TypeOK, RemoveRest, LeftAfter
  <2> QED
    BY <1>2, <2>1, <2>3 DEF TypeOK, RemoveRest, checkpoint, access, daemons, clusters, old, olm, new
<1>3. CASE ListClusters
  <2>2. "pause" \in Steps /\ "unread" \in Digests \cup {"unread"}
    BY DEF Steps, Phase3, Phase4
  <2>1. tool' \in Tool
    BY <1>3, <2>2, AtFacts DEF ListClusters, ToPause
  <2> QED
    BY <1>3, <2>1 DEF TypeOK, ListClusters, checkpoint, access, daemons, clusters, old, olm, new
<1>4. CASE PauseScaleClusterDaemonUpdates
  <2>2. "scale_down" \in Steps
    BY DEF Steps, Phase3, Phase4
  <2>1. tool' \in Tool
    BY <1>4, <2>2, GotoFacts, TodoFacts DEF TypeOK, PauseScaleClusterDaemonUpdates, Following
  <2>3. paused' \in SUBSET Clusters
    BY <1>4 DEF TypeOK, Tool, PauseScaleClusterDaemonUpdates
  <2> QED
    BY <1>4, <2>1, <2>3 DEF TypeOK, PauseScaleClusterDaemonUpdates, checkpoint, access, daemons,
       clusters, old, olm, new
<1>5. CASE ScaleDownSpectrumScaleOperator
  <2>2. "patch" \in Steps
    BY DEF Steps, Phase3, Phase4
  <2>1. tool' \in Tool
    BY <1>5, <2>2, GotoFacts DEF TypeOK, ScaleDownSpectrumScaleOperator, Following
  <2>3. wanted' \in BOOLEAN
    BY <1>5 DEF ScaleDownSpectrumScaleOperator
  <2> QED
    BY <1>5, <2>1, <2>3 DEF TypeOK, ScaleDownSpectrumScaleOperator, checkpoint, access, daemons,
       clusters, old, olm, new
<1>6. CASE ReadSelector
  <2>2. "sign" \in Steps /\ "patch_update" \in Steps
    BY DEF Steps, Phase3, Phase4
  <2>3. DigestsRead \subseteq Digests \cup {"unread"}
    BY HandoverAssumption DEF DigestsRead, TypeOK
  <2>1. tool' \in Tool
    BY <1>6, <2>2, <2>3, GotoFacts, AtFacts DEF TypeOK, ReadSelector
  <2> QED
    BY <1>6, <2>1 DEF TypeOK, ReadSelector, checkpoint, access, daemons, clusters, old, olm, new
<1>7. CASE PatchFusionAccessKMMModuleSelector
  <2>2. "sign" \in Steps
    BY DEF Steps, Phase3, Phase4
  <2>1. tool' \in Tool
    BY <1>7, <2>2, GotoFacts DEF TypeOK, PatchFusionAccessKMMModuleSelector
  <2>3. selector' \in [role : BOOLEAN, digest : Digests \cup {"any"}]
    BY <1>7 DEF TypeOK, DigestInv, Digests, PatchFusionAccessKMMModuleSelector
  <2> QED
    BY <1>7, <2>1, <2>3 DEF TypeOK, PatchFusionAccessKMMModuleSelector, checkpoint, access,
       daemons, clusters, old, olm, new
<1>8. CASE CopySecureBootSigningSecretsIfPresent
  <2>2. "entitle" \in Steps /\ "sign_key" \in Steps
    BY DEF Steps, Phase3, Phase4
  <2>1. tool' \in Tool
    BY <1>8, <2>2, GotoFacts DEF TypeOK, CopySecureBootSigningSecretsIfPresent, AlreadyCopied
  <2>3. flag' \in BOOLEAN
    BY <1>8 DEF TypeOK, AlreadyCopied, CopySecureBootSigningSecretsIfPresent
  <2> QED
    BY <1>8, <2>1, <2>3 DEF TypeOK, CopySecureBootSigningSecretsIfPresent, AlreadyCopied,
       checkpoint, access, daemons, clusters, old, olm, new
<1>9. CASE CopySigningKey
  <2>2. "sign_pub" \in Steps
    BY DEF Steps, Phase3, Phase4
  <2>1. tool' \in Tool
    BY <1>9, <2>2, GotoFacts DEF TypeOK, CopySigningKey
  <2> QED
    BY <1>9, <2>1 DEF TypeOK, CopySigningKey, Secrets, Pair, Entitlement, checkpoint, access,
       daemons, clusters, old, olm, new
<1>10. CASE CopySigningKeyPub
  <2>2. "entitle" \in Steps
    BY DEF Steps, Phase3, Phase4
  <2>1. tool' \in Tool
    BY <1>10, <2>2, GotoFacts DEF TypeOK, CopySigningKeyPub
  <2> QED
    BY <1>10, <2>1 DEF TypeOK, CopySigningKeyPub, Secrets, Pair, Entitlement, checkpoint,
       access, daemons, clusters, old, olm, new
<1>11. CASE CopyIBMEntitlementKeyToSpectrumScale
  <2>2. "handed" \in Steps
    BY DEF Steps, Phase3, Phase4
  <2>1. tool' \in Tool
    BY <1>11, <2>2, GotoFacts DEF TypeOK, CopyIBMEntitlementKeyToSpectrumScale
  <2> QED
    BY <1>11, <2>1 DEF TypeOK, CopyIBMEntitlementKeyToSpectrumScale, Secrets, Pair, Entitlement,
       checkpoint, access, daemons, clusters, old, olm, new
<1>12. CASE HandOver
  <2>2. "group" \in Steps
    BY DEF Steps, Phase3, Phase4
  <2>1. tool' \in Tool
    BY <1>12, <2>2, GotoFacts DEF TypeOK, HandOver
  <2> QED
    BY <1>12, <2>1 DEF TypeOK, HandOver, checkpoint, access, daemons, clusters, old, olm, new
<1>13. CASE ensureOpenShiftStorageOperatorGroup
  <2>2. "subscribe" \in Steps
    BY DEF Steps, Phase3, Phase4
  <2>1. tool' \in Tool
    BY <1>13, <2>2, GotoFacts DEF TypeOK, ensureOpenShiftStorageOperatorGroup
  <2> QED
    BY <1>13, <2>1 DEF TypeOK, ensureOpenShiftStorageOperatorGroup, checkpoint, access, daemons,
       clusters, old, olm, new
<1>14. CASE CreateOrUpdateFDFSubscription
  <2>2. "fdf_wait" \in Steps
    BY DEF Steps, Phase3, Phase4
  <2>1. tool' \in Tool
    BY <1>14, <2>2, GotoFacts DEF TypeOK, CreateOrUpdateFDFSubscription
  <2> QED
    BY <1>14, <2>1 DEF TypeOK, CreateOrUpdateFDFSubscription, Reconciled, checkpoint, access, daemons,
       clusters, old, olm, new
<1>15. CASE waitForFDFSubscriptionCSVSucceeded
  <2>2. "console" \in Steps
    BY DEF Steps, Phase3, Phase4
  <2>1. tool' \in Tool
    BY <1>15, <2>2, GotoFacts DEF TypeOK, waitForFDFSubscriptionCSVSucceeded
  <2> QED
    BY <1>15, <2>1 DEF TypeOK, waitForFDFSubscriptionCSVSucceeded, checkpoint, access, daemons,
       clusters, old, olm, new
<1>16. CASE EnableOdfConsolePlugin
  <2>2. "scale_wait" \in Steps
    BY DEF Steps, Phase3, Phase4
  <2>1. tool' \in Tool
    BY <1>16, <2>2, GotoFacts DEF TypeOK, EnableOdfConsolePlugin, AfterConsole
  <2> QED
    BY <1>16, <2>1 DEF TypeOK, EnableOdfConsolePlugin, checkpoint, access, daemons, clusters,
       old, olm, new
<1>17. CASE WaitForSpectrumScaleOperatorCSVAfterFDF
  <2>2. "list_grafana" \in Steps
    BY DEF Steps, Phase3, Phase4
  <2>1. tool' \in Tool
    BY <1>17, <2>2, GotoFacts DEF TypeOK, WaitForSpectrumScaleOperatorCSVAfterFDF
  <2> QED
    BY <1>17, <2>1 DEF TypeOK, WaitForSpectrumScaleOperatorCSVAfterFDF, checkpoint, access,
       daemons, clusters, old, olm, new
<1>18. CASE ListGrafana
  <2>2. "grafana" \in Steps /\ "unread" \in Digests \cup {"unread"}
    BY DEF Steps, Phase3, Phase4
  <2>1. tool' \in Tool
    BY <1>18, <2>2, AtFacts DEF ListGrafana
  <2> QED
    BY <1>18, <2>1 DEF TypeOK, ListGrafana, checkpoint, access, daemons, clusters, old, olm, new
<1>19. CASE EnableGrafanaBridge
  <2>2. "monitoring" \in Steps
    BY DEF Steps, Phase3, Phase4
  <2>1. tool' \in Tool
    BY <1>19, <2>2, GotoFacts, TodoFacts DEF TypeOK, EnableGrafanaBridge
  <2>3. grafana' \in SUBSET Clusters
    BY <1>19 DEF TypeOK, Tool, EnableGrafanaBridge
  <2> QED
    BY <1>19, <2>1, <2>3 DEF TypeOK, EnableGrafanaBridge, checkpoint, access, daemons, clusters,
       old, olm, new
<1>20. CASE LabelUserWorkloadMonitoringNS
  <2>2. "done" \in Steps
    BY DEF Steps, Phase3, Phase4
  <2>1. tool' \in Tool
    BY <1>20, <2>2, GotoFacts DEF TypeOK, LabelUserWorkloadMonitoringNS
  <2> QED
    BY <1>20, <2>1 DEF TypeOK, LabelUserWorkloadMonitoringNS, checkpoint, access, daemons,
       clusters, old, olm, new
<1>21. CASE PhaseFails
  <2>1. tool' \in Tool /\ resuming' \in BOOLEAN /\ flag' \in BOOLEAN /\ UNCHANGED handed
    BY <1>21, AgainFacts DEF PhaseFails
  <2> QED
    BY <1>21, <2>1 DEF TypeOK, PhaseFails, checkpoint, access, daemons, clusters, old, olm, new
<1> QED
  BY <1>1, <1>2, <1>3, <1>4, <1>5, <1>6, <1>7, <1>8, <1>9, <1>10, <1>11, <1>12, <1>13, <1>14,
     <1>15, <1>16, <1>17, <1>18, <1>19, <1>20, <1>21 DEF ToolStep

LEMMA TypeStep == ASSUME TypeOK, DigestInv, [Next]_vars PROVE TypeOK'
<1>1. CASE ToolStep
  BY <1>1, ToolType
<1>2. CASE OldOperatorStops
  <2>1. oldRuns' \in BOOLEAN
    BY <1>2 DEF OldOperatorStops
  <2> QED
    BY <1>2, <2>1 DEF TypeOK, OldOperatorStops, checkpoint, access, daemons, clusters, olm, new
<1>3. CASE OLMResolves
  BY <1>3 DEF TypeOK, OLMResolves, checkpoint, access, daemons, clusters, old, new
<1>4. CASE OLMInstalls
  BY <1>4 DEF TypeOK, OLMInstalls, checkpoint, access, daemons, clusters, old, new
<1>5. CASE FDFInstallsScale
  BY <1>5 DEF TypeOK, FDFInstallsScale, checkpoint, access, daemons, clusters, old, olm
<1>6. CASE NewOperatorStarts
  BY <1>6 DEF TypeOK, NewOperatorStarts, checkpoint, access, daemons, clusters, old, olm
<1>7. ASSUME NEW n \in Nodes, RollOut(n) PROVE TypeOK'
  <2>1. label' \in [Nodes -> Digests \cup {"none"}]
    BY <1>7 DEF TypeOK, RollOut, Digests
  <2> QED
    BY <1>7, <2>1 DEF TypeOK, RollOut, checkpoint, access, clusters, old, olm, new
<1>8. CASE Restart
  <2>1. tool' \in Tool /\ resuming' \in BOOLEAN /\ flag' \in BOOLEAN /\ UNCHANGED handed
    BY <1>8, AgainFacts DEF Restart
  <2> QED
    BY <1>8, <2>1 DEF TypeOK, Restart, access, daemons, clusters, old, olm, new
<1>9. CASE Calm
  BY <1>9 DEF TypeOK, Calm, checkpoint, access, daemons, clusters, old, olm, new
<1>10. CASE FANamespaceRemoved
  <2>1. faNS' \in BOOLEAN /\ fa' \in SUBSET {"sub", "csv"} /\ held' \in SUBSET Secrets
    BY <1>10 DEF FANamespaceRemoved
  <2> QED
    BY <1>10, <2>1 DEF TypeOK, FANamespaceRemoved, checkpoint, daemons, clusters, old, olm, new
<1>11. ASSUME NEW s \in Secrets, SecretAdded(s) PROVE TypeOK'
  BY <1>11 DEF TypeOK, SecretAdded, checkpoint, daemons, clusters, old, olm, new
<1>12. CASE UNCHANGED vars
  BY <1>12 DEF TypeOK, vars, checkpoint, access, daemons, clusters, old, olm, new
<1>13. CASE Upgrades
  <2>1. UNCHANGED <<tool, checkpoint, faNS, held, copied, daemons, old, groups, fdfSub, fdf, new,
                    settled, calm>>
    BY <1>13, UpgradesFacts
  <2>2. fa' \in SUBSET {"sub", "csv"} /\ upgrade' \in BOOLEAN
    BY <1>13, UpgradesFacts
  <2>3. current' \in {"none", "4.20", "pending", "4.21"}
    BY <1>13, UpgradesFacts DEF TypeOK
  <2> QED
    BY <2>1, <2>2, <2>3 DEF TypeOK, checkpoint, daemons, clusters, old, new
<1> QED
  BY <1>1, <1>2, <1>3, <1>4, <1>5, <1>6, <1>7, <1>8, <1>9, <1>10, <1>11, <1>12, <1>13
     DEF Next, Controllers

-----------------------------------------------------------------------------
(* The checkpoint and the order of phase 3 *)

LEMMA HandedStep == ASSUME TypeOK, HandedInv, [Next]_vars PROVE HandedInv'
<1>1. CASE RemoveSubscriptionAndCSV
  <2>1. CASE "sub" \in fa
    <3>1. tool'.pc = "remove_rest"
      BY <1>1, <2>1 DEF RemoveSubscriptionAndCSV, Goto, At
    <3>2. ~upgrade => fa' = fa \ {"csv"}
      BY <1>1, <2>1 DEF RemoveSubscriptionAndCSV, LeftAfter, Removal
    <3> QED
      BY <1>1, <3>1, <3>2 DEF HandedInv, AccessRemoved, Paused, Phase3, Phase4,
         RemoveSubscriptionAndCSV, checkpoint
  <2>2. CASE "sub" \notin fa
    <3>1. tool'.pc = "list_clusters" /\ UNCHANGED <<fa, upgrade>>
      BY <1>1, <2>2 DEF RemoveSubscriptionAndCSV, Following, Goto, At
    <3>2. ~upgrade => fa = {}
      <4>1. fa \subseteq {"sub", "csv"} /\ (~upgrade => "csv" \notin fa)
        BY <2>2 DEF TypeOK, HandedInv
      <4> QED
        BY <4>1, <2>2
    <3>3. ~handed /\ UNCHANGED handed
      BY <1>1 DEF HandedInv, RemoveSubscriptionAndCSV, checkpoint, Phase4
    <3> QED
      BY <2>2, <3>1, <3>2, <3>3 DEF HandedInv, AccessRemoved, Paused, Phase4
  <2> QED
    BY <2>1, <2>2
<1>2. CASE RemoveRest
  <2>1. /\ tool.pc = "remove_rest" /\ tool'.pc = "list_clusters"
        /\ fa' = fa \ {"sub"} /\ UNCHANGED <<handed, paused, upgrade>>
    BY <1>2 DEF RemoveRest, LeftAfter, Removal, Following, Goto, At, checkpoint, daemons, clusters
  <2>2. ~upgrade => fa' = {}
    BY <2>1 DEF HandedInv, TypeOK
  <2> QED
    BY <2>1, <2>2 DEF HandedInv, AccessRemoved, Paused, Phase3, Phase4
<1>3. CASE ListClusters
  BY <1>3 DEF HandedInv, AccessRemoved, Paused, Phase3, Phase4, ListClusters, Goto, At, ToPause,
     checkpoint, access, daemons, clusters, old, olm, new
<1>4. CASE PauseScaleClusterDaemonUpdates
  <2>1. tool.pc = "pause" /\ tool \in Tool /\ UNCHANGED <<handed, fa, upgrade>>
    BY <1>4 DEF PauseScaleClusterDaemonUpdates, checkpoint, access, TypeOK
  <2>2. ~handed /\ "sub" \notin fa /\ (~upgrade => fa = {})
    BY <2>1 DEF HandedInv, AccessRemoved, Phase4
  <2>3. Clusters \ paused \subseteq tool.todo /\ paused \subseteq Clusters
    BY <2>1 DEF HandedInv, TypeOK
  <2>4. CASE \E c \in tool.todo :
                /\ paused' = paused \cup {c}
                /\ tool' = [tool EXCEPT !.todo = @ \ {c}]
    <3>1. PICK c \in tool.todo :
                 paused' = paused \cup {c} /\ tool' = [tool EXCEPT !.todo = @ \ {c}]
      BY <2>4
    <3>2. tool'.pc = "pause" /\ tool'.todo = tool.todo \ {c}
      BY <2>1, <3>1, TodoFacts
    <3>3. Clusters \ paused' \subseteq tool'.todo
      BY <2>3, <3>1, <3>2
    <3> QED
      BY <2>1, <2>2, <3>2, <3>3 DEF HandedInv, AccessRemoved, Paused, Phase3, Phase4
  <2>5. CASE tool.todo = {} /\ UNCHANGED paused /\ Goto(Following.pause)
    <3>1. tool'.pc = "scale_down"
      BY <2>5 DEF Goto, At, Following
    <3>2. paused' = Clusters
      BY <2>3, <2>5
    <3> QED
      BY <2>1, <2>2, <3>1, <3>2 DEF HandedInv, AccessRemoved, Phase4
  <2> QED
    BY <1>4, <2>4, <2>5 DEF PauseScaleClusterDaemonUpdates
<1>5. CASE ScaleDownSpectrumScaleOperator
  BY <1>5 DEF HandedInv, AccessRemoved, Paused, Phase3, Phase4, ScaleDownSpectrumScaleOperator,
     Goto, At, Following, checkpoint, access, daemons, clusters, old, olm, new
<1>6. CASE ReadSelector
  BY <1>6 DEF HandedInv, AccessRemoved, Paused, Phase3, Phase4, ReadSelector, Goto, At,
     checkpoint, access, daemons, clusters, old, olm, new
<1>7. CASE PatchFusionAccessKMMModuleSelector
  BY <1>7 DEF HandedInv, AccessRemoved, Paused, Phase3, Phase4,
     PatchFusionAccessKMMModuleSelector, Goto, At, checkpoint, access, daemons, clusters, old,
     olm, new
<1>8. CASE CopySecureBootSigningSecretsIfPresent
  BY <1>8 DEF HandedInv, AccessRemoved, Paused, Phase3, Phase4,
     CopySecureBootSigningSecretsIfPresent, Goto, At, AlreadyCopied, checkpoint, access,
     daemons, clusters, old, olm, new
<1>9. CASE CopySigningKey
  BY <1>9 DEF HandedInv, AccessRemoved, Paused, Phase3, Phase4, CopySigningKey, Goto, At,
     checkpoint, access, daemons, clusters, old, olm, new
<1>10. CASE CopySigningKeyPub
  BY <1>10 DEF HandedInv, AccessRemoved, Paused, Phase3, Phase4, CopySigningKeyPub, Goto, At,
     checkpoint, access, daemons, clusters, old, olm, new
<1>11. CASE CopyIBMEntitlementKeyToSpectrumScale
  BY <1>11 DEF HandedInv, AccessRemoved, Paused, Phase3, Phase4,
     CopyIBMEntitlementKeyToSpectrumScale, Goto, At, checkpoint, access, daemons, clusters, old,
     olm, new
<1>12. CASE HandOver
  BY <1>12 DEF HandedInv, AccessRemoved, Paused, Phase3, Phase4, HandOver, Goto, At, checkpoint,
     access, daemons, clusters, old, olm, new
<1>13. CASE ensureOpenShiftStorageOperatorGroup
  BY <1>13 DEF HandedInv, AccessRemoved, Paused, Phase3, Phase4,
     ensureOpenShiftStorageOperatorGroup, Goto, At, checkpoint, access, daemons, clusters, old,
     olm, new
<1>14. CASE CreateOrUpdateFDFSubscription
  BY <1>14 DEF HandedInv, AccessRemoved, Paused, Phase3, Phase4, CreateOrUpdateFDFSubscription,
     Goto, At, checkpoint, access, daemons, clusters, old, olm, new
<1>15. CASE waitForFDFSubscriptionCSVSucceeded
  BY <1>15 DEF HandedInv, AccessRemoved, Paused, Phase3, Phase4,
     waitForFDFSubscriptionCSVSucceeded, Goto, At, checkpoint, access, daemons, clusters, old,
     olm, new
<1>16. CASE EnableOdfConsolePlugin
  BY <1>16 DEF HandedInv, AccessRemoved, Paused, Phase3, Phase4, EnableOdfConsolePlugin, Goto,
     At, AfterConsole, checkpoint, access, daemons, clusters, old, olm, new
<1>17. CASE WaitForSpectrumScaleOperatorCSVAfterFDF
  BY <1>17 DEF HandedInv, AccessRemoved, Paused, Phase3, Phase4,
     WaitForSpectrumScaleOperatorCSVAfterFDF, Goto, At, checkpoint, access, daemons, clusters,
     old, olm, new
<1>18. CASE ListGrafana
  BY <1>18 DEF HandedInv, AccessRemoved, Paused, Phase3, Phase4, ListGrafana, Goto, At,
     checkpoint, access, daemons, clusters, old, olm, new
<1>19. CASE EnableGrafanaBridge
  BY <1>19, TodoFacts DEF HandedInv, AccessRemoved, Paused, Phase3, Phase4, TypeOK,
     EnableGrafanaBridge, Goto, At, checkpoint, access, daemons, clusters, old, olm, new
<1>20. CASE LabelUserWorkloadMonitoringNS
  BY <1>20 DEF HandedInv, AccessRemoved, Paused, Phase3, Phase4, LabelUserWorkloadMonitoringNS,
     Goto, At, checkpoint, access, daemons, clusters, old, olm, new
<1>21. CASE Restart \/ PhaseFails
  BY <1>21 DEF HandedInv, AccessRemoved, Paused, Phase3, Phase4, Restart, PhaseFails, Again, At,
     checkpoint, access, daemons, clusters, old, olm, new
<1>22. CASE Controllers
  <2>1. UNCHANGED <<tool, handed, paused, fa, upgrade>>
    BY <1>22 DEF Controllers, OldOperatorStops, OLMResolves, OLMInstalls, FDFInstallsScale,
       NewOperatorStarts, RollOut, checkpoint, access, daemons, clusters, old, olm, new
  <2> QED
    BY <2>1 DEF HandedInv, AccessRemoved
<1>23. ASSUME NEW s \in Secrets, SecretAdded(s) PROVE HandedInv'
  BY <1>23 DEF HandedInv, AccessRemoved, SecretAdded, checkpoint, access, daemons, clusters,
     old, olm, new
<1>24. CASE Calm \/ FANamespaceRemoved \/ UNCHANGED vars
  BY <1>24 DEF HandedInv, AccessRemoved, Calm, FANamespaceRemoved, vars, checkpoint, access,
     daemons, clusters, old, olm, new
<1>25. CASE Upgrades
  <2>1. UNCHANGED <<tool, handed, paused>>
    BY <1>25, UpgradesFacts DEF checkpoint, daemons, clusters
  <2>2. UNCHANGED <<fa, upgrade>> \/ ("sub" \in fa /\ upgrade')
    BY <1>25, UpgradesFacts
  <2>3. CASE UNCHANGED <<fa, upgrade>>
    BY <2>1, <2>3 DEF HandedInv, AccessRemoved
  <2>4. CASE "sub" \in fa /\ upgrade'
    <3>1. tool.pc \in {"remove", "remove_rest"}
      BY <2>4 DEF HandedInv, AccessRemoved
    <3> QED
      BY <2>1, <2>4, <3>1 DEF HandedInv, AccessRemoved
  <2> QED
    BY <2>2, <2>3, <2>4
<1> QED
  BY <1>1, <1>2, <1>3, <1>4, <1>5, <1>6, <1>7, <1>8, <1>9, <1>10, <1>11, <1>12, <1>13, <1>14,
     <1>15, <1>16, <1>17, <1>18, <1>19, <1>20, <1>21, <1>22, <1>23, <1>24, <1>25
     DEF Next, ToolStep

-----------------------------------------------------------------------------
(* What precedes the new operator *)

LEMMA ChainStep == ASSUME TypeOK, HandedInv, ChainInv, [Next]_vars PROVE ChainInv'
<1>1. CASE UNCHANGED <<handed, fdfSub, current, fdf, scale, newRuns>>
  BY <1>1 DEF ChainInv
<1>2. CASE CreateOrUpdateFDFSubscription
  BY <1>2 DEF ChainInv, HandedInv, Phase4, CreateOrUpdateFDFSubscription, Reconciled, checkpoint, new
<1>3. CASE HandOver
  BY <1>3 DEF ChainInv, HandOver, olm, new
<1>4. CASE ToolStep /\ ~CreateOrUpdateFDFSubscription /\ ~HandOver
  <2>1. UNCHANGED <<handed, fdfSub, current, fdf, scale, newRuns>>
    BY <1>4 DEF ToolStep, RemoveSubscriptionAndCSV, RemoveRest, ListClusters,
       PauseScaleClusterDaemonUpdates, ScaleDownSpectrumScaleOperator, ReadSelector,
       PatchFusionAccessKMMModuleSelector, CopySecureBootSigningSecretsIfPresent,
       CopySigningKey, CopySigningKeyPub, CopyIBMEntitlementKeyToSpectrumScale,
       ensureOpenShiftStorageOperatorGroup, waitForFDFSubscriptionCSVSucceeded,
       EnableOdfConsolePlugin, WaitForSpectrumScaleOperatorCSVAfterFDF, ListGrafana,
       EnableGrafanaBridge, LabelUserWorkloadMonitoringNS, PhaseFails, Again, checkpoint, olm,
       new
  <2> QED
    BY <1>1, <2>1
<1>5. CASE OldOperatorStops \/ Restart \/ Calm \/ FANamespaceRemoved \/ UNCHANGED vars
  BY <1>1, <1>5 DEF OldOperatorStops, Restart, Again, Calm, FANamespaceRemoved, vars, checkpoint,
     olm, new
<1>6. ASSUME NEW n \in Nodes, RollOut(n) PROVE ChainInv'
  BY <1>1, <1>6 DEF RollOut, checkpoint, olm, new
<1>7. ASSUME NEW s \in Secrets, SecretAdded(s) PROVE ChainInv'
  BY <1>1, <1>7 DEF SecretAdded, checkpoint, olm, new
<1>8. CASE OLMResolves
  BY <1>8 DEF ChainInv, OLMResolves, checkpoint, new
<1>9. CASE OLMInstalls
  BY <1>9 DEF ChainInv, OLMInstalls, checkpoint, new
<1>10. CASE FDFInstallsScale
  BY <1>10 DEF ChainInv, FDFInstallsScale, checkpoint, olm
<1>11. CASE NewOperatorStarts
  BY <1>11 DEF ChainInv, NewOperatorStarts, checkpoint, olm
<1>12. CASE Upgrades
  <2>1. UNCHANGED <<handed, fdfSub, fdf, scale, newRuns>>
    BY <1>12, UpgradesFacts DEF checkpoint, new
  <2>2. UNCHANGED current \/ (fdfSub = "old" /\ current' \in {"4.20", "pending"})
    BY <1>12, UpgradesFacts
  <2> QED
    BY <2>1, <2>2 DEF ChainInv
<1> QED
  BY <1>2, <1>3, <1>4, <1>5, <1>6, <1>7, <1>8, <1>9, <1>10, <1>11, <1>12 DEF Next, Controllers

\* The new operator only runs with the updates of every Cluster paused.
LEMMA HeldBack == ASSUME HandedInv, ChainInv, newRuns PROVE paused = Clusters
BY DEF HandedInv, ChainInv, Paused

-----------------------------------------------------------------------------
(* The nodes and the Module *)

LEMMA LabelStep ==
    ASSUME TypeOK, HandedInv, ChainInv, [Next]_vars
    PROVE  \/ UNCHANGED label
           \/ \E n \in StorageNodes : label[n] = "none" /\ label' = [label EXCEPT ![n] = "old"]
<1>1. CASE ToolStep
  <2>1. UNCHANGED label
    BY <1>1 DEF ToolStep, RemoveSubscriptionAndCSV, RemoveRest, ListClusters,
       PauseScaleClusterDaemonUpdates, ScaleDownSpectrumScaleOperator, ReadSelector,
       PatchFusionAccessKMMModuleSelector, CopySecureBootSigningSecretsIfPresent,
       CopySigningKey, CopySigningKeyPub, CopyIBMEntitlementKeyToSpectrumScale, HandOver,
       ensureOpenShiftStorageOperatorGroup, CreateOrUpdateFDFSubscription,
       waitForFDFSubscriptionCSVSucceeded, EnableOdfConsolePlugin,
       WaitForSpectrumScaleOperatorCSVAfterFDF, ListGrafana, EnableGrafanaBridge,
       LabelUserWorkloadMonitoringNS, PhaseFails, daemons
  <2> QED
    BY <2>1
<1>2. ASSUME NEW n \in Nodes, RollOut(n)
      PROVE  n \in StorageNodes /\ label[n] = "none" /\ label' = [label EXCEPT ![n] = "old"]
  BY <1>2, HeldBack DEF RollOut
<1>3. ASSUME NEW s \in Secrets, SecretAdded(s) PROVE UNCHANGED label
  BY <1>3 DEF SecretAdded, daemons
<1>4. CASE OldOperatorStops \/ OLMResolves \/ OLMInstalls \/ FDFInstallsScale \/ NewOperatorStarts
           \/ Restart \/ Calm \/ FANamespaceRemoved \/ UNCHANGED vars
  BY <1>4 DEF OldOperatorStops, OLMResolves, OLMInstalls, FDFInstallsScale, NewOperatorStarts,
     Restart, Calm, FANamespaceRemoved, vars, daemons
<1>5. CASE Upgrades
  BY <1>5, UpgradesFacts DEF daemons
<1> QED
  BY <1>1, <1>2, <1>3, <1>4, <1>5 DEF Next, Controllers

LEMMA DigestStep ==
    ASSUME TypeOK, HandedInv, ChainInv, DigestInv, [Next]_vars PROVE DigestInv'
<1>1. /\ \A n \in StorageNodes : label'[n] \in {"none", "old"}
      /\ \E n \in StorageNodes : label'[n] = "old"
  <2>1. CASE UNCHANGED label
    BY <2>1 DEF DigestInv
  <2>2. ASSUME NEW n \in StorageNodes, label[n] = "none", label' = [label EXCEPT ![n] = "old"]
        PROVE  <1>1!1 /\ <1>1!2
    BY <2>2, HandoverAssumption DEF DigestInv, TypeOK
  <2> QED
    BY <2>1, <2>2, LabelStep
<1>2. selector'.digest \in {"any", "old"}
  <2>1. CASE PatchFusionAccessKMMModuleSelector
    BY <2>1 DEF DigestInv, PatchFusionAccessKMMModuleSelector
  <2>2. CASE ToolStep /\ ~PatchFusionAccessKMMModuleSelector
    <3>1. UNCHANGED selector
      BY <2>2 DEF ToolStep, RemoveSubscriptionAndCSV, RemoveRest, ListClusters,
         PauseScaleClusterDaemonUpdates, ScaleDownSpectrumScaleOperator, ReadSelector,
         CopySecureBootSigningSecretsIfPresent, CopySigningKey, CopySigningKeyPub,
         CopyIBMEntitlementKeyToSpectrumScale, HandOver, ensureOpenShiftStorageOperatorGroup,
         CreateOrUpdateFDFSubscription, waitForFDFSubscriptionCSVSucceeded,
         EnableOdfConsolePlugin, WaitForSpectrumScaleOperatorCSVAfterFDF, ListGrafana,
         EnableGrafanaBridge, LabelUserWorkloadMonitoringNS, PhaseFails, daemons
    <3> QED
      BY <3>1 DEF DigestInv
  <2>3. CASE ~ToolStep
    <3>1. UNCHANGED selector
      BY <2>3, UpgradesFacts DEF Next, Controllers, OldOperatorStops, OLMResolves, OLMInstalls, FDFInstallsScale,
         NewOperatorStarts, RollOut, SecretAdded, Restart, Calm, FANamespaceRemoved, vars, daemons
    <3> QED
      BY <3>1 DEF DigestInv
  <2> QED
    BY <2>1, <2>2, <2>3
<1>3. tool'.pc = "patch_update" => selector'.digest = "old" \/ tool'.digest = "old"
  <2>1. CASE ReadSelector
    <3>1. \A d \in DigestsRead : d = "old"
      BY HandoverAssumption DEF DigestsRead, DigestInv
    <3> QED
      BY <2>1, <3>1 DEF ReadSelector, Goto, At, DigestInv, daemons
  <2>2. CASE ToolStep /\ ~ReadSelector
    <3>1. tool'.pc # "patch_update"
      BY <2>2, TodoFacts DEF ToolStep, TypeOK, RemoveSubscriptionAndCSV, RemoveRest,
         ListClusters, PauseScaleClusterDaemonUpdates, ScaleDownSpectrumScaleOperator,
         PatchFusionAccessKMMModuleSelector, CopySecureBootSigningSecretsIfPresent,
         CopySigningKey, CopySigningKeyPub, CopyIBMEntitlementKeyToSpectrumScale, HandOver,
         ensureOpenShiftStorageOperatorGroup, CreateOrUpdateFDFSubscription,
         waitForFDFSubscriptionCSVSucceeded, EnableOdfConsolePlugin,
         WaitForSpectrumScaleOperatorCSVAfterFDF, ListGrafana, EnableGrafanaBridge,
         LabelUserWorkloadMonitoringNS, PhaseFails, Again, Goto, At, Following, AfterConsole
    <3> QED
      BY <3>1
  <2>3. CASE Restart
    BY <2>3 DEF Restart, Again, At
  <2>4. CASE ~ToolStep /\ ~Restart
    <3>1. UNCHANGED <<tool, selector>>
      BY <2>4, UpgradesFacts DEF Next, Controllers, OldOperatorStops, OLMResolves, OLMInstalls, FDFInstallsScale,
         NewOperatorStarts, RollOut, SecretAdded, Calm, FANamespaceRemoved, vars, daemons
    <3> QED
      BY <3>1 DEF DigestInv
  <2> QED
    BY <2>1, <2>2, <2>3, <2>4
<1> QED
  BY <1>1, <1>2, <1>3 DEF DigestInv

-----------------------------------------------------------------------------
(* The secrets *)

LEMMA PairFacts == Entitlement \notin Pair
BY DEF Entitlement, Pair

LEMMA SecretsStep ==
    ASSUME TypeOK, HandedInv, SecretsInv, [Next]_vars PROVE SecretsInv'
<1>1. CASE RemoveSubscriptionAndCSV
  BY <1>1 DEF SecretsInv, Phase4, RemoveSubscriptionAndCSV, Goto, At, Following,
     checkpoint, access, daemons, clusters, old, olm, new
<1>2. CASE RemoveRest
  BY <1>2 DEF SecretsInv, Phase4, RemoveRest, Goto, At, Following, checkpoint, access, daemons,
     clusters, old, olm, new
<1>3. CASE ListClusters
  BY <1>3 DEF SecretsInv, Phase4, ListClusters, Goto, At, ToPause, checkpoint, access, daemons,
     clusters, old, olm, new
<1>4. CASE PauseScaleClusterDaemonUpdates
  BY <1>4, TodoFacts DEF SecretsInv, Phase4, TypeOK, PauseScaleClusterDaemonUpdates, Goto, At,
     Following, checkpoint, access, daemons, clusters, old, olm, new
<1>5. CASE ScaleDownSpectrumScaleOperator
  BY <1>5 DEF SecretsInv, Phase4, ScaleDownSpectrumScaleOperator, Goto, At, Following,
     checkpoint, access, daemons, clusters, old, olm, new
<1>6. CASE ReadSelector
  BY <1>6 DEF SecretsInv, Phase4, ReadSelector, Goto, At, checkpoint, access, daemons, clusters,
     old, olm, new
<1>7. CASE PatchFusionAccessKMMModuleSelector
  BY <1>7 DEF SecretsInv, Phase4, PatchFusionAccessKMMModuleSelector, Goto, At, checkpoint,
     access, daemons, clusters, old, olm, new
<1>8. CASE CopySecureBootSigningSecretsIfPresent
  <2>1. /\ tool.pc = "sign" /\ UNCHANGED <<faNS, held, copied>>
        /\ faNS \in BOOLEAN
    BY <1>8 DEF CopySecureBootSigningSecretsIfPresent, access, TypeOK
  <2>2. CASE ~faNS
    <3>1. flag' = (Pair \subseteq copied) /\ tool'.pc = "entitle"
      BY <1>8, <2>2 DEF CopySecureBootSigningSecretsIfPresent, AlreadyCopied, Goto, At
    <3> QED
      BY <2>1, <2>2, <3>1 DEF SecretsInv, Phase4
  <2>3. CASE faNS /\ Pair \cap held = {}
    <3>1. Pair # {}
      BY DEF Pair
    <3>2. ~(Pair \subseteq held)
      BY <2>3, <3>1
    <3>3. flag' = FALSE /\ tool'.pc = "entitle"
      BY <1>8, <2>3, <3>2 DEF CopySecureBootSigningSecretsIfPresent, Goto, At
    <3>4. Pair \cap copied = {}
      BY <2>3, <3>2 DEF SecretsInv
    <3>5. ~(Pair \subseteq copied)
      BY <3>1, <3>4
    <3> QED
      BY <2>1, <2>3, <3>3, <3>4, <3>5 DEF SecretsInv, Phase4
  <2>4. CASE faNS /\ Pair \subseteq held
    <3>1. Pair # {}
      BY DEF Pair
    <3>2. Pair \cap held # {}
      BY <2>4, <3>1
    <3>3. tool'.pc = "sign_key"
      BY <1>8, <2>4, <3>2 DEF CopySecureBootSigningSecretsIfPresent, Goto, At
    <3> QED
      BY <2>1, <2>4, <3>3 DEF SecretsInv, Phase4
  <2> QED
    BY <1>8, <2>1, <2>2, <2>3, <2>4 DEF CopySecureBootSigningSecretsIfPresent
<1>9. CASE CopySigningKey
  BY <1>9 DEF SecretsInv, Phase4, Pair, CopySigningKey, Goto, At, checkpoint, access, daemons,
     clusters, old, olm, new
<1>10. CASE CopySigningKeyPub
  BY <1>10 DEF SecretsInv, Phase4, Pair, CopySigningKeyPub, Goto, At, checkpoint, access,
     daemons, clusters, old, olm, new
<1>11. CASE CopyIBMEntitlementKeyToSpectrumScale
  BY <1>11, PairFacts DEF SecretsInv, Phase4, CopyIBMEntitlementKeyToSpectrumScale, Goto, At,
     checkpoint, access, daemons, clusters, old, olm, new
<1>12. CASE HandOver
  BY <1>12 DEF SecretsInv, Phase4, HandOver, Goto, At, checkpoint, access, daemons, clusters,
     old, olm, new
<1>13. CASE ensureOpenShiftStorageOperatorGroup
  BY <1>13 DEF SecretsInv, Phase4, ensureOpenShiftStorageOperatorGroup, Goto, At, checkpoint,
     access, daemons, clusters, old, olm, new
<1>14. CASE CreateOrUpdateFDFSubscription
  BY <1>14 DEF SecretsInv, Phase4, CreateOrUpdateFDFSubscription, Goto, At, checkpoint, access,
     daemons, clusters, old, olm, new
<1>15. CASE waitForFDFSubscriptionCSVSucceeded
  BY <1>15 DEF SecretsInv, Phase4, waitForFDFSubscriptionCSVSucceeded, Goto, At, checkpoint,
     access, daemons, clusters, old, olm, new
<1>16. CASE EnableOdfConsolePlugin
  BY <1>16 DEF SecretsInv, Phase4, EnableOdfConsolePlugin, Goto, At, AfterConsole, checkpoint,
     access, daemons, clusters, old, olm, new
<1>17. CASE WaitForSpectrumScaleOperatorCSVAfterFDF
  BY <1>17 DEF SecretsInv, Phase4, WaitForSpectrumScaleOperatorCSVAfterFDF, Goto, At,
     checkpoint, access, daemons, clusters, old, olm, new
<1>18. CASE ListGrafana
  BY <1>18 DEF SecretsInv, Phase4, ListGrafana, Goto, At, checkpoint, access, daemons, clusters,
     old, olm, new
<1>19. CASE EnableGrafanaBridge
  BY <1>19, TodoFacts DEF SecretsInv, Phase4, TypeOK, EnableGrafanaBridge, Goto, At, checkpoint,
     access, daemons, clusters, old, olm, new
<1>20. CASE LabelUserWorkloadMonitoringNS
  BY <1>20 DEF SecretsInv, Phase4, LabelUserWorkloadMonitoringNS, Goto, At, checkpoint, access,
     daemons, clusters, old, olm, new
<1>21. CASE Restart \/ PhaseFails
  <2>1. /\ tool'.pc = (IF handed THEN "group" ELSE "remove")
        /\ flag' = (handed /\ flag)
        /\ UNCHANGED <<faNS, held, copied>>
    BY <1>21 DEF Restart, PhaseFails, Again, At, access
  <2>2. CASE ~handed
    <3>1. tool'.pc = "remove"
      BY <2>1, <2>2
    <3> QED
      BY <2>1, <3>1 DEF SecretsInv, Phase4
  <2>3. CASE handed
    <3>1. tool'.pc = "group" /\ tool.pc \in Phase4
      BY <2>1, <2>3 DEF HandedInv
    <3>2. flag' = flag
      BY <2>1, <2>3 DEF TypeOK
    <3>3. Entitlement \in copied /\ (flag <=> Pair \subseteq copied)
      BY <3>1 DEF SecretsInv
    <3> QED
      BY <2>1, <3>1, <3>2, <3>3 DEF SecretsInv, Phase4
  <2> QED
    BY <2>2, <2>3
<1>22. CASE Controllers \/ Upgrades \/ Calm \/ UNCHANGED vars
  <2>1. UNCHANGED <<tool, flag, faNS, held, copied>>
    BY <1>22, UpgradesFacts DEF Controllers, OldOperatorStops, OLMResolves, OLMInstalls, FDFInstallsScale,
       NewOperatorStarts, RollOut, Calm, vars, checkpoint, access, daemons, clusters, old, olm,
       new
  <2> QED
    BY <2>1 DEF SecretsInv
<1>23. ASSUME NEW s \in Secrets, SecretAdded(s) PROVE SecretsInv'
  BY <1>23 DEF SecretsInv, SecretAdded, checkpoint, access, daemons, clusters, old, olm, new
<1>24. CASE FANamespaceRemoved
  BY <1>24 DEF SecretsInv, FANamespaceRemoved, checkpoint, access, daemons, clusters, old, olm,
     new
<1> QED
  BY <1>1, <1>2, <1>3, <1>4, <1>5, <1>6, <1>7, <1>8, <1>9, <1>10, <1>11, <1>12, <1>13, <1>14,
     <1>15, <1>16, <1>17, <1>18, <1>19, <1>20, <1>21, <1>22, <1>23, <1>24 DEF Next, ToolStep

-----------------------------------------------------------------------------
(* What phase 4 installs *)

LEMMA InstalledStep == ASSUME TypeOK, InstalledInv, [Next]_vars PROVE InstalledInv'
<1>1. CASE RemoveSubscriptionAndCSV
  BY <1>1 DEF InstalledInv, ScaleReady, RemoveSubscriptionAndCSV, Goto, At,
     Following, checkpoint, access, daemons, clusters, old, olm, new
<1>2. CASE RemoveRest
  BY <1>2 DEF InstalledInv, ScaleReady, RemoveRest, Goto, At, Following, checkpoint, access,
     daemons, clusters, old, olm, new
<1>3. CASE ListClusters
  BY <1>3 DEF InstalledInv, ScaleReady, ListClusters, Goto, At, ToPause, checkpoint, access,
     daemons, clusters, old, olm, new
<1>4. CASE PauseScaleClusterDaemonUpdates
  BY <1>4, TodoFacts DEF InstalledInv, ScaleReady, TypeOK, PauseScaleClusterDaemonUpdates, Goto,
     At, Following, checkpoint, access, daemons, clusters, old, olm, new
<1>5. CASE ScaleDownSpectrumScaleOperator
  BY <1>5 DEF InstalledInv, ScaleReady, ScaleDownSpectrumScaleOperator, Goto, At, Following,
     checkpoint, access, daemons, clusters, old, olm, new
<1>6. CASE ReadSelector
  BY <1>6 DEF InstalledInv, ScaleReady, ReadSelector, Goto, At, checkpoint, access, daemons,
     clusters, old, olm, new
<1>7. CASE PatchFusionAccessKMMModuleSelector
  BY <1>7 DEF InstalledInv, ScaleReady, PatchFusionAccessKMMModuleSelector, Goto, At,
     checkpoint, access, daemons, clusters, old, olm, new
<1>8. CASE CopySecureBootSigningSecretsIfPresent
  BY <1>8 DEF InstalledInv, ScaleReady, CopySecureBootSigningSecretsIfPresent, Goto, At,
     AlreadyCopied, checkpoint, access, daemons, clusters, old, olm, new
<1>9. CASE CopySigningKey
  BY <1>9 DEF InstalledInv, ScaleReady, CopySigningKey, Goto, At, checkpoint, access, daemons,
     clusters, old, olm, new
<1>10. CASE CopySigningKeyPub
  BY <1>10 DEF InstalledInv, ScaleReady, CopySigningKeyPub, Goto, At, checkpoint, access,
     daemons, clusters, old, olm, new
<1>11. CASE CopyIBMEntitlementKeyToSpectrumScale
  BY <1>11 DEF InstalledInv, ScaleReady, CopyIBMEntitlementKeyToSpectrumScale, Goto, At,
     checkpoint, access, daemons, clusters, old, olm, new
<1>12. CASE HandOver
  BY <1>12 DEF InstalledInv, ScaleReady, HandOver, Goto, At, checkpoint, access, daemons,
     clusters, old, olm, new
<1>13. CASE ensureOpenShiftStorageOperatorGroup
  BY <1>13 DEF InstalledInv, ScaleReady, ensureOpenShiftStorageOperatorGroup, Goto, At,
     checkpoint, access, daemons, clusters, old, olm, new
<1>14. CASE CreateOrUpdateFDFSubscription
  BY <1>14 DEF InstalledInv, ScaleReady, CreateOrUpdateFDFSubscription, Goto, At, checkpoint,
     access, daemons, clusters, old, olm, new
<1>15. CASE waitForFDFSubscriptionCSVSucceeded
  BY <1>15 DEF InstalledInv, ScaleReady, waitForFDFSubscriptionCSVSucceeded, Goto, At,
     checkpoint, access, daemons, clusters, old, olm, new
<1>16. CASE EnableOdfConsolePlugin
  BY <1>16 DEF InstalledInv, ScaleReady, EnableOdfConsolePlugin, Goto, At, AfterConsole,
     checkpoint, access, daemons, clusters, old, olm, new
<1>17. CASE WaitForSpectrumScaleOperatorCSVAfterFDF
  BY <1>17 DEF InstalledInv, ScaleReady, WaitForSpectrumScaleOperatorCSVAfterFDF, Goto, At,
     checkpoint, access, daemons, clusters, old, olm, new
<1>18. CASE ListGrafana
  BY <1>18 DEF InstalledInv, ScaleReady, ListGrafana, Goto, At, checkpoint, access, daemons,
     clusters, old, olm, new
<1>19. CASE EnableGrafanaBridge
  <2>1. tool.pc = "grafana" /\ tool \in Tool /\ UNCHANGED <<scale, replicas, settled>>
    BY <1>19 DEF EnableGrafanaBridge, new, TypeOK
  <2>2. CASE \E c \in tool.todo : /\ grafana' = grafana \cup {c}
                                 /\ tool' = [tool EXCEPT !.todo = @ \ {c}]
    <3>1. PICK c \in tool.todo :
                 grafana' = grafana \cup {c} /\ tool' = [tool EXCEPT !.todo = @ \ {c}]
      BY <2>2
    <3>2. tool'.pc = "grafana" /\ tool'.todo = tool.todo \ {c}
      BY <2>1, <3>1, TodoFacts
    <3> QED
      BY <2>1, <3>1, <3>2 DEF InstalledInv, ScaleReady
  <2>3. CASE tool.todo = {} /\ UNCHANGED grafana /\ Goto("monitoring")
    <3>1. tool'.pc = "monitoring"
      BY <2>3 DEF Goto, At
    <3>2. grafana' = Clusters
      BY <2>1, <2>3 DEF InstalledInv, TypeOK
    <3> QED
      BY <2>1, <3>1, <3>2 DEF InstalledInv, ScaleReady
  <2> QED
    BY <1>19, <2>2, <2>3 DEF EnableGrafanaBridge
<1>20. CASE LabelUserWorkloadMonitoringNS
  BY <1>20 DEF InstalledInv, ScaleReady, LabelUserWorkloadMonitoringNS, Goto, At, checkpoint,
     access, daemons, clusters, old, olm, new
<1>21. CASE Restart \/ PhaseFails
  BY <1>21 DEF InstalledInv, ScaleReady, Restart, PhaseFails, Again, At, checkpoint, access,
     daemons, clusters, old, olm, new
<1>22. CASE FDFInstallsScale
  BY <1>22 DEF InstalledInv, FDFInstallsScale, checkpoint, access, daemons, clusters, old, olm,
     new
<1>23. CASE \/ Controllers /\ ~FDFInstallsScale
            \/ Upgrades \/ Calm \/ FANamespaceRemoved \/ UNCHANGED vars
  <2>1. UNCHANGED <<tool, scale, replicas, grafana, settled>>
    BY <1>23, UpgradesFacts DEF Controllers, OldOperatorStops, OLMResolves, OLMInstalls, NewOperatorStarts,
       RollOut, Calm, FANamespaceRemoved, vars, checkpoint, access, daemons, clusters, old, olm,
       new
  <2> QED
    BY <2>1 DEF InstalledInv
<1>24. ASSUME NEW s \in Secrets, SecretAdded(s) PROVE InstalledInv'
  BY <1>24 DEF InstalledInv, SecretAdded, checkpoint, access, daemons, clusters, old, olm, new
<1> QED
  BY <1>1, <1>2, <1>3, <1>4, <1>5, <1>6, <1>7, <1>8, <1>9, <1>10, <1>11, <1>12, <1>13, <1>14,
     <1>15, <1>16, <1>17, <1>18, <1>19, <1>20, <1>21, <1>22, <1>23, <1>24 DEF Next, ToolStep

-----------------------------------------------------------------------------
(* What the tool relies on *)

LEMMA ServiceStep ==
    ASSUME TypeOK, HandedInv, ServiceInv, [Next]_vars PROVE ServiceInv'
<1>1. CASE UNCHANGED <<paused, wanted, oldRuns, groups, fdfSub>>
           /\ tool'.pc \notin Phase4 \ {"group"} /\ tool'.pc # "pause"
  BY <1>1 DEF ServiceInv
<1>2. CASE ListClusters
  <2>1. UNCHANGED <<paused, wanted, oldRuns, groups, fdfSub>>
    BY <1>2 DEF ListClusters, daemons, clusters, old, olm
  <2>2. tool'.pc = "pause" /\ tool'.todo = Clusters \ paused
    BY <1>2 DEF ListClusters, At, ToPause
  <2> QED
    BY <2>1, <2>2 DEF ServiceInv, Phase4
<1>3. CASE PauseScaleClusterDaemonUpdates
  <2>1. tool.pc = "pause" /\ tool \in Tool /\ UNCHANGED <<wanted, oldRuns, groups, fdfSub>>
    BY <1>3 DEF PauseScaleClusterDaemonUpdates, old, olm, TypeOK
  <2>2. CASE \E c \in tool.todo :
                /\ paused' = paused \cup {c}
                /\ tool' = [tool EXCEPT !.todo = @ \ {c}]
    <3>1. PICK c \in tool.todo :
                 paused' = paused \cup {c} /\ tool' = [tool EXCEPT !.todo = @ \ {c}]
      BY <2>2
    <3>2. tool'.pc = "pause" /\ tool'.todo = tool.todo \ {c}
      BY <2>1, <3>1, TodoFacts
    <3>3. tool'.todo \cap paused' = {}
      BY <2>1, <3>1, <3>2 DEF ServiceInv
    <3>4. paused' # Clusters => paused # Clusters
      BY <2>1, <3>1 DEF Tool
    <3> QED
      BY <2>1, <3>2, <3>3, <3>4 DEF ServiceInv, Phase4
  <2>3. CASE UNCHANGED paused /\ Goto(Following.pause)
    <3>1. tool'.pc = "scale_down"
      BY <2>3 DEF Goto, At, Following
    <3> QED
      BY <2>1, <2>3, <3>1 DEF ServiceInv, Phase4
  <2> QED
    BY <1>3, <2>2, <2>3 DEF PauseScaleClusterDaemonUpdates
<1>4. CASE ScaleDownSpectrumScaleOperator
  <2>1. tool'.pc = "patch" /\ paused = Clusters /\ UNCHANGED <<paused, groups, fdfSub>>
    BY <1>4 DEF ScaleDownSpectrumScaleOperator, HandedInv, Paused, Phase3, Goto, At, Following,
       daemons, clusters, olm
  <2> QED
    BY <2>1 DEF ServiceInv, Phase4
<1>5. CASE \/ RemoveSubscriptionAndCSV \/ RemoveRest \/ ReadSelector
           \/ PatchFusionAccessKMMModuleSelector \/ CopySecureBootSigningSecretsIfPresent
           \/ CopySigningKey \/ CopySigningKeyPub \/ CopyIBMEntitlementKeyToSpectrumScale
           \/ HandOver
  <2>1. UNCHANGED <<paused, wanted, oldRuns, groups, fdfSub>>
    BY <1>5 DEF RemoveSubscriptionAndCSV, RemoveRest, ReadSelector,
       PatchFusionAccessKMMModuleSelector, CopySecureBootSigningSecretsIfPresent, CopySigningKey,
       CopySigningKeyPub, CopyIBMEntitlementKeyToSpectrumScale, HandOver, daemons, clusters, old,
       olm
  <2>2. tool'.pc \notin Phase4 \ {"group"} /\ tool'.pc # "pause"
    BY <1>5 DEF RemoveSubscriptionAndCSV, RemoveRest, ReadSelector,
       PatchFusionAccessKMMModuleSelector, CopySecureBootSigningSecretsIfPresent, CopySigningKey,
       CopySigningKeyPub, CopyIBMEntitlementKeyToSpectrumScale, HandOver, Goto, At, Following,
       Phase4
  <2> QED
    BY <1>1, <2>1, <2>2
<1>6. CASE Restart \/ PhaseFails
  <2>1. UNCHANGED <<paused, wanted, oldRuns, groups, fdfSub>>
    BY <1>6 DEF Restart, PhaseFails, daemons, clusters, old, olm
  <2>2. tool'.pc \in {"group", "remove"}
    BY <1>6 DEF Restart, PhaseFails, Again, At
  <2> QED
    BY <1>1, <2>1, <2>2 DEF Phase4
<1>7. CASE ensureOpenShiftStorageOperatorGroup
  <2>1. tool'.pc = "subscribe" /\ groups' = groups \cup {OwnGroup}
        /\ UNCHANGED <<paused, wanted, oldRuns>>
    BY <1>7 DEF ensureOpenShiftStorageOperatorGroup, Goto, At, daemons, clusters, old
  <2> QED
    BY <2>1 DEF ServiceInv
<1>8. CASE CreateOrUpdateFDFSubscription
  <2>1. /\ tool'.pc = "fdf_wait" /\ fdfSub' = "desired" /\ tool.pc = "subscribe"
        /\ UNCHANGED <<paused, wanted, oldRuns, groups>>
    BY <1>8 DEF CreateOrUpdateFDFSubscription, Reconciled, Goto, At, daemons, clusters, old
  <2> QED
    BY <2>1 DEF ServiceInv, Phase4
<1>9. CASE \/ waitForFDFSubscriptionCSVSucceeded \/ EnableOdfConsolePlugin
           \/ WaitForSpectrumScaleOperatorCSVAfterFDF \/ ListGrafana \/ EnableGrafanaBridge
           \/ LabelUserWorkloadMonitoringNS
  <2>1. UNCHANGED <<paused, wanted, oldRuns, groups, fdfSub>>
    BY <1>9 DEF waitForFDFSubscriptionCSVSucceeded, EnableOdfConsolePlugin,
       WaitForSpectrumScaleOperatorCSVAfterFDF, ListGrafana, EnableGrafanaBridge,
       LabelUserWorkloadMonitoringNS, daemons, clusters, old, olm
  <2>2. tool.pc \in Phase4 \ {"group", "subscribe"}
    BY <1>9 DEF waitForFDFSubscriptionCSVSucceeded, EnableOdfConsolePlugin,
       WaitForSpectrumScaleOperatorCSVAfterFDF, ListGrafana, EnableGrafanaBridge,
       LabelUserWorkloadMonitoringNS, Phase4
  <2>3. tool'.pc # "pause"
    BY <1>9, TodoFacts DEF waitForFDFSubscriptionCSVSucceeded, EnableOdfConsolePlugin,
       WaitForSpectrumScaleOperatorCSVAfterFDF, ListGrafana, EnableGrafanaBridge,
       LabelUserWorkloadMonitoringNS, Goto, At, AfterConsole, TypeOK
  <2> QED
    BY <2>1, <2>2, <2>3 DEF ServiceInv
<1>10. CASE OldOperatorStops
  <2>1. paused = Clusters /\ UNCHANGED <<tool, paused, groups, fdfSub>>
    BY <1>10 DEF OldOperatorStops, ServiceInv, daemons, clusters, olm
  <2> QED
    BY <2>1 DEF ServiceInv
<1>11. CASE \/ Controllers /\ ~OldOperatorStops
            \/ Upgrades \/ Calm \/ FANamespaceRemoved \/ UNCHANGED vars
            \/ \E s \in Secrets : SecretAdded(s)
  <2>1. UNCHANGED <<tool, paused, wanted, oldRuns, groups, fdfSub>>
    BY <1>11, UpgradesFacts DEF Controllers, OLMResolves, OLMInstalls, FDFInstallsScale, NewOperatorStarts,
       RollOut, Calm, FANamespaceRemoved, SecretAdded, vars, daemons, clusters, old, olm
  <2> QED
    BY <2>1 DEF ServiceInv
<1> QED
  BY <1>2, <1>3, <1>4, <1>5, <1>6, <1>7, <1>8, <1>9, <1>10, <1>11 DEF Next, ToolStep

-----------------------------------------------------------------------------
(* The theorems *)

LEMMA InvInit == Init => Inv
<1> SUFFICES ASSUME Init PROVE Inv
  OBVIOUS
<1>1. TypeOK
  BY InitType
<1>2. tool.pc = "remove" /\ fa = {"sub", "csv"} /\ handed = FALSE
  BY DEF Init, At
<1>3. HandedInv
  BY <1>2 DEF HandedInv, AccessRemoved, Paused, Phase3, Phase4
<1>4. ChainInv
  BY DEF Init, ChainInv
<1>5. DigestInv
  <2>1. \A n \in StorageNodes : label[n] \in {"none", "old"}
    BY DEF Init
  <2>2. \E n \in StorageNodes : label[n] = "old"
    BY DEF Init
  <2> QED
    BY <1>2, <2>1, <2>2 DEF Init, DigestInv
<1>6. SecretsInv
  BY <1>2 DEF Init, SecretsInv, Phase4
<1>7. InstalledInv
  BY <1>2 DEF InstalledInv, ScaleReady
<1>8. ServiceInv
  BY <1>2 DEF Init, ServiceInv, Phase4
<1> QED
  BY <1>1, <1>3, <1>4, <1>5, <1>6, <1>7, <1>8 DEF Inv

LEMMA InvStep == ASSUME Inv, [Next]_vars PROVE Inv'
BY TypeStep, HandedStep, ChainStep, DigestStep, SecretsStep, InstalledStep, ServiceStep DEF Inv

LEMMA Invariant == Spec => []Inv
BY InvInit, InvStep, PTL DEF Spec

\* Every reachable state of the two phases has its type.
THEOREM TypeCorrect == Spec => []TypeOK
<1>1. Inv => TypeOK
  BY DEF Inv
<1> QED
  BY <1>1, Invariant, PTL

\* The Module in ibm-fusion-access matches every storage node with a daemon throughout, so
\* that none has its kernel module unloaded, for any nodes and Clusters.
THEOREM NodesAreKept == Spec => []NodesKept
<1>1. Inv => NodesKept
  BY HandoverAssumption DEF Inv, DigestInv, NodesKept, Matches
<1> QED
  BY <1>1, Invariant, PTL

\* No daemon gets another image before phase 5: the new operator finds the updates paused.
THEOREM NothingIsRolledOut == Spec => NothingRollsOut
<1>1. ASSUME Inv, [Next]_vars
      PROVE  [\A n \in Nodes : label[n] # "none" => label'[n] = label[n]]_vars
  <2>1. TypeOK /\ HandedInv /\ ChainInv
    BY <1>1 DEF Inv
  <2>2. \A n \in Nodes : label[n] # "none" => label'[n] = label[n]
    BY <1>1, <2>1, LabelStep DEF TypeOK
  <2> QED
    BY <2>2
<1> QED
  BY <1>1, Invariant, PTL DEF Spec, NothingRollsOut

\* Past the removal no Subscription of Fusion Access is left, and unless OLM came upon an
\* upgrade of it no CSV either, wherever the pods were killed (fusionaccess/ops.go:132-175).
THEOREM AccessIsRemoved == Spec => []AccessRemoved
<1>1. Inv => AccessRemoved
  BY DEF Inv, HandedInv
<1> QED
  BY <1>1, Invariant, PTL

\* The secrets are in place when phase 3 is done, and the secure-boot flag agrees with them.
THEOREM SecretsHaveArrived == Spec => []SecretsArrive
<1>1. Inv => SecretsArrive
  BY DEF Inv, HandedInv, SecretsInv, SecretsArrive
<1> QED
  BY <1>1, Invariant, PTL

-----------------------------------------------------------------------------
(* No dead end *)

\* The phases fail for what others took away, did not provide or did not approve, and for
\* nothing else.
LEMMA RefusalsComeFromOutside == Inv => RefusedFromOutside
<1>1. ASSUME Inv, tool.pc = "pause", tool.todo # {} PROVE Served
  <2>1. tool.todo \subseteq Clusters /\ tool.todo \cap paused = {}
    BY <1>1 DEF Inv, TypeOK, Tool, ServiceInv
  <2>2. paused # Clusters
    BY <1>1, <2>1
  <2> QED
    BY <1>1, <2>2 DEF Inv, ServiceInv, Served
<1>2. ASSUME Inv PROVE DigestsRead # {}
  BY <1>2 DEF Inv, DigestInv, DigestsRead
<1> QED
  BY <1>1, <1>2 DEF Refused, RefusedFromOutside, NoWebhook, NoDigest

\* With one OperatorGroup, whatever phase 4 waits for is there or still on its way.
LEMMA WaitsGetAnAnswer == Inv => WaitsAreAnswered
<1>1. ASSUME Inv, OtherGroup \notin groups, OwnGroup \in groups PROVE Cardinality(groups) = 1
  <2>1. groups = {OwnGroup}
    BY <1>1 DEF Inv, TypeOK
  <2> QED
    BY <2>1, FS_Singleton
<1>2. ASSUME Inv, OtherGroup \notin groups, tool.pc \in {"fdf_wait", "scale_wait"}
      PROVE  OLMCanGoOn \/ (fdf = "4.21" /\ current = fdf)
  <2>1. OwnGroup \in groups /\ fdfSub = "desired"
    BY <1>2 DEF Inv, ServiceInv, Phase4
  <2>2. fdf = "4.21" => current = fdf
    BY <1>2 DEF Inv, ChainInv
  <2> QED
    BY <1>1, <1>2, <2>1, <2>2 DEF OLMCanGoOn
<1>3. ASSUME Inv, tool.pc = "grafana" PROVE scale # "none" /\ replicas
  BY <1>3 DEF Inv, InstalledInv, ScaleReady
<1> QED
  BY <1>2, <1>3 DEF WaitsAreAnswered

\* Whatever the phases wait for can come, and where they fail others are the cause, after any
\* restarts (spectrumscale/ops.go:55-212, spectrumscaleoperator/ops.go:175-202, 387-431).
THEOREM NothingIsDead == Spec => []NoDeadEnd
<1>1. Inv => NoDeadEnd
  BY RefusalsComeFromOutside, WaitsGetAnAnswer DEF NoDeadEnd
<1> QED
  BY <1>1, Invariant, PTL

-----------------------------------------------------------------------------
(* The first half of the handover *)

LEMMA OldCovered == ASSUME TypeOK, DigestInv PROVE Handover!Covered
BY HandoverAssumption DEF TypeOK, DigestInv, Handover!Covered, Matches

\* Phase 4 leaves FDF at 4.21 with its Scale operator, the daemons of before on the old Module
\* and every update held.
THEOREM HandedOver == Spec => []HandsOver
<1>1. ASSUME Inv, tool.pc = "done"
      PROVE  fdf = "4.21" /\ scale = "Succeeded" /\ replicas /\ grafana = Clusters
  <2>1. scale = "Succeeded" /\ replicas /\ grafana = Clusters
    BY <1>1 DEF Inv, InstalledInv, ScaleReady
  <2>2. fdf = "4.21"
    BY <1>1, <2>1 DEF Inv, ChainInv
  <2> QED
    BY <2>1, <2>2
<1>2. ASSUME Inv, tool.pc = "done" PROVE settled = {"console_plugin", "monitoring_label"}
  <2>1. settled \subseteq {"console_plugin", "monitoring_label"}
    BY <1>2 DEF Inv, TypeOK
  <2>2. "console_plugin" \in settled
    BY <1>2 DEF Inv, InstalledInv, ScaleReady
  <2>3. "monitoring_label" \in settled
    BY <1>2 DEF Inv, InstalledInv
  <2> QED
    BY <2>1, <2>2, <2>3
<1>3. ASSUME Inv, tool.pc = "done", faNS PROVE Handover!TakenOver
  <2>1. Handover!Covered
    BY <1>3, OldCovered DEF Inv
  <2>2. paused = Clusters
    BY <1>3 DEF Inv, HandedInv, Paused, Phase4
  <2> QED
    BY <1>1, <1>3, <2>1, <2>2 DEF Handover!TakenOver
<1>4. Inv => HandsOver
  BY <1>1, <1>2, <1>3 DEF HandsOver
<1> QED
  BY <1>4, Invariant, PTL

LEMMA HandoverStep ==
    ASSUME Inv, Inv', [Next]_vars
    PROVE  [Handover!Next]_(Handover!vars)
<1>1. Handover!Covered'
  BY HandoverAssumption DEF Inv, TypeOK, DigestInv, Handover!Covered, Matches
<1>2. CASE UNCHANGED <<label, selector, faNS, paused, scale, replicas>>
  BY <1>2 DEF Handover!vars, Matches
<1>3. CASE PatchFusionAccessKMMModuleSelector
  <2>1. faNS /\ UNCHANGED <<label, faNS, paused, scale, replicas>>
    BY <1>3 DEF PatchFusionAccessKMMModuleSelector, access, clusters, new
  <2>2. Handover!Reselect
    BY <1>1, <2>1 DEF Handover!Reselect
  <2> QED
    BY <2>2 DEF Handover!Next
<1>4. CASE PauseScaleClusterDaemonUpdates
  <2>1. tool.pc = "pause" /\ UNCHANGED <<label, selector, faNS, scale, replicas>>
    BY <1>4 DEF PauseScaleClusterDaemonUpdates, access, new
  <2>2. scale = "none"
    BY <2>1 DEF Inv, HandedInv, ChainInv, Phase4
  <2>3. paused = Clusters => paused' = Clusters
    BY <1>4 DEF Inv, TypeOK, Tool, PauseScaleClusterDaemonUpdates
  <2>4. CASE (paused' = Clusters) = (paused = Clusters)
    BY <2>1, <2>4 DEF Handover!vars, Matches
  <2>5. CASE (paused' = Clusters) # (paused = Clusters)
    <3>1. paused' = Clusters
      BY <2>3, <2>5
    <3>2. Handover!Hold
      BY <2>1, <2>2, <3>1 DEF Handover!Hold, Matches
    <3> QED
      BY <3>2 DEF Handover!Next
  <2> QED
    BY <2>4, <2>5
<1>5. CASE FDFInstallsScale \/ WaitForSpectrumScaleOperatorCSVAfterFDF
  <2>1. UNCHANGED <<label, selector, faNS, paused>>
    BY <1>5 DEF FDFInstallsScale, WaitForSpectrumScaleOperatorCSVAfterFDF, access, daemons,
       clusters
  <2>2. paused = Clusters
    BY <1>5 DEF FDFInstallsScale, WaitForSpectrumScaleOperatorCSVAfterFDF, Inv, HandedInv,
       ChainInv, Paused, Phase4
  <2>3. (scale = "Succeeded" /\ replicas) => (scale' = "Succeeded" /\ replicas')
    BY <1>5 DEF FDFInstallsScale, WaitForSpectrumScaleOperatorCSVAfterFDF
  <2>4. CASE (scale' = "Succeeded" /\ replicas') = (scale = "Succeeded" /\ replicas)
    BY <2>1, <2>4 DEF Handover!vars, Matches
  <2>5. CASE (scale' = "Succeeded" /\ replicas') # (scale = "Succeeded" /\ replicas)
    <3>1. scale' = "Succeeded" /\ replicas'
      BY <2>3, <2>5
    <3>2. Handover!TakeOver
      BY <2>1, <2>2, <3>1 DEF Handover!TakeOver, Matches
    <3> QED
      BY <3>2 DEF Handover!Next
  <2> QED
    BY <2>4, <2>5
<1>6. ASSUME NEW n \in Nodes, RollOut(n) PROVE [Handover!Next]_(Handover!vars)
  <2>1. n \in StorageNodes /\ UNCHANGED <<selector, faNS, paused, scale, replicas>>
    BY <1>6 DEF RollOut, access, clusters, new
  <2>2. label' = [label EXCEPT ![n] = "old"]
    BY <1>6, HeldBack DEF RollOut, Inv
  <2>3. {m \in StorageNodes : label'[m] = "old"} = {m \in StorageNodes : label[m] = "old"} \cup {n}
    BY <2>1, <2>2, HandoverAssumption DEF Inv, TypeOK
  <2>4. Handover!Join(n)
    BY <1>1, <2>1, <2>3 DEF Handover!Join
  <2> QED
    BY <1>6, <2>4 DEF Handover!Next
<1>7. CASE FANamespaceRemoved
  <2>1. faNS /\ ~faNS' /\ UNCHANGED <<label, selector, paused, scale, replicas>>
    BY <1>7 DEF FANamespaceRemoved, daemons, clusters, new
  <2>2. Handover!Lose
    BY <2>1 DEF Handover!Lose, Matches
  <2> QED
    BY <2>2 DEF Handover!Next
<1>8. CASE ToolStep /\ ~PatchFusionAccessKMMModuleSelector /\ ~PauseScaleClusterDaemonUpdates
           /\ ~WaitForSpectrumScaleOperatorCSVAfterFDF
  <2>1. UNCHANGED <<label, selector, faNS, paused, scale, replicas>>
    BY <1>8 DEF ToolStep, RemoveSubscriptionAndCSV, RemoveRest, ListClusters,
       ScaleDownSpectrumScaleOperator, ReadSelector, CopySecureBootSigningSecretsIfPresent,
       CopySigningKey, CopySigningKeyPub, CopyIBMEntitlementKeyToSpectrumScale, HandOver,
       ensureOpenShiftStorageOperatorGroup, CreateOrUpdateFDFSubscription,
       waitForFDFSubscriptionCSVSucceeded, EnableOdfConsolePlugin, ListGrafana,
       EnableGrafanaBridge, LabelUserWorkloadMonitoringNS, PhaseFails, access, daemons, clusters,
       new
  <2> QED
    BY <1>2, <2>1
<1>9. CASE \/ OldOperatorStops \/ OLMResolves \/ OLMInstalls \/ NewOperatorStarts
           \/ Restart \/ Calm \/ UNCHANGED vars \/ \E s \in Secrets : SecretAdded(s)
           \/ Upgrades
  <2>1. UNCHANGED <<label, selector, faNS, paused, scale, replicas>>
    BY <1>9, UpgradesFacts DEF Inv, OldOperatorStops, OLMResolves, OLMInstalls,
       NewOperatorStarts, Restart, Calm, SecretAdded, vars, access, daemons, clusters, new
  <2> QED
    BY <1>2, <2>1
<1> QED
  BY <1>3, <1>4, <1>5, <1>6, <1>7, <1>8, <1>9 DEF Next, Controllers

\* Phases 3 and 4 implement the first half of the handover, for any Clusters and nodes.
THEOREM HandoverImplemented == Spec => ImplementsHandover
<1>1. Init => Handover!Init
  <2> SUFFICES ASSUME Init PROVE Handover!Init
    OBVIOUS
  <2>1. Handover!Covered
    BY InvInit, OldCovered DEF Inv
  <2>2. faNS = TRUE /\ paused # Clusters /\ scale # "Succeeded"
    BY HandoverAssumption DEF Init
  <2> QED
    BY <2>1, <2>2, HandoverAssumption DEF Handover!Init
<1>2. Inv /\ [Next]_vars => Inv' /\ [Handover!Next]_(Handover!vars)
  BY InvStep, HandoverStep
<1> QED
  BY <1>1, <1>2, InvInit, PTL DEF Spec, ImplementsHandover, Handover!Spec

\* What DaemonHandoverProofs shows of the handover, with the nodes and Modules of this module.
Daemons == INSTANCE DaemonHandoverProofs WITH
    bound <- {n \in StorageNodes : label[n] = "old"},
    matched <- {n \in Nodes : Matches(n)},
    module <- IF faNS THEN "there" ELSE "lost",
    held <- paused = Clusters,
    taken <- scale = "Succeeded" /\ replicas

\* Unless ibm-fusion-access is lost each daemon is on a node of its Module, and none leaves
\* before the new operator is in charge and released (spectrumscale/ops.go:140-213).
THEOREM DaemonsAreSafe == Spec => []Handover!Kept /\ Handover!LeaveWhenReleased
<1>1. Spec => Handover!Spec
  BY HandoverImplemented DEF ImplementsHandover
<1>2. Handover!Init => Daemons!Init
  BY Zenon DEF Handover!Init, Handover!Covered, Daemons!Init, Daemons!Covered
<1>3. [Handover!Next]_(Handover!vars) => [Daemons!Next]_(Daemons!vars)
  BY Zenon DEF Handover!Next, Handover!vars, Handover!Covered, Handover!Join, Handover!Reselect,
         Handover!Hold, Handover!TakeOver, Handover!Release, Handover!Upgrade, Handover!Retire,
         Handover!Lose,
         Daemons!Next, Daemons!vars, Daemons!Covered, Daemons!Join, Daemons!Reselect,
         Daemons!Hold, Daemons!TakeOver, Daemons!Release, Daemons!Upgrade, Daemons!Retire,
         Daemons!Lose
<1>4. Handover!Spec => Daemons!Spec
  BY <1>2, <1>3, PTL DEF Handover!Spec, Daemons!Spec
<1>5. Daemons!Kept => Handover!Kept
  BY Zenon DEF Daemons!Kept, Daemons!Covered, Handover!Kept, Handover!Covered
<1>6. Daemons!Spec => []Daemons!Kept /\ Daemons!LeaveWhenReleased
  BY Daemons!DaemonsAreKept, Daemons!DaemonsLeaveLate, PTL
<1>7. Daemons!LeaveWhenReleased => Handover!LeaveWhenReleased
  BY PTL DEF Daemons!LeaveWhenReleased, Handover!LeaveWhenReleased, Daemons!vars, Handover!vars
<1> QED
  BY <1>1, <1>4, <1>5, <1>6, <1>7, PTL
=============================================================================
