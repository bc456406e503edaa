---------------------------- MODULE ScaleHandover ----------------------------
(***************************************************************************)
(* Phases 3 and 4, phases/uninstall_fusion_access_and_scale.go and         *)
(* phases/install_data_foundation.go: Fusion Access goes, and the Spectrum *)
(* Scale operator it deployed hands over to the one Data Foundation        *)
(* brings.  The daemons must not notice: their updates are paused until    *)
(* phase 5, and the Module in ibm-fusion-access keeps matching the nodes   *)
(* that run them, by the digest of their image.                            *)
(*                                                                         *)
(* OLM, the operators and administrators act between any two calls of the  *)
(* tool; the pod may be killed, and every call may fail.  The next pod     *)
(* enters phase 3 again, or phase 4 once the checkpoint of phase 3 is      *)
(* stored.                                                                 *)
(***************************************************************************)
EXTENDS FiniteSets

CONSTANTS
    Clusters,      \* the Scale Cluster CRs
    Nodes,
    StorageNodes   \* those that run a daemon, with role=storage

ASSUME HandoverAssumption ==
    /\ StorageNodes \subseteq Nodes /\ StorageNodes # {}
    /\ Clusters # {}

VARIABLES
    tool,       \* pc; todo: the Clusters still to update; digest: of the image, as read
    resuming,   \* ResumingFromCheckpoint
    handed,     \* TRUE once the checkpoint says that phase 3 is done
    flag,       \* SecureBootClusterForKMM
    faNS,       \* ibm-fusion-access is there
    fa,         \* what of its Subscription and its installed CSV is in it
    upgrade,    \* OLM came upon an upgrade of Fusion Access, which may wait for approval: the
                \* Subscription names its CSV from then on
    held,       \* the secrets in it
    copied,     \* the secrets in ibm-spectrum-scale
    selector,   \* nodes the Module in ibm-fusion-access asks for: of which role, and digest
    label,      \* image-digest of each node: that of the daemon it is to run
    paused,     \* Clusters with daemon updates paused
    wanted,     \* the Deployment of the old operator asks for replicas
    oldRuns,    \* a pod of the old operator runs
    groups,     \* OperatorGroups in openshift-storage
    fdfSub,     \* spec of the odf-operator Subscription
    current,    \* its status.currentCSV; "pending": a 4.20 that waits for approval
    fdf,        \* the CSV of FDF in openshift-storage; "installing" also while 4.20 is replaced
    scale,      \* the CSV of the new operator, in ibm-spectrum-scale
    replicas,   \* it asks for replicas
    newRuns,    \* a pod of the new operator runs
    grafana,    \* Clusters with the Grafana bridge enabled
    settled,    \* of the console plugin and the monitoring label, what is set
    calm        \* TRUE once no call fails and nobody but the controllers interferes any more

checkpoint == <<resuming, handed, flag>>
access == <<faNS, fa, upgrade, held>>
clusters == <<paused, grafana>>
old == <<wanted, oldRuns>>
olm == <<groups, fdfSub, current, fdf>>
new == <<scale, replicas, newRuns>>
daemons == <<selector, label, clusters>>
vars == <<tool, checkpoint, access, copied, daemons, old, olm, new, settled, calm>>

Entitlement == "ibm-entitlement-key"
Pair == {"secureboot-signing-key", "secureboot-signing-key-pub"}
Secrets == Pair \cup {Entitlement}
OwnGroup == "fdf-operator-group"
OtherGroup == "another OperatorGroup"

Digests == {"old", "other", "new"}

Phase3 == {"remove", "remove_rest", "list_clusters", "pause", "scale_down", "patch",
           "patch_update", "sign", "sign_key", "sign_pub", "entitle", "handed"}
Phase4 == {"group", "subscribe", "fdf_wait", "console", "scale_wait", "list_grafana", "grafana",
           "monitoring", "done"}
Steps == Phase3 \cup Phase4

Tool == [pc : Steps, todo : SUBSET Clusters, digest : Digests \cup {"unread"}]

TypeOK ==
    /\ tool \in Tool
    /\ resuming \in BOOLEAN /\ handed \in BOOLEAN /\ flag \in BOOLEAN
    /\ faNS \in BOOLEAN
    /\ fa \in SUBSET {"sub", "csv"} /\ upgrade \in BOOLEAN
    /\ held \in SUBSET Secrets /\ copied \in SUBSET Secrets
    /\ selector \in [role : BOOLEAN, digest : Digests \cup {"any"}]
    /\ label \in [Nodes -> Digests \cup {"none"}]
    /\ paused \in SUBSET Clusters /\ grafana \in SUBSET Clusters
    /\ wanted \in BOOLEAN /\ oldRuns \in BOOLEAN
    /\ groups \in SUBSET {OwnGroup, OtherGroup}
    /\ fdfSub \in {"none", "old", "desired"}
    /\ current \in {"none", "4.20", "pending", "4.21"}
    /\ fdf \in {"none", "4.20", "installing", "4.21"}
    /\ scale \in {"none", "installing", "Succeeded"}
    /\ replicas \in BOOLEAN /\ newRuns \in BOOLEAN
    /\ settled \in SUBSET {"console_plugin", "monitoring_label"}
    /\ calm \in BOOLEAN

At(pc, todo, digest) == [pc |-> pc, todo |-> todo, digest |-> digest]

Goto(pc) == tool' = At(pc, {}, tool.digest)

\* What preflight lets pass, with the operators of Fusion Access and Scale as phase 2 leaves
\* them: FDF is absent or at 4.20, the signing keys are a pair or absent, and nobody has
\* looked for the entitlement key.  Phase 2 lets an upgrade of Fusion Access pass that waits
\* for approval.  Storage nodes run one image; one may have joined just now.
Init ==
    /\ tool = At("remove", {}, "unread")
    /\ resuming = FALSE /\ handed = FALSE /\ flag = FALSE
    /\ faNS = TRUE /\ fa = {"sub", "csv"} /\ upgrade \in BOOLEAN
    /\ held \in {{}, {Entitlement}, Pair, Secrets} /\ copied = {}
    /\ selector \in [role : {TRUE}, digest : {"any", "old"}]
    /\ label \in [Nodes -> {"none", "old", "other"}]
    /\ {label[n] : n \in StorageNodes} \in {{"old"}, {"none", "old"}}
    /\ paused = {} /\ grafana = {}
    /\ wanted = TRUE /\ oldRuns = TRUE
    /\ \/ groups = {} /\ fdfSub = "none" /\ current = "none" /\ fdf = "none"
       \/ /\ groups \in {{OwnGroup}, {OtherGroup}}
          /\ fdfSub = "old" /\ current = "4.20" /\ fdf = "4.20"
    /\ scale = "none" /\ replicas = FALSE /\ newRuns = FALSE
    /\ settled = {} /\ calm = FALSE

-----------------------------------------------------------------------------
(* The surroundings *)

\* Writes to a Cluster CR pass a webhook that the Scale operator serves.
Served == oldRuns \/ newRuns

Matches(n) ==
    /\ selector.role => n \in StorageNodes
    /\ selector.digest # "any" => label[n] = selector.digest

OldOperatorStops ==
    /\ ~wanted /\ oldRuns
    /\ oldRuns' = FALSE
    /\ UNCHANGED <<tool, checkpoint, access, copied, daemons, wanted, olm, new, settled, calm>>

\* OLM resolves a Subscription in a namespace with one OperatorGroup, and then installs the
\* CSV it found: until it gets to that, the status names the CSV of before.
OLMResolves ==
    /\ fdfSub = "desired" /\ current # "4.21" /\ Cardinality(groups) = 1
    /\ current' = "4.21"
    /\ UNCHANGED <<tool, checkpoint, access, copied, daemons, old, groups, fdfSub, fdf, new,
                   settled, calm>>

OLMInstalls ==
    /\ current = "4.21" /\ fdf # "4.21" /\ Cardinality(groups) = 1
    /\ fdf' = IF fdf = "installing" THEN "4.21" ELSE "installing"
    /\ UNCHANGED <<tool, checkpoint, access, copied, daemons, old, groups, fdfSub, current, new,
                   settled, calm>>

\* FDF brings the Scale operator, whose CSV may ask for no replicas.
FDFInstallsScale ==
    /\ fdf = "4.21"
    /\ \/ scale = "none" /\ scale' = "installing" /\ replicas' \in BOOLEAN
       \/ scale = "installing" /\ scale' = "Succeeded" /\ UNCHANGED replicas
    /\ UNCHANGED <<tool, checkpoint, access, copied, daemons, old, olm, newRuns, settled,
                   calm>>

NewOperatorStarts ==
    /\ scale # "none" /\ replicas /\ ~newRuns
    /\ newRuns' = TRUE
    /\ UNCHANGED <<tool, checkpoint, access, copied, daemons, old, olm, scale, replicas,
                   settled, calm>>

\* The operator that runs labels a storage node that has no label yet.  With its updates not
\* paused the new one gives every daemon its own image, node after node.
RollOut(n) ==
    /\ n \in StorageNodes
    /\ \/ newRuns /\ paused # Clusters /\ label' = [label EXCEPT ![n] = "new"]
       \/ Served /\ label[n] = "none" /\ label' = [label EXCEPT ![n] = "old"]
    /\ UNCHANGED <<tool, checkpoint, access, copied, selector, clusters, old, olm, new, settled,
                   calm>>

SecretAdded(s) ==
    /\ ~calm /\ faNS
    /\ held' = held \cup {s}
    /\ UNCHANGED <<tool, checkpoint, faNS, fa, upgrade, copied, daemons, old, olm, new, settled,
                   calm>>

FANamespaceRemoved ==
    /\ ~calm /\ faNS
    /\ faNS' = FALSE /\ fa' = {} /\ held' = {}
    /\ UNCHANGED <<tool, checkpoint, upgrade, copied, daemons, old, olm, new, settled, calm>>

\* An upgrade may be found at any time; when it is installed, even after the tool has deleted
\* the CSV of before, there is a CSV again.
UpgradeFound ==
    /\ ~calm /\ "sub" \in fa /\ ~upgrade
    /\ upgrade' = TRUE
    /\ UNCHANGED <<tool, checkpoint, faNS, fa, held, copied, daemons, old, olm, new, settled, calm>>

UpgradeInstalled ==
    /\ ~calm /\ "sub" \in fa /\ upgrade
    /\ fa' = {"sub", "csv"}
    /\ UNCHANGED <<tool, checkpoint, faNS, upgrade, held, copied, daemons, old, olm, new, settled,
                   calm>>

\* That of FDF is of no account before phase 4.
FDFUpgradeWaits ==
    /\ ~calm /\ handed /\ fdfSub = "old"
    /\ current' = IF current = "4.20" THEN "pending" ELSE "4.20"
    /\ UNCHANGED <<tool, checkpoint, access, copied, daemons, old, groups, fdfSub, fdf, new,
                   settled, calm>>

Upgrades == UpgradeFound \/ UpgradeInstalled \/ FDFUpgradeWaits

\* The pod that starts after a failure or a kill has the flag of the stored checkpoint.
Again ==
    /\ tool' = At(IF handed THEN "group" ELSE "remove", {}, "unread")
    /\ resuming' = TRUE
    /\ flag' = (handed /\ flag)
    /\ UNCHANGED handed

Restart ==
    /\ ~calm
    /\ Again
    /\ UNCHANGED <<access, copied, daemons, old, olm, new, settled, calm>>

Calm ==
    /\ ~calm /\ calm' = TRUE
    /\ UNCHANGED <<tool, checkpoint, access, copied, daemons, old, olm, new, settled>>

-----------------------------------------------------------------------------
(* Phase 3: fusionaccess.RemoveSubscriptionAndCSV,
   spectrumscale.PauseScaleClusterDaemonUpdates,
   spectrumscaleoperator.ScaleDownSpectrumScaleOperator *)

\* The operator is scaled down before the updates are paused.
Mut_Following == [remove |-> "scale_down", scale_down |-> "list_clusters", pause |-> "patch"]

Following == [remove |-> "list_clusters", pause |-> "scale_down", scale_down |-> "patch"]

Mut_Removal == [remove |-> "sub", remove_rest |-> "csv"]  \* the other way round

Removal == [remove |-> "csv", remove_rest |-> "sub"]

\* The CSV is deleted by the name in the Subscription, and NotFound is no error: with an upgrade
\* pending it is another one than the installed.
LeftAfter(object) == {fa \ {object}} \cup (IF object = "csv" /\ upgrade THEN {fa} ELSE {})

\* Without its Subscription, Fusion Access counts as removed.
RemoveSubscriptionAndCSV ==
    /\ tool.pc = "remove"
    /\ IF "sub" \in fa
       THEN fa' \in LeftAfter(Removal.remove) /\ Goto("remove_rest")
       ELSE UNCHANGED fa /\ Goto(Following.remove)
    /\ UNCHANGED <<checkpoint, faNS, upgrade, held, copied, daemons, old, olm, new, settled, calm>>

RemoveRest ==
    /\ tool.pc = "remove_rest"
    /\ fa' \in LeftAfter(Removal.remove_rest)
    /\ Goto(Following.remove)
    /\ UNCHANGED <<checkpoint, faNS, upgrade, held, copied, daemons, old, olm, new, settled, calm>>

Mut_ToPause == IF paused = {} THEN Clusters ELSE {}  \* it stops at the first that is paused

\* scaleClusterDaemonUpdateMatchesDesired
ToPause == Clusters \ paused

ListClusters ==
    /\ tool.pc = "list_clusters"
    /\ tool' = At("pause", ToPause, "unread")
    /\ UNCHANGED <<checkpoint, access, copied, daemons, old, olm, new, settled, calm>>

PauseScaleClusterDaemonUpdates ==
    /\ tool.pc = "pause"
    /\ \/ \E c \in tool.todo :
            /\ Served
            /\ paused' = paused \cup {c}
            /\ tool' = [tool EXCEPT !.todo = @ \ {c}]
       \/ tool.todo = {} /\ UNCHANGED paused /\ Goto(Following.pause)
    /\ UNCHANGED <<checkpoint, access, copied, selector, label, grafana, old, olm, new, settled,
                   calm>>

\* Nobody waits for the pods of the operator to go.
ScaleDownSpectrumScaleOperator ==
    /\ tool.pc = "scale_down"
    /\ wanted' = FALSE
    /\ Goto(Following.scale_down)
    /\ UNCHANGED <<checkpoint, access, copied, daemons, oldRuns, olm, new, settled, calm>>

-----------------------------------------------------------------------------
(* spectrumscale.PatchFusionAccessKMMModuleSelectorForMigration *)

Mut_DigestsRead == {label[n] : n \in Nodes} \ {"none"}  \* the role of the node is not looked at

\* resolveScaleImageDigestFromNodes takes the first it finds, from a storage node if one has it.
DigestsRead ==
    LET OfStorage == {label[n] : n \in StorageNodes} \ {"none"}
    IN  IF OfStorage # {} THEN OfStorage ELSE {label[n] : n \in Nodes} \ {"none"}

ReadSelector ==
    /\ tool.pc = "patch"
    /\ CASE ~faNS -> Goto("sign")
         [] faNS /\ selector.digest # "any" -> Goto("patch_update")
         [] OTHER -> \E d \in DigestsRead : tool' = At("patch_update", {}, d)
    /\ UNCHANGED <<checkpoint, access, copied, daemons, old, olm, new, settled, calm>>

\* A conflict reads the Module again, and keeps the digest.
PatchFusionAccessKMMModuleSelector ==
    /\ tool.pc = "patch_update" /\ faNS
    /\ selector' = [role |-> FALSE,
                    digest |-> IF selector.digest = "any" THEN tool.digest ELSE selector.digest]
    /\ Goto("sign")
    /\ UNCHANGED <<checkpoint, access, copied, label, clusters, old, olm, new, settled, calm>>

-----------------------------------------------------------------------------
(* fusionaccess.CopySecureBootSigningSecretsIfPresent, CopyIBMEntitlementKeyToSpectrumScale *)

Mut_AlreadyCopied == Pair \cap copied # {}  \* one of the two will do

AlreadyCopied == Pair \subseteq copied

CopySecureBootSigningSecretsIfPresent ==
    /\ tool.pc = "sign"
    /\ \/ /\ ~faNS
          /\ flag' = AlreadyCopied
          /\ Goto("entitle")
       \/ /\ faNS /\ Pair \cap held = {}
          /\ flag' = FALSE
          /\ Goto("entitle")
       \/ /\ faNS /\ Pair \subseteq held
          /\ UNCHANGED flag
          /\ Goto("sign_key")
    /\ UNCHANGED <<resuming, handed, access, copied, daemons, old, olm, new, settled, calm>>

\* The secrets were read: what becomes of ibm-fusion-access does not matter any more.
CopySigningKey ==
    /\ tool.pc = "sign_key"
    /\ copied' = copied \cup {"secureboot-signing-key"}
    /\ Goto("sign_pub")
    /\ UNCHANGED <<checkpoint, access, daemons, old, olm, new, settled, calm>>

CopySigningKeyPub ==
    /\ tool.pc = "sign_pub"
    /\ copied' = copied \cup {"secureboot-signing-key-pub"}
    /\ flag' = TRUE
    /\ Goto("entitle")
    /\ UNCHANGED <<resuming, handed, access, daemons, old, olm, new, settled, calm>>

Entitled == IF faNS THEN Entitlement \in held ELSE resuming /\ Entitlement \in copied

CopyIBMEntitlementKeyToSpectrumScale ==
    /\ tool.pc = "entitle" /\ Entitled
    /\ copied' = copied \cup {Entitlement}
    /\ Goto("handed")
    /\ UNCHANGED <<checkpoint, access, daemons, old, olm, new, settled, calm>>

\* main stores the checkpoint, and the same pod enters phase 4.
HandOver ==
    /\ tool.pc = "handed"
    /\ handed' = TRUE
    /\ Goto("group")
    /\ UNCHANGED <<resuming, flag, access, copied, daemons, old, olm, new, settled, calm>>

-----------------------------------------------------------------------------
(* Phase 4: spectrumscaleoperator.CreateFDFSubscriptionAndWait *)

\* Looked for by name: a group of another name is not seen.
ensureOpenShiftStorageOperatorGroup ==
    /\ tool.pc = "group"
    /\ groups' = groups \cup {OwnGroup}
    /\ Goto("subscribe")
    /\ UNCHANGED <<checkpoint, access, copied, daemons, old, fdfSub, current, fdf, new, settled,
                   calm>>

Mut_Reconciled == IF fdfSub = "none" THEN "desired" ELSE fdfSub  \* an existing one is left alone

\* reconcileExistingFdfSubscriptionAndWait
Reconciled == "desired"

\* ibmCsvMinorFromSubscription: the CSV that an existing Subscription names must be there,
\* though nothing but a message depends on it.
CSVUnread == fdfSub = "old" /\ current = "pending"

CreateOrUpdateFDFSubscription ==
    /\ tool.pc = "subscribe" /\ ~CSVUnread
    /\ fdfSub' = Reconciled
    /\ Goto("fdf_wait")
    /\ UNCHANGED <<checkpoint, access, copied, daemons, old, groups, current, fdf, new, settled,
                   calm>>

\* The CSV that the Subscription names has phase Succeeded.
waitForFDFSubscriptionCSVSucceeded ==
    /\ tool.pc = "fdf_wait" /\ current # "none" /\ fdf = current
    /\ Goto("console")
    /\ UNCHANGED <<checkpoint, access, copied, daemons, old, olm, new, settled, calm>>

Mut_AfterConsole == "list_grafana"  \* the new operator is not waited for

AfterConsole == "scale_wait"

EnableOdfConsolePlugin ==
    /\ tool.pc = "console"
    /\ settled' = settled \cup {"console_plugin"}
    /\ Goto(AfterConsole)
    /\ UNCHANGED <<checkpoint, access, copied, daemons, old, olm, new, calm>>

WaitForSpectrumScaleOperatorCSVAfterFDF ==
    /\ tool.pc = "scale_wait" /\ scale = "Succeeded"
    /\ replicas' = TRUE
    /\ Goto("list_grafana")
    /\ UNCHANGED <<checkpoint, access, copied, daemons, old, olm, scale, newRuns, settled, calm>>

-----------------------------------------------------------------------------
(* spectrumscale.EnableGrafanaBridge and cluster.LabelUserWorkloadMonitoringNS *)

ListGrafana ==
    /\ tool.pc = "list_grafana"
    /\ tool' = At("grafana", Clusters \ grafana, "unread")
    /\ UNCHANGED <<checkpoint, access, copied, daemons, old, olm, new, settled, calm>>

\* Without a server of the webhook it waits and tries again, twelve times.
EnableGrafanaBridge ==
    /\ tool.pc = "grafana"
    /\ \/ \E c \in tool.todo :
            /\ Served
            /\ grafana' = grafana \cup {c}
            /\ tool' = [tool EXCEPT !.todo = @ \ {c}]
       \/ tool.todo = {} /\ UNCHANGED grafana /\ Goto("monitoring")
    /\ UNCHANGED <<checkpoint, access, copied, selector, label, paused, old, olm, new, settled,
                   calm>>

LabelUserWorkloadMonitoringNS ==
    /\ tool.pc = "monitoring"
    /\ settled' = settled \cup {"monitoring_label"}
    /\ Goto("done")
    /\ UNCHANGED <<checkpoint, access, copied, daemons, old, olm, new, calm>>

-----------------------------------------------------------------------------

\* Where the call at hand returns an error whenever it is made, and so does the phase.
NoWebhook == tool.pc = "pause" /\ tool.todo # {} /\ ~Served
NoDigest == tool.pc = "patch" /\ faNS /\ selector.digest = "any" /\ DigestsRead = {}
NoModule == tool.pc = "patch_update" /\ ~faNS
HalfAPair == tool.pc = "sign" /\ faNS /\ Cardinality(Pair \cap held) = 1
NotEntitled == tool.pc = "entitle" /\ ~Entitled
FDFUnread == tool.pc = "subscribe" /\ CSVUnread

Refused == NoWebhook \/ NoDigest \/ NoModule \/ HalfAPair \/ NotEntitled \/ FDFUnread

PhaseFails ==
    /\ Refused
    /\ Again
    /\ UNCHANGED <<access, copied, daemons, old, olm, new, settled, calm>>

ToolStep ==
    \/ RemoveSubscriptionAndCSV \/ RemoveRest
    \/ ListClusters \/ PauseScaleClusterDaemonUpdates \/ ScaleDownSpectrumScaleOperator
    \/ ReadSelector \/ PatchFusionAccessKMMModuleSelector
    \/ CopySecureBootSigningSecretsIfPresent \/ CopySigningKey \/ CopySigningKeyPub
    \/ CopyIBMEntitlementKeyToSpectrumScale \/ HandOver
    \/ ensureOpenShiftStorageOperatorGroup \/ CreateOrUpdateFDFSubscription
    \/ waitForFDFSubscriptionCSVSucceeded \/ EnableOdfConsolePlugin
    \/ WaitForSpectrumScaleOperatorCSVAfterFDF
    \/ ListGrafana \/ EnableGrafanaBridge \/ LabelUserWorkloadMonitoringNS
    \/ PhaseFails

Controllers ==
    \/ OldOperatorStops \/ OLMResolves \/ OLMInstalls \/ FDFInstallsScale \/ NewOperatorStarts
    \/ \E n \in Nodes : RollOut(n)

Next ==
    \/ ToolStep \/ Controllers \/ Upgrades \/ Restart \/ Calm \/ FANamespaceRemoved
    \/ \E s \in Secrets : SecretAdded(s)

Spec == Init /\ [][Next]_vars

\* The tool goes on, and so do OLM and the operators.
Fairness ==
    /\ WF_vars(ToolStep)
    /\ WF_vars(OLMResolves) /\ WF_vars(OLMInstalls) /\ WF_vars(FDFInstallsScale)
    /\ WF_vars(NewOperatorStarts) /\ WF_vars(OldOperatorStops)

FairSpec == Spec /\ Fairness

-----------------------------------------------------------------------------
(* Properties *)

\* kmm_module.go:52-81, 115-226: through the whole handover the Module in ibm-fusion-access
\* matches every storage node with a daemon, so that none has its kernel module unloaded: the
\* digest put in its selector is that of the daemons that run, whatever other nodes carry.
NodesKept == faNS => \A n \in StorageNodes : label[n] # "none" => Matches(n)

\* spectrumscale/ops.go:140-213: the new operator comes up while the updates of every Cluster
\* are paused, and changes no daemon before phase 5.
NothingRollsOut == [][\A n \in Nodes : label[n] # "none" => label'[n] = label[n]]_vars

\* The two phases, seen from the daemons.
Handover == INSTANCE DaemonHandover WITH
    bound <- {n \in StorageNodes : label[n] = "old"},
    matched <- {n \in Nodes : Matches(n)},
    module <- IF faNS THEN "there" ELSE "lost",
    held <- paused = Clusters,
    taken <- scale = "Succeeded" /\ replicas

\* phases/uninstall_fusion_access_and_scale.go:12-37, install_data_foundation.go:9-24: killed
\* and run again wherever that happens, they are the first half of the handover: the Module is
\* never narrowed past a daemon, and the new operator takes over with every update held.
ImplementsHandover == Handover!Spec

\* fusionaccess/ops.go:132-175: past the removal the Subscription is gone; and so is the CSV,
\* which no later pod would find without it, unless OLM came upon an upgrade: then the
\* Subscription may have named another CSV, and the installed one stays.
AccessRemoved ==
    tool.pc \notin {"remove", "remove_rest"} =>
        "sub" \notin fa /\ (~upgrade => fa = {})

\* fusionaccess/ops.go:180-344: after phase 3 ibm-spectrum-scale has the entitlement key, and
\* the flag tells phase 5 to have modules signed exactly when both signing keys are there.
SecretsArrive ==
    handed => Entitlement \in copied /\ (flag <=> Pair \subseteq copied)

\* spectrumscaleoperator/ops.go:117-136, 387-431, migrate_kmm.go:10-19: when phase 4 is done FDF
\* is at 4.21 and its Scale operator there, though the first of the two waits may be over too early,
\* and phase 5 finds what it takes for granted, unless ibm-fusion-access was lost: the daemons of
\* before on the old Module, held, and the new operator in charge.
HandsOver ==
    tool.pc = "done" =>
        /\ fdf = "4.21" /\ scale = "Succeeded" /\ replicas
        /\ grafana = Clusters /\ settled = {"console_plugin", "monitoring_label"}
        /\ faNS => Handover!TakenOver

\* spectrumscale/ops.go:155-212, kmm_module.go:62-90: no phase fails by the tool's own doing:
\* the webhook serves as long as a Cluster is to be paused, and a digest can be read; what
\* is left is a namespace or a secret that somebody took away or did not provide, or an
\* upgrade within FDF 4.20 that nobody has approved (spectrumscaleoperator/ops.go:263-359).
RefusedFromOutside == Refused => NoModule \/ HalfAPair \/ NotEntitled \/ FDFUnread

\* spectrumscaleoperator/ops.go:175-202, 387-431, spectrumscale/ops.go:55-121: each wait of
\* phase 4 is over, or OLM, FDF or the new operator has what it needs to end it, if there is
\* one OperatorGroup.
OLMCanGoOn == Cardinality(groups) = 1 /\ fdfSub = "desired" /\ fdf # "4.21"

WaitsAreAnswered ==
    OtherGroup \notin groups =>
        /\ tool.pc = "fdf_wait" => OLMCanGoOn \/ (fdf = "4.21" /\ current = fdf)
        /\ tool.pc = "scale_wait" => OLMCanGoOn \/ fdf = "4.21"
        /\ tool.pc = "grafana" => Served \/ (scale # "none" /\ replicas)

\* Neither a failure nor a wait of the two phases is a dead end the tool ran into by itself.
NoDeadEnd == RefusedFromOutside /\ WaitsAreAnswered

\* Once failures stop the two phases get done, wherever they were left off: no write waits
\* for the operator the tool has stopped itself.  The keys must be there, OLM must not
\* face two OperatorGroups, and no upgrade of FDF may wait for approval.
PhaseGetsDone ==
    (/\ calm /\ OtherGroup \notin groups /\ current # "pending"
     /\ handed \/ (IF faNS THEN Entitlement \in held ELSE Entitlement \in copied)
     /\ Cardinality(Pair \cap held) # 1) ~> tool.pc = "done"

\* README.md:9-15: "Preflight (step 1) **blocks** the migration unless: ... Secret
\* `ibm-entitlement-key` must exist in `ibm-fusion-access`": nothing of Fusion Access is removed
\* without it.
KeyBeforeRemoval == faNS /\ fa # {"sub", "csv"} => Entitlement \in held
=============================================================================
