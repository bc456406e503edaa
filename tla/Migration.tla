------------------------------ MODULE Migration ------------------------------
(***************************************************************************)
(* The whole walk from preflight to the Fusion operator, in pods that fail *)
(* and are followed by others: phases 1, 6 and 7 and the CatalogSource of  *)
(* phase 2 call by call, and of the rest of phases 2 to 5, which have      *)
(* modules of their own, what the other phases see of it.                  *)
(***************************************************************************)
EXTENDS Preflight, FDFCatalog, FinalizeStorage, FusionOperator

vars == <<flow, calm, report, install, catalogsource, storage, fusion>>

Init ==
    /\ PodInit /\ FilesystemsInit
    /\ PreflightInit /\ CatalogInit /\ StorageInit /\ FusionInit

-----------------------------------------------------------------------------
(* Phases 2 to 5 *)

\* Phase 4 upgrades FDF.  Phase 5 deletes ibm-fusion-access and what is in it.
AfterPhase(k, i) ==
    CASE k = 4 -> [i EXCEPT !.odf["odf-operator"] = "4.21"]
      [] k = 5 -> [i EXCEPT !.namespaces = @ \ {"ibm-fusion-access"}, !.signing = {}]
      [] OTHER -> i

PhaseActs ==
    /\ pc = "acts"
    /\ install' = IF dry THEN install ELSE AfterPhase(phase, install)
    /\ Goto("returns")

PhaseReturns ==
    /\ pc = "returns"
    /\ ReturnNil
    /\ UNCHANGED install

-----------------------------------------------------------------------------

PreflightStep ==
    /\ \E i \in DOMAIN Checks : CheckPasses(i) \/ CheckRefuses(i)
    /\ UNCHANGED <<calm, report, catalogsource, storage, fusion>>

CatalogStep ==
    /\ EnsureFDFCatalogSource \/ waitFDFCatalogSourceReady \/ IndexDeadline
    /\ UNCHANGED <<calm, report, install, storage, fusion>>

OpaqueStep ==
    /\ PhaseActs \/ PhaseReturns
    /\ UNCHANGED <<calm, report, catalogsource, storage, fusion>>

StorageStep ==
    /\ \/ ListFilesystems \/ ClassesDone
       \/ \E w \in todo : ensureStorageClass(w)
       \/ VerifyFilesystemRecovery \/ RecoveryDeadline
    /\ UNCHANGED <<calm, report, install, catalogsource, fusion>>

FusionStep ==
    /\ \/ EnsureNamespace \/ ensureFusionOperatorGroup \/ ensureFusionOperatorCatalogSource
       \/ ensureFusionOperatorSubscription
       \/ waitForFusionOperatorCSVSucceeded \/ CSVWaitFails \/ ensureOdfManager
    /\ UNCHANGED <<calm, report, install, catalogsource, storage>>

Save ==
    /\ WriteMigrationProgress
    /\ UNCHANGED <<report, install, catalogsource, storage, fusion>>

ToolStep ==
    PreflightStep \/ CatalogStep \/ OpaqueStep \/ StorageStep \/ FusionStep \/ Save

\* What the pod had in memory is gone.
PodStops ==
    /\ PodFails \/ AnswerLost
    /\ todo' = {}
    /\ UNCHANGED <<report, install, catalogsource, classes, taken, listed, fusion>>

NextPod(dryRun) ==
    /\ StartPod(dryRun)
    /\ UNCHANGED <<report, install, catalogsource, storage, fusion>>

\* Filesystems come up and fail, which is of no account while nobody looks; once all is
\* calm they only recover.
FilesystemsChange(f) ==
    /\ calm \/ pc \in {"filesystems", "list_filesystems", "verify"}
    /\ \E status \in Reports :
          /\ calm => /\ f \in present /\ ~ScaleFilesystemReportsHealthy(report[f])
                     /\ ScaleFilesystemReportsHealthy(status)
          /\ FilesystemShows(f, status)
    /\ UNCHANGED <<flow, calm, install, catalogsource, storage, fusion>>

ClusterChanges ==
    /\ AdministratorChanges
    /\ UNCHANGED <<flow, calm, report, catalogsource, storage, fusion>>

RegistryStep ==
    /\ RegistryServes \/ RegistryReports \/ RegistryDown
    /\ UNCHANGED <<flow, calm, report, install, storage, fusion>>

OLMStep ==
    /\ OLMResolves \/ OLMInstalls \/ SomeoneInstalls
    /\ UNCHANGED <<flow, calm, report, install, catalogsource, storage>>

\* From some moment on nothing fails or changes by itself any more.
Calm ==
    /\ ~calm /\ calm' = TRUE
    /\ UNCHANGED <<flow, report, install, catalogsource, storage, fusion>>

Next ==
    \/ ToolStep \/ PodStops \/ \E dryRun \in BOOLEAN : NextPod(dryRun)
    \/ \E f \in Filesystems : FilesystemsChange(f)
    \/ ClusterChanges \/ RegistryStep \/ OLMStep \/ Calm

Spec == Init /\ [][Next]_vars

\* Polls have deadlines, a failed Job is applied again, and what the tool waits for
\* comes in the end.
Fairness ==
    /\ WF_vars(ToolStep)
    /\ WF_vars(calm /\ NextPod(FALSE))
    /\ \A f \in Filesystems : WF_vars(calm /\ FilesystemsChange(f))
    /\ WF_vars(RegistryStep /\ RegistryServes) /\ WF_vars(RegistryStep /\ RegistryReports)
    /\ WF_vars(OLMStep /\ OLMResolves) /\ WF_vars(OLMStep /\ OLMInstalls)

FairSpec == Spec /\ Fairness

-----------------------------------------------------------------------------
(* Properties *)

Calls == {Checks[i] : i \in DOMAIN Checks}
    \cup {"index", "index_wait", "acts", "returns", "list_filesystems", "classes", "verify",
          "namespace", "group", "catalog", "subscription", "csv_wait", "odf_manager",
          "save", "ended", "refused"}

TypeOK ==
    /\ phase \in 1..8 /\ pc \in Calls /\ dry \in BOOLEAN /\ resuming \in BOOLEAN
    /\ checkpoint \in 0..7 /\ begun \in SUBSET (1..7) /\ done \in SUBSET (1..7)
    /\ calm \in BOOLEAN
    /\ present \in SUBSET Filesystems /\ report \in [present -> Reports]
    /\ install \in Installation
    /\ index \in Index /\ inherited \in BOOLEAN
    /\ todo \in SUBSET (Filesystems \X Kinds) /\ listed \in SUBSET Filesystems
    /\ classes \subseteq {Class(w) : w \in Filesystems \X Kinds} /\ taken \in Takable
    /\ fusionNS \in BOOLEAN /\ groups \in SUBSET Group /\ odfManager \in BOOLEAN
    /\ catalog \in Catalogs /\ sub \in Origins /\ current \in CSVs /\ installed \in CSVs

\* preflight.go, main.go:28-33: preflight refuses, with the code that tells the Job not to
\* retry, only clusters of which nothing was changed yet, whatever pods and dry runs came
\* before.  (MigrationJob has the other ways to that code.)
RefusalIsHarmless ==
    pc = "refused" /\ ~dry => /\ begun \subseteq {1} /\ classes = {} /\ catalog # "wanted"

\* validation.go, fdf_version.go: the cluster on which the changes begin is one the later
\* phases can handle, although preflight is only run once and its branch for a pod that
\* resumes lets FDF 4.21 pass.
Supported ==
    /\ install.met = Requirements /\ install.namespaces = Namespaces
    /\ \A s \in OdfSubs : install.odf[s] \in {"none", "4.20"}
    /\ install.signing \in {{}, SigningPair}

OnlySupported == checkpoint > 0 /\ 4 \notin begun => Supported

\* catalogsource.go:19-20: FDF is installed from the index of this release.  (The READY of an
\* older image of the same CatalogSource passes for that of the new one.)
IndexServed == checkpoint >= 2 /\ ~inherited => index.served = "wanted"

\* storageclass.go:87-110: after phase 6 every Filesystem it listed has a class of its own
\* for each kind of volume, unless the name belonged to somebody else, or to the class
\* of another Filesystem; and without a restart in between there is no such exception.
OwnName(w) ==
    /\ Class(w).name \notin taken
    /\ \A v \in Filesystems \X Kinds : v # w => ClassName[v] # ClassName[w]

ClassesMatch ==
    checkpoint >= 6 =>
        \A w \in listed \X Kinds : OwnName(w) \/ ~(dry \/ resuming) => Class(w) \in classes

\* fusion_operator.go:19-33: a migration that is complete has the operator and the OdfManager,
\* whoever else was installing it; that of the tool, if nobody was.
FusionInstalled ==
    checkpoint = 7 =>
        /\ fusionNS /\ odfManager /\ installed = current
        /\ installed \in {"wanted", "foreign"}
        /\ catalog = "wanted" /\ sub = "wanted" => installed = "wanted"

\* README.md:86, each "if mc.DryRun": no call of a dry run changes the cluster.
DryRunWritesNothing ==
    [][dry /\ dry' /\ ~UNCHANGED <<flow, todo>> =>
          /\ UNCHANGED <<checkpoint, begun, done, install, catalogsource, classes, listed>>
          /\ UNCHANGED fusion]_vars

\* With the phases called step by step, the pods still climb the ladder.
Ladder == INSTANCE PhaseLadder WITH NumPhases <- 7, climbed <- done, saved <- checkpoint
ImplementsLadder == Ladder!Spec

\* Once failures stop, the migration of a supported cluster that has a Filesystem gets
\* done: no refusal, StorageClass or object of the Fusion operator that is there already
\* is in the way for good, but for what phase 7 accepts without looking at it or does not look
\* for: a second OperatorGroup or one that does not cover the namespace, a Subscription for
\* something else, a CatalogSource without the operator (fusion_operator.go:193-200).
Unobstructed ==
    /\ \A g \in groups : groups = {g} /\ g.covers
    /\ sub # "foreign" /\ catalog # "lacking"

\* fusion_operator.go:102-366: where the tool waits for the Fusion operator and nobody else
\* is in the way, its CSV has Succeeded, or is being installed, or OLM has all it needs to
\* find it, whatever the pods before left undone.  In the way are another OperatorGroup, a
\* Subscription of somebody else, which may be for something else, and a CatalogSource that has
\* not got the operator: phase 7 goes on with any of them, and its wait may then be in vain.
FusionCanCome ==
    pc = "csv_wait" /\ ~dry /\ Unobstructed =>
        \/ CSVSucceeded
        \/ installed # current
        \/ /\ sub = "wanted" /\ catalog \in Serving /\ current = "none"
           /\ \E g \in groups : groups = {g} /\ g.covers

Acceptable == Supported /\ ValidateLocalDisksReadyIfPresent

MigrationEnds ==
    calm /\ present # {} /\ (checkpoint > 0 \/ Acceptable) /\ Unobstructed
        ~> checkpoint = 7
=============================================================================
