-------------------------- MODULE MigrationProofs ----------------------------
(***************************************************************************)
(* Theorems about Migration, for any Filesystems, statuses, StorageClass   *)
(* names and installations.                                                *)
(***************************************************************************)
EXTENDS Migration, TLAPS

\* The calls of each phase.
PreflightCalls == {"connectivity", "ocp_version", "existing_installs", "namespaces",
                   "cluster_health", "scale_cluster", "filesystems", "local_disks",
                   "signing_secrets"}
StorageCalls == {"list_filesystems", "classes", "verify"}
FusionCalls == {"namespace", "group", "catalog", "subscription", "csv_wait", "odf_manager"}

LEMMA CheckFacts ==
    /\ Len(Checks) = 9 /\ DOMAIN Checks = 1..9
    /\ \A i \in 1..9 : Checks[i] \in PreflightCalls
    /\ Checks[1] = "connectivity" /\ Checks[2] = "ocp_version"
    /\ Checks[3] = "existing_installs" /\ Checks[4] = "namespaces"
    /\ Checks[5] = "cluster_health" /\ Checks[6] = "scale_cluster"
    /\ Checks[7] = "filesystems" /\ Checks[8] = "local_disks"
    /\ Checks[9] = "signing_secrets"
<1>1. Len(Checks) = 9 /\ DOMAIN Checks = 1..9
  BY DEF Checks
<1>2. /\ Checks[1] = "connectivity" /\ Checks[2] = "ocp_version"
      /\ Checks[3] = "existing_installs" /\ Checks[4] = "namespaces"
      /\ Checks[5] = "cluster_health" /\ Checks[6] = "scale_cluster"
      /\ Checks[7] = "filesystems" /\ Checks[8] = "local_disks"
      /\ Checks[9] = "signing_secrets"
  BY DEF Checks
<1>3. ASSUME NEW i \in 1..9
      PROVE  Checks[i] \in PreflightCalls
  <2>1. i \in {1, 2, 3, 4, 5, 6, 7, 8, 9}
    OBVIOUS
  <2> QED
    BY <1>2, <2>1 DEF PreflightCalls
<1> QED
  BY <1>1, <1>2, <1>3

LEMMA ChecksDiffer ==
    ASSUME NEW m \in 1..9, NEW n \in 1..9, Checks[m] = Checks[n]
    PROVE  m = n
<1>1. m \in {1, 2, 3, 4, 5, 6, 7, 8, 9} /\ n \in {1, 2, 3, 4, 5, 6, 7, 8, 9}
  OBVIOUS
<1> HIDE DEF Checks
<1> QED
  BY <1>1, CheckFacts

LEMMA CallFacts ==
    Calls = PreflightCalls \cup StorageCalls \cup FusionCalls
            \cup {"index", "index_wait", "acts", "returns", "save", "ended", "refused"}
<1>1. {Checks[i] : i \in 1..9} = PreflightCalls
  <2>1. PreflightCalls \subseteq {Checks[i] : i \in 1..9}
    BY CheckFacts DEF PreflightCalls
  <2> QED
    BY <2>1, CheckFacts
<1> QED
  BY <1>1, CheckFacts DEF Calls, PreflightCalls, StorageCalls, FusionCalls

-----------------------------------------------------------------------------
(* The pods and the checkpoint *)

Located(k, c) ==
    /\ c \in PreflightCalls => k = 1
    /\ c \in {"index", "index_wait"} => k = 2
    /\ c \in {"acts", "returns"} => k \in 2..5
    /\ c \in StorageCalls => k = 6
    /\ c \in FusionCalls => k = 7
    /\ c \in {"save", "refused"} => k \in 1..7

FlowType ==
    /\ phase \in 1..8 /\ pc \in Calls /\ dry \in BOOLEAN /\ resuming \in BOOLEAN
    /\ checkpoint \in 0..7 /\ begun \in SUBSET (1..7) /\ done \in SUBSET (1..7)

\* A pod at work that is not a dry run is in the phase after the checkpoint.
FlowInv ==
    /\ FlowType
    /\ Located(phase, pc)
    /\ pc = "save" => ~dry /\ phase \in done
    /\ ~Ended /\ ~dry => checkpoint = phase - 1 /\ phase \in begun
    /\ ~Ended /\ phase = 1 => ~resuming
    /\ pc = "refused" /\ ~dry => checkpoint = 0
    /\ 1..checkpoint \subseteq done /\ done \subseteq 1..(checkpoint + 1)
    /\ 1..checkpoint \subseteq begun /\ begun \subseteq 1..(checkpoint + 1)

LEMMA GotoStep ==
    ASSUME FlowInv, ~Ended, NEW c \in Calls \ {"save"}, Located(phase, c),
           c = "refused" => phase = 1, Goto(c)
    PROVE  FlowInv'
<1>1. FlowType' /\ Located(phase, pc)'
  BY DEF FlowInv, FlowType, Located, Goto
<1> QED
  BY <1>1 DEF FlowInv, FlowType, Goto, Ended

LEMMA FirstFacts ==
    ASSUME NEW k \in 1..8
    PROVE  /\ First(k) \in Calls \ {"save", "refused"} /\ Located(k, First(k))
           /\ First(k) = "ended" <=> k = 8
<1>1. k \in {1, 2, 3, 4, 5, 6, 7, 8}
  OBVIOUS
<1>2. /\ First(1) = "connectivity" /\ First(2) = "index" /\ First(3) = "acts"
      /\ First(4) = "acts" /\ First(5) = "acts" /\ First(6) = "list_filesystems"
      /\ First(7) = "namespace" /\ First(8) = "ended"
  BY DEF First
<1> QED
  BY <1>1, <1>2, CallFacts
     DEF Located, PreflightCalls, StorageCalls, FusionCalls

LEMMA ReturnStep ==
    ASSUME FlowInv, ~Ended, pc # "save", ReturnNil
    PROVE  FlowInv'
<1>1. phase \in 1..7
  BY CallFacts DEF FlowInv, FlowType, Located, Ended
<1>2. CASE dry /\ Enter(phase + 1, TRUE) /\ UNCHANGED <<dry, resuming, checkpoint, done>>
  <2>1. phase + 1 \in 1..8 /\ phase + 1 # 1
    BY <1>1
  <2>2. phase' = phase + 1 /\ pc' = First(phase + 1) /\ begun' = begun
    BY <1>2 DEF Enter
  <2> QED
    BY <1>2, <2>1, <2>2, FirstFacts DEF FlowInv, FlowType, Ended
<1>3. CASE ~dry /\ pc' = "save" /\ done' = done \cup {phase}
           /\ UNCHANGED <<phase, dry, resuming, checkpoint, begun>>
  BY <1>1, <1>3, CallFacts
     DEF FlowInv, FlowType, Located, Ended, PreflightCalls, StorageCalls, FusionCalls
<1> QED
  BY <1>2, <1>3 DEF ReturnNil

LEMMA SaveStep ==
    ASSUME FlowInv, WriteMigrationProgress
    PROVE  FlowInv'
<1>1. phase \in 1..7 /\ pc = "save" /\ ~dry /\ ~Ended
  BY DEF FlowInv, Located, WriteMigrationProgress, Ended
<1>2. phase + 1 \in 1..8 /\ phase + 1 # 1
  BY <1>1
<1>3. /\ phase' = phase + 1 /\ pc' = First(phase + 1) /\ checkpoint' = phase
      /\ begun' = IF phase + 1 = 8 THEN begun ELSE begun \cup {phase + 1}
      /\ UNCHANGED <<dry, resuming, done>>
  BY DEF WriteMigrationProgress, Enter
<1> QED
  BY <1>1, <1>2, <1>3, FirstFacts DEF FlowInv, FlowType, Ended

LEMMA LostStep ==
    ASSUME FlowInv, AnswerLost
    PROVE  FlowInv'
<1>1. phase \in 1..7 /\ pc = "save" /\ ~dry /\ ~Ended
  BY DEF FlowInv, Located, AnswerLost, Ended
<1>2. Located(phase, "ended") /\ "ended" \in Calls
  BY CallFacts DEF Located, PreflightCalls, StorageCalls, FusionCalls
<1> QED
  BY <1>1, <1>2 DEF AnswerLost, FlowInv, FlowType, Ended

LEMMA StartStep ==
    ASSUME FlowInv, NEW dryRun \in BOOLEAN, StartPod(dryRun)
    PROVE  FlowInv'
<1> DEFINE k == StartAt(dryRun)
<1>1. k \in 1..8 /\ k # 8
  BY DEF StartPod, StartAt, FlowInv, FlowType
<1>2. /\ phase' = k /\ pc' = First(k) /\ dry' = dryRun /\ resuming' = Resumed(dryRun)
      /\ begun' = IF dryRun THEN begun ELSE begun \cup {k}
      /\ UNCHANGED <<checkpoint, done>>
  BY <1>1 DEF StartPod, Enter
<1>3. Resumed(dryRun) \in BOOLEAN /\ (~dryRun => k = checkpoint + 1)
      /\ (k = 1 => ~Resumed(dryRun))
  BY DEF Resumed, StartAt, FlowInv, FlowType
<1> HIDE DEF k
<1>4. FlowType'
  BY <1>1, <1>2, <1>3, FirstFacts DEF FlowInv, FlowType
<1> QED
  BY <1>1, <1>2, <1>3, <1>4, FirstFacts DEF FlowInv, FlowType, Ended

LEMMA FlowStep ==
    ASSUME FlowInv, [Next]_vars
    PROVE  FlowInv'
<1>0. ASSUME UNCHANGED flow
      PROVE  FlowInv'
  BY <1>0 DEF flow, FlowInv, FlowType, Located, Ended
<1>1. ASSUME NEW i \in DOMAIN Checks, CheckPasses(i) \/ CheckRefuses(i)
      PROVE  FlowInv'
  <2>1. i \in 1..9 /\ pc \in PreflightCalls /\ phase = 1
    BY <1>1, CheckFacts DEF CheckPasses, CheckRefuses, FlowInv, Located
  <2>2. ~Ended /\ pc # "save"
    BY <2>1 DEF Ended, PreflightCalls
  <2>3. CASE i < 9 /\ Goto(Checks[i + 1])
    <3>1. Checks[i + 1] \in PreflightCalls
      BY <2>1, <2>3, CheckFacts
    <3> HIDE DEF Checks
    <3> QED
      BY <2>1, <2>2, <2>3, <3>1, GotoStep, CallFacts
         DEF Located, PreflightCalls, StorageCalls, FusionCalls
  <2>4. CASE ReturnNil
    BY <2>2, <2>4, ReturnStep
  <2>5. CASE Refuse
    BY <2>1, <2>2, <2>5, GotoStep, CallFacts
       DEF Refuse, Located, PreflightCalls, StorageCalls, FusionCalls
  <2> QED
    BY <1>1, <2>1, <2>3, <2>4, <2>5, CheckFacts DEF CheckPasses, CheckRefuses
<1>2. ASSUME ~Ended, ReturnError
      PROVE  FlowInv'
  BY <1>2, GotoStep, CallFacts
     DEF ReturnError, Located, PreflightCalls, StorageCalls, FusionCalls
<1>3. CASE CatalogStep
  <2>1. pc \in {"index", "index_wait"} /\ phase = 2 /\ ~Ended
    BY <1>3 DEF CatalogStep, EnsureFDFCatalogSource, waitFDFCatalogSourceReady, IndexDeadline,
                FlowInv, Located, Ended
  <2>2. CASE \E c \in {"index_wait", "acts"} : Goto(c)
    BY <2>1, <2>2, GotoStep, CallFacts
       DEF Located, PreflightCalls, StorageCalls, FusionCalls
  <2> QED
    BY <1>2, <1>3, <2>1, <2>2
       DEF CatalogStep, EnsureFDFCatalogSource, waitFDFCatalogSourceReady, IndexDeadline
<1>4. CASE OpaqueStep
  <2>1. pc \in {"acts", "returns"} /\ phase \in 2..5 /\ ~Ended
    BY <1>4 DEF OpaqueStep, PhaseActs, PhaseReturns, FlowInv, Located, Ended
  <2>2. CASE Goto("returns")
    BY <2>1, <2>2, GotoStep, CallFacts
       DEF Located, PreflightCalls, StorageCalls, FusionCalls
  <2> QED
    BY <1>4, <2>1, <2>2, ReturnStep DEF OpaqueStep, PhaseActs, PhaseReturns
<1>5. CASE StorageStep
  <2>1. pc \in StorageCalls /\ phase = 6 /\ ~Ended /\ pc # "save"
    BY <1>5 DEF StorageStep, ListFilesystems, ClassesDone, ensureStorageClass,
                VerifyFilesystemRecovery, RecoveryDeadline, FlowInv, Located, Ended, StorageCalls
  <2>2. CASE \E c \in {"classes", "verify"} : Goto(c)
    BY <2>1, <2>2, GotoStep, CallFacts
       DEF Located, PreflightCalls, StorageCalls, FusionCalls
  <2> QED
    BY <1>2, <1>5, <2>1, <2>2, ReturnStep
       DEF StorageStep, ListFilesystems, ClassesDone, ensureStorageClass,
           VerifyFilesystemRecovery, RecoveryDeadline
<1>6. CASE FusionStep
  <2>1. pc \in FusionCalls /\ phase = 7 /\ ~Ended /\ pc # "save"
    BY <1>6 DEF FusionStep, EnsureNamespace, ensureFusionOperatorGroup,
                ensureFusionOperatorCatalogSource, ensureFusionOperatorSubscription,
                waitForFusionOperatorCSVSucceeded, CSVWaitFails, ensureOdfManager,
                FlowInv, Located, Ended, FusionCalls
  <2>2. CASE \E c \in {"group", "catalog", "subscription", "csv_wait", "odf_manager"} : Goto(c)
    BY <2>1, <2>2, GotoStep, CallFacts
       DEF Located, PreflightCalls, StorageCalls, FusionCalls
  <2> QED
    BY <1>2, <1>6, <2>1, <2>2, ReturnStep
       DEF FusionStep, EnsureNamespace, ensureFusionOperatorGroup,
           ensureFusionOperatorCatalogSource, ensureFusionOperatorSubscription,
           waitForFusionOperatorCSVSucceeded, CSVWaitFails, ensureOdfManager
<1>7. CASE PodStops
  BY <1>2, <1>7, LostStep DEF PodStops, PodFails
<1> QED
  BY <1>0, <1>1, <1>3, <1>4, <1>5, <1>6, <1>7, SaveStep, StartStep
     DEF Next, ToolStep, PreflightStep, Save, NextPod, FilesystemsChange, ClusterChanges,
         RegistryStep, OLMStep, Calm, vars

\* Where the steps of the phases lead.
LEMMA CatalogMoves ==
    ASSUME FlowInv, CatalogStep
    PROVE  /\ phase = 2 /\ phase' = 2 /\ pc' \in {"index_wait", "acts", "ended"}
           /\ UNCHANGED <<dry, resuming, checkpoint, begun>>
<1>1. pc \in {"index", "index_wait"}
  BY DEF CatalogStep, EnsureFDFCatalogSource, waitFDFCatalogSourceReady, IndexDeadline
<1> QED
  BY <1>1 DEF CatalogStep, EnsureFDFCatalogSource, waitFDFCatalogSourceReady, IndexDeadline,
              Goto, ReturnError, FlowInv, Located

LEMMA OpaqueMoves ==
    ASSUME FlowInv, OpaqueStep
    PROVE  /\ phase \in 2..5 /\ ~Ended /\ UNCHANGED <<dry, resuming, checkpoint, begun>>
           /\ \/ phase' = phase /\ pc' \in {"returns", "save"}
              \/ dry /\ phase' = phase + 1 /\ pc' = First(phase + 1)
<1>1. pc \in {"acts", "returns"}
  BY DEF OpaqueStep, PhaseActs, PhaseReturns
<1>2. phase \in 2..5 /\ ~Ended
  BY <1>1 DEF FlowInv, Located, Ended
<1>3. Goto("returns") \/ ReturnNil
  BY DEF OpaqueStep, PhaseActs, PhaseReturns
<1>4. CASE Goto("returns")
  BY <1>2, <1>4 DEF Goto
<1>5. CASE ReturnNil
  BY <1>2, <1>5 DEF ReturnNil, Enter
<1> QED
  BY <1>3, <1>4, <1>5

LEMMA StorageMoves ==
    ASSUME FlowInv, StorageStep
    PROVE  /\ phase = 6 /\ UNCHANGED <<dry, resuming, checkpoint, begun>>
           /\ \/ phase' = 6 /\ pc' \in {"classes", "verify", "save", "ended"}
              \/ dry /\ phase' = 7 /\ pc' = "namespace"
<1>1. pc \in StorageCalls
  BY DEF StorageStep, ListFilesystems, ClassesDone, ensureStorageClass,
         VerifyFilesystemRecovery, RecoveryDeadline, StorageCalls
<1>2. phase = 6
  BY <1>1 DEF FlowInv, Located
<1>3. (\E c \in {"classes", "verify", "ended"} : Goto(c)) \/ ReturnNil
  BY DEF StorageStep, ListFilesystems, ClassesDone, ensureStorageClass,
         VerifyFilesystemRecovery, RecoveryDeadline, ReturnError
<1>4. CASE \E c \in {"classes", "verify", "ended"} : Goto(c)
  BY <1>2, <1>4 DEF Goto
<1>5. CASE ReturnNil
  BY <1>2, <1>5 DEF ReturnNil, Enter, First
<1> QED
  BY <1>3, <1>4, <1>5

LEMMA FusionMoves ==
    ASSUME FlowInv, FusionStep
    PROVE  /\ phase = 7 /\ UNCHANGED <<dry, resuming, checkpoint, begun>>
           /\ \/ /\ phase' = 7
                 /\ pc' \in {"group", "catalog", "subscription", "csv_wait", "odf_manager",
                             "save", "ended"}
              \/ dry /\ phase' = 8 /\ pc' = "ended"
<1>1. pc \in FusionCalls
  BY DEF FusionStep, EnsureNamespace, ensureFusionOperatorGroup,
         ensureFusionOperatorCatalogSource, ensureFusionOperatorSubscription,
         waitForFusionOperatorCSVSucceeded, CSVWaitFails, ensureOdfManager, FusionCalls
<1>2. phase = 7
  BY <1>1 DEF FlowInv, Located
<1>3. \/ \E c \in {"group", "catalog", "subscription", "csv_wait", "odf_manager", "ended"} :
           Goto(c)
      \/ ReturnNil
  BY DEF FusionStep, EnsureNamespace, ensureFusionOperatorGroup,
         ensureFusionOperatorCatalogSource, ensureFusionOperatorSubscription,
         waitForFusionOperatorCSVSucceeded, CSVWaitFails, ensureOdfManager, ReturnError
<1>4. CASE \E c \in {"group", "catalog", "subscription", "csv_wait", "odf_manager", "ended"} :
           Goto(c)
  BY <1>2, <1>4 DEF Goto
<1>5. CASE ReturnNil
  BY <1>2, <1>5 DEF ReturnNil, Enter, First
<1> QED
  BY <1>3, <1>4, <1>5

-----------------------------------------------------------------------------
(* The Filesystems and the CatalogSource of FDF *)

FilesInv == present \in SUBSET Filesystems /\ report \in [present -> Reports]

LEMMA FilesStep ==
    ASSUME FilesInv, [Next]_vars
    PROVE  FilesInv'
<1>1. CASE UNCHANGED report
  BY <1>1 DEF FilesInv, present
<1>2. ASSUME NEW f \in Filesystems, FilesystemsChange(f)
      PROVE  FilesInv'
  BY <1>2 DEF FilesystemsChange, FilesystemShows, FilesInv, present
<1> QED
  BY <1>1, <1>2
     DEF Next, ToolStep, PreflightStep, CatalogStep, OpaqueStep, StorageStep, FusionStep, Save,
         PodStops, NextPod, ClusterChanges, RegistryStep, OLMStep, Calm, vars

\* What READY says: something is served, and without an older image it is the one wanted.
IndexInv ==
    /\ index \in Index /\ inherited \in BOOLEAN
    /\ index.served # "none" => index.image # "none"
    /\ index.ready => index.served # "none"
    /\ ~inherited => index.image # "other" /\ index.served # "other"
    /\ ~dry /\ phase = 2 /\ pc \in {"acts", "returns", "save"} => index.served # "none"
    /\ checkpoint >= 2 => index.served # "none"

\* Steps of the pod that leave phase 2 alone, or run no further in it than its first call.
LEMMA IndexFrame ==
    ASSUME IndexInv, UNCHANGED catalogsource,
           ~dry' /\ phase' = 2 /\ pc' \in {"acts", "returns", "save"} => index.served # "none",
           checkpoint' >= 2 => index.served # "none"
    PROVE  IndexInv'
  BY DEF IndexInv, catalogsource

LEMMA IndexStep ==
    ASSUME FlowInv, IndexInv, [Next]_vars
    PROVE  IndexInv'
<1> USE DEF FlowInv, FlowType, Located
<1>1. CASE PreflightStep
  <2>1. phase = 1 /\ ~Ended /\ pc # "save" /\ UNCHANGED <<checkpoint, catalogsource>>
    BY <1>1, CheckFacts
       DEF PreflightStep, CheckPasses, CheckRefuses, PreflightCalls, Ended, ReturnNil, Goto,
           Refuse
  <2>2. phase' = 2 => dry' \/ pc' \notin {"acts", "returns", "save"}
    <3>1. ASSUME ReturnNil PROVE phase' = 1 \/ pc' = "index"
      BY <2>1, <3>1 DEF ReturnNil, Enter, First
    <3>2. ASSUME NEW c, Goto(c) PROVE phase' = 1
      BY <2>1, <3>2 DEF Goto
    <3> QED
      BY <1>1, <3>1, <3>2 DEF PreflightStep, CheckPasses, CheckRefuses, Refuse
  <2> QED
    BY <2>1, <2>2, IndexFrame DEF IndexInv
<1>2. CASE CatalogStep
  <2>1. phase' = 2 /\ phase = 2 /\ UNCHANGED <<dry, checkpoint, inherited>>
    BY <1>2 DEF CatalogStep, EnsureFDFCatalogSource, waitFDFCatalogSourceReady, IndexDeadline,
                Goto, ReturnError, catalogsource
  <2>2. CASE EnsureFDFCatalogSource
    <3>1. CASE dry
      BY <2>1, <2>2, <3>1 DEF EnsureFDFCatalogSource, IndexInv
    <3>2. CASE ~dry
      <4>1. /\ pc' = "index_wait"
            /\ index' = [image |-> "wanted", served |-> index.served, ready |-> index.ready]
        BY <2>2, <3>2 DEF EnsureFDFCatalogSource, Goto
      <4>2. /\ index' \in Index /\ index'.image = "wanted" /\ index'.served = index.served
            /\ index'.ready = index.ready
        BY <4>1 DEF IndexInv, Index, Images
      <4> QED
        BY <2>1, <4>1, <4>2 DEF IndexInv
    <3> QED
      BY <3>1, <3>2
  <2>3. CASE waitFDFCatalogSourceReady
    BY <2>1, <2>3 DEF waitFDFCatalogSourceReady, IndexReady, catalogsource, IndexInv
  <2>4. CASE IndexDeadline
    BY <2>1, <2>4 DEF IndexDeadline, ReturnError, Goto, catalogsource, IndexInv
  <2> QED
    BY <1>2, <2>2, <2>3, <2>4 DEF CatalogStep
<1>3. CASE OpaqueStep
  <2>1. UNCHANGED catalogsource /\ pc \in {"acts", "returns"}
    BY <1>3 DEF OpaqueStep, PhaseActs, PhaseReturns
  <2>2. phase' = 2 /\ ~dry' => phase = 2 /\ ~dry
    BY <1>3, OpaqueMoves
  <2> QED
    BY <1>3, <2>1, <2>2, OpaqueMoves, IndexFrame DEF IndexInv
<1>4. CASE StorageStep \/ FusionStep
  <2>1. UNCHANGED <<checkpoint, catalogsource>> /\ phase' # 2
    BY <1>4, StorageMoves, FusionMoves DEF StorageStep, FusionStep
  <2> QED
    BY <2>1, IndexFrame DEF IndexInv
<1>5. CASE Save
  <2>1. pc = "save" /\ ~dry /\ checkpoint' = phase /\ checkpoint = phase - 1
        /\ phase' = phase + 1 /\ pc' = First(phase + 1) /\ UNCHANGED catalogsource
    BY <1>5 DEF Save, WriteMigrationProgress, Enter, Ended
  <2>2. phase' = 2 => pc' = "index"
    BY <2>1 DEF First
  <2>3. phase \in 1..7
    BY <2>1
  <2> QED
    BY <2>1, <2>2, <2>3, IndexFrame DEF IndexInv
<1>6. CASE PodStops
  <2>1. /\ pc' = "ended" /\ UNCHANGED catalogsource
        /\ \/ checkpoint' = checkpoint
           \/ pc = "save" /\ ~dry /\ checkpoint' = phase /\ checkpoint = phase - 1
    BY <1>6 DEF PodStops, PodFails, AnswerLost, ReturnError, Goto, Ended
  <2> QED
    BY <2>1, IndexFrame DEF IndexInv
<1>7. ASSUME NEW dryRun \in BOOLEAN, NextPod(dryRun)
      PROVE  IndexInv'
  <2>1. UNCHANGED <<checkpoint, catalogsource>> /\ pc' = First(phase')
    BY <1>7 DEF NextPod, StartPod, Enter
  <2>2. phase' = 2 => pc' = "index"
    BY <2>1 DEF First
  <2> QED
    BY <2>1, <2>2, IndexFrame DEF IndexInv
<1>8. CASE RegistryStep
  <2>1. index' \in Index
    <3>1. index.image \in Images /\ index.served \in Images /\ index.ready \in BOOLEAN
      BY DEF IndexInv, Index
    <3>2. ASSUME NEW image \in Images, NEW served \in Images, NEW ready \in BOOLEAN
          PROVE  [image |-> image, served |-> served, ready |-> ready] \in Index
      BY DEF Index
    <3> QED
      BY <1>8, <3>1, <3>2 DEF RegistryStep, RegistryServes, RegistryReports, RegistryDown
  <2>2. CASE RegistryServes
    <3>1. index'.image = index.image /\ index'.served = index.image /\ index'.ready = index.ready
      BY <2>2 DEF RegistryServes
    <3>2. index.image # "none"
      BY <2>2 DEF RegistryServes, IndexInv
    <3> QED
      BY <1>8, <2>1, <2>2, <3>1, <3>2 DEF RegistryStep, RegistryServes, flow, IndexInv
  <2>3. CASE RegistryReports \/ RegistryDown
    <3>1. /\ index'.image = index.image /\ index'.served = index.served
          /\ index'.ready => index.served # "none"
      BY <2>3 DEF RegistryReports, RegistryDown
    <3> QED
      BY <1>8, <2>1, <2>3, <3>1 DEF RegistryStep, RegistryReports, RegistryDown, flow, IndexInv
  <2> QED
    BY <1>8, <2>2, <2>3 DEF RegistryStep
<1>9. CASE UNCHANGED <<flow, catalogsource>>
  BY <1>9, IndexFrame DEF flow, IndexInv
<1> QED
  BY <1>1, <1>2, <1>3, <1>4, <1>5, <1>6, <1>7, <1>8, <1>9
     DEF Next, ToolStep, FilesystemsChange, ClusterChanges, OLMStep, Calm, vars
-----------------------------------------------------------------------------
(* What preflight has seen of the cluster *)

\* The checks before the one at hand passed on the cluster as it is; the Filesystems may
\* have changed since.
Judged ==
    ~dry => \A i \in 1..9 : pc = Checks[i] =>
                \A j \in 1..(i - 1) : j # 7 => Passes(Checks[j])

InstallInv ==
    /\ install \in Installation
    /\ Judged
    /\ ~dry /\ phase = 1 /\ pc = "save" => Supported
    /\ checkpoint > 0 /\ 4 \notin begun => Supported

LEMMA AfterPhaseFacts ==
    ASSUME NEW i \in Installation, NEW k \in 2..5
    PROVE  AfterPhase(k, i) \in Installation /\ (k \in {2, 3} => AfterPhase(k, i) = i)
<1> HIDE DEF Disk
<1>1. CASE k = 4
  <2>1. AfterPhase(k, i) = [i EXCEPT !.odf["odf-operator"] = "4.21"]
    BY <1>1 DEF AfterPhase
  <2> DEFINE odf == [i.odf EXCEPT !["odf-operator"] = "4.21"]
  <2>2. odf \in [OdfSubs -> OdfVersions]
    BY DEF Installation, OdfSubs, OdfVersions
  <2>3. AfterPhase(k, i) = [met |-> i.met, namespaces |-> i.namespaces, odf |-> odf,
                            signing |-> i.signing, disks |-> i.disks]
    BY <2>1 DEF Installation
  <2> HIDE DEF odf
  <2> QED
    BY <1>1, <2>2, <2>3 DEF Installation
<1>2. CASE k = 5
  <2>1. AfterPhase(k, i) =
           [i EXCEPT !.namespaces = i.namespaces \ {"ibm-fusion-access"}, !.signing = {}]
    BY <1>2 DEF AfterPhase
  <2> DEFINE left == i.namespaces \ {"ibm-fusion-access"}
  <2>2. left \in SUBSET Namespaces
    BY DEF Installation
  <2> HIDE DEF left
  <2>3. AfterPhase(k, i) = [met |-> i.met, namespaces |-> left, odf |-> i.odf,
                            signing |-> {}, disks |-> i.disks]
    BY <2>1 DEF Installation, left
  <2> QED
    BY <1>2, <2>2, <2>3 DEF Installation
<1>3. CASE k \in {2, 3}
  BY <1>3 DEF AfterPhase
<1> QED
  BY <1>1, <1>2, <1>3

\* All the checks that are not about Filesystems amount to a cluster that is supported.
LEMMA PassedMeansSupported ==
    ASSUME install \in Installation, ~resuming,
           \A j \in 1..9 : j # 7 => Passes(Checks[j])
    PROVE  Supported
<1> USE CheckFacts
<1>1. /\ Passes("connectivity") /\ Passes("ocp_version") /\ Passes("existing_installs")
      /\ Passes("namespaces") /\ Passes("cluster_health") /\ Passes("scale_cluster")
      /\ Passes("signing_secrets")
  OBVIOUS
<1>2. install.met = Requirements
  <2>1. "connectivity" \in install.met /\ "ocp_version" \in install.met
        /\ "cluster_health" \in install.met /\ "scale_cluster" \in install.met
    BY <1>1 DEF Passes, Requirements
  <2>2. install.met \in SUBSET Requirements
    BY DEF Installation
  <2> QED
    BY <2>1, <2>2 DEF Requirements
<1>3. install.namespaces = Namespaces
  BY <1>1 DEF Passes, Requirements
<1>4. ValidateExistingInstalls
  BY <1>1 DEF Passes, Requirements
<1>5. install.signing \in {{}, SigningPair}
  BY <1>1 DEF Passes, Requirements
<1> QED
  BY <1>2, <1>3, <1>4, <1>5 DEF Supported, ValidateExistingInstalls, FdfOdfPreflightAllowed

LEMMA PassesFrame ==
    ASSUME UNCHANGED <<install, resuming>>, NEW j \in 1..9, j # 7
    PROVE  Passes(Checks[j])' <=> Passes(Checks[j])
<1> USE CheckFacts
<1>0. Checks[j] # "filesystems" /\ Checks[j] \in PreflightCalls
  <2>1. j \in {1, 2, 3, 4, 5, 6, 8, 9}
    OBVIOUS
  <2> QED
    BY <2>1 DEF PreflightCalls
<1>1. ASSUME NEW c \in PreflightCalls, c # "filesystems"
      PROVE  Passes(c)' <=> Passes(c)
  BY <1>1 DEF Passes, ValidateExistingInstalls, FdfOdfPreflightAllowed,
              ValidateLocalDisksReadyIfPresent, PreflightCalls, Requirements
<1>2. Checks[j]' = Checks[j]
  BY DEF Checks
<1> QED
  BY <1>0, <1>1, <1>2

\* Steps that neither change the cluster nor begin or end a check.
LEMMA InstallFrame ==
    ASSUME InstallInv, UNCHANGED install,
           ~dry' => pc' \notin PreflightCalls \ {"connectivity"},
           ~dry' /\ phase' = 1 /\ pc' = "save" => Supported,
           checkpoint' > 0 /\ 4 \notin begun' => Supported
    PROVE  InstallInv'
<1>1. Judged'
  <2> SUFFICES ASSUME ~dry', NEW i \in 1..9, pc' = Checks[i], NEW j \in 1..(i - 1)
               PROVE  FALSE
    BY DEF Judged, Checks
  <2>1. i = 1
    BY CheckFacts DEF PreflightCalls
  <2> QED
    BY <2>1
<1> QED
  BY <1>1 DEF InstallInv, Supported

LEMMA InstallStep ==
    ASSUME FlowInv, InstallInv, [Next]_vars
    PROVE  InstallInv'
<1> USE DEF FlowInv, FlowType, Located
<1>1. ASSUME NEW i \in DOMAIN Checks, CheckPasses(i) \/ CheckRefuses(i)
      PROVE  InstallInv'
  <2>1. /\ i \in 1..9 /\ phase = 1 /\ ~Ended /\ pc = Checks[i]
        /\ UNCHANGED <<checkpoint, install, resuming, dry>>
    <3>1. i \in 1..9 /\ pc = Checks[i] /\ pc \in PreflightCalls /\ UNCHANGED install
      BY <1>1, CheckFacts DEF CheckPasses, CheckRefuses
    <3> HIDE DEF Checks
    <3> QED
      BY <1>1, <3>1
         DEF CheckPasses, CheckRefuses, PreflightCalls, Ended, ReturnNil, Goto, Refuse
  <2>2. begun' = begun \/ dry
    BY <1>1 DEF CheckPasses, CheckRefuses, ReturnNil, Goto, Refuse, Enter
  <2>3. CASE dry
    <3>1. checkpoint > 0 /\ 4 \notin begun' => Supported
      BY <1>1, <2>1, <2>3
         DEF CheckPasses, CheckRefuses, ReturnNil, Goto, Refuse, Enter, InstallInv
    <3>2. Supported' <=> Supported
      BY <2>1 DEF Supported
    <3> QED
      BY <2>1, <2>3, <3>1, <3>2 DEF InstallInv, Judged
  <2>4. CASE ~dry /\ CheckRefuses(i)
    <3>1. pc' = "refused" /\ begun' = begun
      BY <2>4 DEF CheckRefuses, Refuse, Goto
    <3> QED
      BY <2>1, <2>4, <3>1, InstallFrame DEF InstallInv, PreflightCalls
  <2>5. CASE ~dry /\ CheckPasses(i)
    <3>1. \A j \in 1..i : j # 7 => Passes(Checks[j])
      BY <2>1, <2>5 DEF CheckPasses, InstallInv, Judged
    <3>2. CASE i < 9
      <4>1. Goto(Checks[i + 1])
        BY <2>1, <2>5, <3>2, CheckFacts DEF CheckPasses
      <4>2. i + 1 \in 1..9 /\ pc' = Checks[i + 1] /\ begun' = begun /\ phase' = 1
        BY <2>1, <3>2, <4>1 DEF Goto
      <4>3. pc' # "save"
        BY <4>2, CheckFacts DEF PreflightCalls
      <4>4. Judged'
        <5> SUFFICES ASSUME NEW k \in 1..9, pc' = Checks[k], NEW j \in 1..(k - 1), j # 7
                     PROVE  Passes(Checks[j])'
          BY DEF Judged, Checks
        <5>1. k = i + 1
          BY <4>2, ChecksDiffer
        <5>2. j \in 1..i
          BY <2>1, <5>1
        <5>3. j \in 1..9 /\ Passes(Checks[j])
          BY <2>1, <3>1, <5>2
        <5> QED
          BY <2>1, <5>3, PassesFrame
      <4>5. Supported' <=> Supported
        BY <2>1 DEF Supported
      <4> QED
        BY <2>1, <4>2, <4>3, <4>4, <4>5 DEF InstallInv
    <3>3. CASE ~(i < 9)
      <4>1. ReturnNil /\ i = 9
        BY <2>1, <2>5, <3>3, CheckFacts DEF CheckPasses
      <4>2. pc' = "save" /\ begun' = begun
        BY <2>5, <4>1 DEF ReturnNil
      <4>3. Supported
        BY <2>1, <3>1, <4>1, PassedMeansSupported DEF InstallInv, Ended
      <4> QED
        BY <2>1, <4>2, <4>3, InstallFrame DEF InstallInv, PreflightCalls
    <3> QED
      BY <3>2, <3>3
  <2> QED
    BY <1>1, <2>3, <2>4, <2>5
<1>2. CASE CatalogStep \/ StorageStep \/ FusionStep
  <2>1. /\ phase' # 1 /\ pc' \notin PreflightCalls
        /\ UNCHANGED <<install, checkpoint, begun>>
    BY <1>2, CatalogMoves, StorageMoves, FusionMoves
       DEF CatalogStep, StorageStep, FusionStep, PreflightCalls
  <2> QED
    BY <2>1, InstallFrame DEF InstallInv
<1>3. CASE OpaqueStep
  <2>1. pc \in {"acts", "returns"} /\ phase \in 2..5 /\ ~Ended /\ checkpoint' = checkpoint
    BY <1>3 DEF OpaqueStep, PhaseActs, PhaseReturns, Goto, ReturnNil, Ended
  <2>2. CASE UNCHANGED install
    <3>1. /\ begun' = begun /\ phase' # 1
          /\ pc' \in {"returns", "save"} \/ pc' = First(phase + 1)
      BY <1>3, <2>1 DEF OpaqueStep, PhaseActs, PhaseReturns, Goto, ReturnNil, Enter
    <3>2. pc' \notin PreflightCalls
      BY <2>1, <3>1 DEF First, PreflightCalls
    <3> QED
      BY <2>1, <2>2, <3>1, <3>2, InstallFrame DEF InstallInv
  <2>3. CASE PhaseActs /\ ~dry
    <3>1. install' = AfterPhase(phase, install) /\ pc' = "returns" /\ UNCHANGED <<begun, phase>>
      BY <2>3 DEF PhaseActs, Goto
    <3>2. install' \in Installation
      BY <2>1, <3>1, AfterPhaseFacts DEF InstallInv
    <3>3. phase \in {2, 3} \/ 4 \in begun
      BY <2>1, <2>3
    <3>4. Judged'
      BY <3>1, CheckFacts DEF Judged, PreflightCalls, Checks
    <3>5. CASE phase \in {2, 3}
      BY <2>1, <2>2, <3>1, <3>5, AfterPhaseFacts DEF InstallInv
    <3>6. CASE 4 \in begun
      BY <2>1, <3>1, <3>2, <3>4, <3>6 DEF InstallInv
    <3> QED
      BY <3>3, <3>5, <3>6
  <2> QED
    BY <1>3, <2>2, <2>3 DEF OpaqueStep, PhaseActs, PhaseReturns
<1>4. CASE Save
  <2>1. /\ pc = "save" /\ ~dry /\ checkpoint' = phase /\ checkpoint = phase - 1
        /\ phase' = phase + 1 /\ pc' = First(phase + 1) /\ UNCHANGED install
        /\ begun \subseteq begun' /\ phase \in 1..7
    BY <1>4 DEF Save, WriteMigrationProgress, Enter, Ended
  <2>2. pc' \notin PreflightCalls /\ phase' # 1
    BY <2>1 DEF First, PreflightCalls
  <2>3. 4 \notin begun' => Supported
    BY <2>1 DEF InstallInv
  <2> QED
    BY <2>1, <2>2, <2>3, InstallFrame
<1>5. CASE PodStops
  <2>1. /\ pc' = "ended" /\ UNCHANGED <<install, begun>>
        /\ \/ checkpoint' = checkpoint
           \/ pc = "save" /\ ~dry /\ checkpoint' = phase /\ checkpoint = phase - 1
    BY <1>5 DEF PodStops, PodFails, AnswerLost, ReturnError, Goto, Ended
  <2> QED
    BY <2>1, InstallFrame DEF InstallInv, PreflightCalls
<1>6. ASSUME NEW dryRun \in BOOLEAN, NextPod(dryRun)
      PROVE  InstallInv'
  <2>1. /\ UNCHANGED <<checkpoint, install>> /\ dry' = dryRun /\ pc' = First(phase')
        /\ begun \subseteq begun' /\ phase' = StartAt(dryRun)
    BY <1>6 DEF NextPod, StartPod, Enter
  <2>2. phase' \in 1..8
    BY <2>1 DEF StartAt
  <2>3. pc' \notin PreflightCalls \ {"connectivity"} /\ pc' # "save"
    BY <2>1, <2>2 DEF First, PreflightCalls
  <2> QED
    BY <2>1, <2>3, InstallFrame DEF InstallInv
<1>7. CASE ClusterChanges
  <2>1. install' \in Installation /\ Ended /\ checkpoint = 0 /\ UNCHANGED flow
    BY <1>7, InstallationsAssumption DEF ClusterChanges, AdministratorChanges
  <2>2. Judged'
    BY <2>1, CheckFacts DEF Judged, PreflightCalls, Ended, flow, Checks
  <2> QED
    BY <2>1, <2>2 DEF InstallInv, Ended, flow
<1>8. ASSUME UNCHANGED <<flow, install>>
      PROVE  InstallInv'
  <2>1. Judged'
    <3> SUFFICES ASSUME ~dry', NEW i \in 1..9, pc' = Checks[i], NEW j \in 1..(i - 1), j # 7
                 PROVE  Passes(Checks[j])'
      BY DEF Judged, Checks
    <3>1. ~dry /\ pc = Checks[i] /\ j \in 1..9
      BY <1>8 DEF flow
    <3>2. Passes(Checks[j])
      BY <3>1 DEF InstallInv, Judged
    <3> QED
      BY <1>8, <3>1, <3>2, PassesFrame DEF flow
  <2>2. Supported' <=> Supported
    BY <1>8 DEF Supported
  <2> QED
    BY <1>8, <2>1, <2>2 DEF InstallInv, flow
<1> QED
  BY <1>1, <1>2, <1>3, <1>4, <1>5, <1>6, <1>7, <1>8
     DEF Next, ToolStep, PreflightStep, FilesystemsChange, RegistryStep, OLMStep, Calm, vars
-----------------------------------------------------------------------------
(* The StorageClasses *)

StorageType ==
    /\ todo \in SUBSET (Filesystems \X Kinds) /\ listed \in SUBSET Filesystems
    /\ classes \subseteq {Class(w) : w \in Filesystems \X Kinds} /\ taken \in Takable

Served(w) == OwnName(w) \/ ~(dry \/ resuming) => Class(w) \in classes

AllServed == \A w \in listed \X Kinds : Served(w)

Verifying == pc = "verify" \/ (phase = 6 /\ pc = "save")

StorageInv ==
    /\ StorageType
    /\ classes # {} => checkpoint >= 5
    /\ ~dry /\ pc = "classes" => \A w \in (listed \X Kinds) \ todo : Served(w)
    /\ ~dry /\ Verifying => AllServed
    /\ checkpoint >= 6 => AllServed

\* Who is a dry run or resumes asks for less.
LEMMA ServedFrame ==
    ASSUME NEW w, UNCHANGED <<classes, taken>>, dry \/ resuming => dry' \/ resuming', Served(w)
    PROVE  Served(w)'
<1>1. OwnName(w)' <=> OwnName(w)
  BY DEF OwnName, Class
<1>2. Class(w)' = Class(w)
  BY DEF Class
<1> QED
  BY <1>1, <1>2 DEF Served

LEMMA StorageFrame ==
    ASSUME StorageInv, UNCHANGED <<classes, taken, listed>>,
           todo' \in SUBSET (Filesystems \X Kinds),
           checkpoint >= 5 => checkpoint' >= 5,
           ~dry' /\ pc' = "classes" => ~dry /\ pc = "classes" /\ UNCHANGED <<todo, resuming>>,
           (~dry' /\ Verifying') \/ checkpoint' >= 6 =>
               AllServed /\ (dry \/ resuming => dry' \/ resuming')
    PROVE  StorageInv'
<1>1. StorageType'
  BY DEF StorageInv, StorageType, Class
<1>2. ASSUME ~dry', pc' = "classes", NEW w \in (listed \X Kinds) \ todo'
      PROVE  Served(w)'
  BY <1>2, ServedFrame DEF StorageInv
<1>3. ASSUME (~dry' /\ Verifying') \/ checkpoint' >= 6, NEW w \in listed \X Kinds
      PROVE  Served(w)'
  BY <1>3, ServedFrame DEF AllServed
<1>4. classes' # {} => checkpoint' >= 5
  BY DEF StorageInv
<1> QED
  BY <1>1, <1>2, <1>3, <1>4 DEF StorageInv, AllServed

\* A class of one's own name is there only if the tool made it.
LEMMA OwnClass ==
    ASSUME StorageType, NEW w \in Filesystems \X Kinds, OwnName(w), Exists(Class(w).name)
    PROVE  Class(w) \in classes
<1>1. Class(w).name = ClassName[w]
  BY DEF Class
<1>2. PICK c \in classes : c.name = Class(w).name
  BY DEF Exists, OwnName
<1>3. PICK v \in Filesystems \X Kinds : c = Class(v)
  BY <1>2 DEF StorageType
<1>4. ClassName[v] = ClassName[w]
  BY <1>1, <1>2, <1>3 DEF Class
<1>5. v = w
  BY <1>3, <1>4 DEF OwnName
<1> QED
  BY <1>2, <1>3, <1>5

LEMMA ClassStep ==
    ASSUME FlowInv, StorageInv, NEW w \in todo, ensureStorageClass(w)
    PROVE  StorageInv'
<1>1. pc = "classes" /\ phase = 6 /\ ~Ended /\ UNCHANGED <<taken, listed>>
  BY DEF ensureStorageClass, FlowInv, Located, StorageCalls, Ended
<1>2. w \in Filesystems \X Kinds
  BY DEF StorageInv, StorageType
<1>3. UNCHANGED <<phase, dry, resuming, checkpoint>>
  BY DEF ensureStorageClass, ReturnError, Goto
<1>4. CASE Exists(Class(w).name) /\ ~Accepted(w)
  <2>1. pc' = "ended" /\ todo' = {} /\ UNCHANGED classes
    BY <1>4 DEF ensureStorageClass, ReturnError, Goto
  <2> QED
    BY <1>1, <1>3, <2>1, StorageFrame DEF StorageInv, Verifying
<1>5. CASE ~(Exists(Class(w).name) /\ ~Accepted(w))
  <2>1. /\ pc' = "classes" /\ todo' = todo \ {w}
        /\ classes' = IF Accepted(w) \/ dry THEN classes ELSE classes \cup {Class(w)}
    BY <1>5 DEF ensureStorageClass, Goto
  <2>2. CASE dry
    BY <1>1, <1>3, <2>1, <2>2, StorageFrame DEF StorageInv, StorageType, Verifying
  <2>3. CASE ~dry
    <3>1. checkpoint = 5
      BY <1>1, <2>3 DEF FlowInv
    <3>2. classes \subseteq classes' /\ classes' \subseteq classes \cup {Class(w)}
      BY <2>1
    <3>3. StorageType'
      BY <1>1, <1>2, <2>1, <3>2 DEF StorageInv, StorageType, Class
    <3>4. ASSUME NEW v \in (listed \X Kinds) \ todo'
          PROVE  Served(v)'
      <4>1. /\ OwnName(v)' <=> OwnName(v)
            /\ Class(v)' = Class(v)
        BY <1>1 DEF OwnName, Class
      <4>2. CASE v = w
        <5>1. CASE Accepted(w)
          <6>1. resuming /\ Exists(Class(w).name)
            BY <5>1 DEF Accepted
          <6> QED
            BY <1>2, <1>3, <3>2, <4>1, <4>2, <6>1, OwnClass DEF Served, StorageInv
        <5>2. CASE ~Accepted(w)
          BY <2>1, <2>3, <4>1, <4>2, <5>2 DEF Served
        <5> QED
          BY <5>1, <5>2
      <4>3. CASE v # w
        <5>1. Served(v)
          BY <1>1, <2>1, <2>3, <3>4, <4>3 DEF StorageInv
        <5> QED
          BY <1>3, <3>2, <4>1, <5>1 DEF Served
      <4> QED
        BY <4>2, <4>3
    <3>5. ~Verifying' /\ checkpoint' = 5
      BY <1>3, <2>1, <3>1 DEF Verifying
    <3> QED
      BY <1>1, <3>3, <3>4, <3>5 DEF StorageInv
  <2> QED
    BY <2>2, <2>3
<1> QED
  BY <1>4, <1>5

LEMMA StorageStepKeeps ==
    ASSUME FlowInv, FilesInv, StorageInv, StorageStep
    PROVE  StorageInv'
<1>1. phase = 6 /\ UNCHANGED <<dry, resuming, checkpoint>>
  BY StorageMoves
<1>2. ~dry => checkpoint = 5
  <2>1. ~Ended
    BY DEF StorageStep, ListFilesystems, ClassesDone, ensureStorageClass,
           VerifyFilesystemRecovery, RecoveryDeadline, Ended
  <2> QED
    BY <1>1, <2>1 DEF FlowInv
<1>3. CASE ListFilesystems
  <2>1. /\ pc' = "classes" /\ todo' = present \X Kinds /\ UNCHANGED <<classes, taken>>
        /\ listed' = IF dry THEN listed ELSE present
    BY <1>3 DEF ListFilesystems, Goto
  <2>2. ~Verifying'
    BY <2>1 DEF Verifying
  <2>3. CASE dry
    BY <1>1, <2>1, <2>2, <2>3, StorageFrame DEF StorageInv, FilesInv
  <2>4. CASE ~dry
    <3>1. StorageType'
      BY <2>1, <2>4 DEF StorageInv, StorageType, FilesInv, Class
    <3>2. (listed' \X Kinds) \ todo' = {}
      BY <2>1, <2>4
    <3> QED
      BY <1>1, <1>2, <2>1, <2>2, <2>4, <3>1, <3>2 DEF StorageInv
  <2> QED
    BY <2>3, <2>4
<1>4. CASE ClassesDone
  <2>1. pc = "classes" /\ pc' = "verify" /\ todo = {} /\ UNCHANGED storage
    BY <1>4 DEF ClassesDone, Goto
  <2>2. ~dry => AllServed
    BY <2>1 DEF StorageInv, AllServed
  <2> QED
    BY <1>1, <2>1, <2>2, StorageFrame DEF StorageInv, StorageType, storage
<1>5. ASSUME NEW w \in todo, ensureStorageClass(w)
      PROVE  StorageInv'
  BY <1>5, ClassStep
<1>6. CASE VerifyFilesystemRecovery
  <2>1. pc = "verify" /\ ReturnNil /\ UNCHANGED storage
    BY <1>6 DEF VerifyFilesystemRecovery
  <2>2. pc' # "classes"
    BY <1>1, <2>1 DEF ReturnNil, Enter, First
  <2> QED
    BY <1>1, <2>1, <2>2, StorageFrame DEF StorageInv, StorageType, storage, Verifying
<1>7. CASE RecoveryDeadline
  <2>1. pc' = "ended" /\ UNCHANGED storage
    BY <1>7 DEF RecoveryDeadline, ReturnError, Goto
  <2> QED
    BY <1>1, <2>1, StorageFrame DEF StorageInv, StorageType, storage, Verifying
<1> QED
  BY <1>3, <1>4, <1>5, <1>6, <1>7 DEF StorageStep

LEMMA StorageInvStep ==
    ASSUME FlowInv, FilesInv, StorageInv, [Next]_vars
    PROVE  StorageInv'
<1> USE DEF FlowInv, FlowType, Located
<1>1. CASE PreflightStep
  <2>1. phase = 1 /\ ~Ended /\ UNCHANGED <<dry, checkpoint, storage>>
    BY <1>1, CheckFacts
       DEF PreflightStep, CheckPasses, CheckRefuses, PreflightCalls, Ended, ReturnNil, Goto,
           Refuse
  <2>2. (~dry' => phase' = 1) /\ (dry' => dry)
    <3>1. ASSUME ReturnNil PROVE ~dry' => phase' = 1
      BY <2>1, <3>1 DEF ReturnNil
    <3>2. ASSUME NEW c, Goto(c) PROVE phase' = 1
      BY <2>1, <3>2 DEF Goto
    <3> QED
      BY <1>1, <2>1, <3>1, <3>2 DEF PreflightStep, CheckPasses, CheckRefuses, Refuse
  <2>3. ~dry => checkpoint' = 0
    BY <2>1
  <2>4. pc' \notin {"classes", "verify"}
    <3>1. ASSUME ReturnNil PROVE pc' \in {"index", "save"}
      BY <2>1, <3>1 DEF ReturnNil, Enter, First
    <3>2. ASSUME NEW i \in DOMAIN Checks, CheckPasses(i), ~ReturnNil PROVE pc' \in PreflightCalls
      <4>1. i \in 1..9 /\ i < 9 /\ Goto(Checks[i + 1])
        BY <3>2, CheckFacts DEF CheckPasses
      <4>2. i + 1 \in 1..9 /\ pc' = Checks[i + 1]
        BY <4>1 DEF Goto
      <4> QED
        BY <4>2, CheckFacts
    <3>3. ASSUME NEW i \in DOMAIN Checks, CheckRefuses(i) PROVE pc' = "refused"
      BY <3>3 DEF CheckRefuses, Refuse, Goto
    <3> QED
      BY <1>1, <3>1, <3>2, <3>3 DEF PreflightStep, PreflightCalls
  <2> QED
    BY <2>1, <2>2, <2>3, <2>4, StorageFrame DEF StorageInv, StorageType, storage, Verifying
<1>2. CASE CatalogStep
  <2>1. UNCHANGED storage
    BY <1>2 DEF CatalogStep
  <2> QED
    BY <1>2, <2>1, CatalogMoves, StorageFrame DEF StorageInv, StorageType, storage, Verifying
<1>3. CASE OpaqueStep
  <2>1. UNCHANGED storage
    BY <1>3 DEF OpaqueStep
  <2>2. /\ UNCHANGED <<dry, resuming, checkpoint>>
        /\ pc' \notin {"classes", "verify"} /\ (~dry' => phase' \in 2..5)
    BY <1>3, OpaqueMoves DEF First
  <2>3. ~dry' => checkpoint' < 5
    BY <1>3, <2>2, OpaqueMoves
  <2> QED
    BY <2>1, <2>2, <2>3, StorageFrame DEF StorageInv, StorageType, storage, Verifying
<1>4. CASE StorageStep
  BY <1>4, StorageStepKeeps
<1>5. CASE FusionStep
  <2>1. UNCHANGED storage
    BY <1>5 DEF FusionStep
  <2> QED
    BY <1>5, <2>1, FusionMoves, StorageFrame DEF StorageInv, StorageType, storage, Verifying
<1>6. CASE Save
  <2>1. pc = "save" /\ ~dry /\ checkpoint' = phase /\ checkpoint = phase - 1
        /\ phase' = phase + 1 /\ pc' = First(phase + 1)
        /\ UNCHANGED <<dry, resuming, storage>>
    BY <1>6 DEF Save, WriteMigrationProgress, Enter, Ended
  <2>2. pc' \notin {"classes", "verify", "save"}
    BY <2>1 DEF First
  <2>3. checkpoint' >= 6 => AllServed
    BY <2>1 DEF StorageInv, Verifying
  <2> QED
    BY <2>1, <2>2, <2>3, StorageFrame DEF StorageInv, StorageType, storage, Verifying
<1>7. CASE PodStops
  <2>1. /\ pc' = "ended" /\ todo' = {} /\ UNCHANGED <<classes, taken, listed, dry, resuming>>
        /\ \/ checkpoint' = checkpoint
           \/ pc = "save" /\ ~dry /\ checkpoint' = phase /\ checkpoint = phase - 1
    BY <1>7 DEF PodStops, PodFails, AnswerLost, ReturnError, Goto, Ended
  <2>2. checkpoint' >= 6 => AllServed
    BY <2>1 DEF StorageInv, Verifying
  <2> QED
    BY <2>1, <2>2, StorageFrame DEF StorageInv, StorageType, Verifying
<1>8. ASSUME NEW dryRun \in BOOLEAN, NextPod(dryRun)
      PROVE  StorageInv'
  <2>1. /\ UNCHANGED <<checkpoint, storage>> /\ pc' = First(phase') /\ dry' = dryRun
        /\ resuming' = Resumed(dryRun)
    BY <1>8 DEF NextPod, StartPod, Enter
  <2>2. pc' \notin {"classes", "verify", "save"}
    BY <2>1 DEF First
  <2>3. checkpoint' >= 6 => dry' \/ resuming'
    <3>1. checkpoint' >= 6 => checkpoint > 0
      BY <2>1
    <3> QED
      BY <2>1, <3>1, Zenon DEF Resumed
  <2>4. checkpoint' >= 6 => AllServed
    BY <2>1 DEF StorageInv
  <2> QED
    BY <2>1, <2>2, <2>3, <2>4, StorageFrame DEF StorageInv, StorageType, storage, Verifying
<1>9. CASE UNCHANGED <<flow, storage>>
  BY <1>9, StorageFrame DEF flow, storage, StorageInv, StorageType, Verifying
<1> QED
  BY <1>1, <1>2, <1>3, <1>4, <1>5, <1>6, <1>7, <1>8, <1>9
     DEF Next, ToolStep, FilesystemsChange, ClusterChanges, RegistryStep, OLMStep, Calm, vars

-----------------------------------------------------------------------------
(* The Fusion operator *)

FusionType ==
    /\ fusionNS \in BOOLEAN /\ groups \in SUBSET Group /\ odfManager \in BOOLEAN
    /\ catalog \in Catalogs /\ sub \in Origins /\ current \in CSVs /\ installed \in CSVs

\* What OLM makes of catalog and Subscription.
Resolved ==
    /\ installed \in {"none", current}
    /\ current # "none" => sub # "none" /\ (sub = "wanted" => catalog # "none")
    /\ catalog = "wanted" /\ sub = "wanted" /\ current # "none" => current = "wanted"

FusionInv ==
    /\ FusionType
    /\ Resolved
    /\ catalog = "wanted" => checkpoint >= 6
    /\ ~dry /\ pc \in FusionCalls \ {"namespace"} => fusionNS
    /\ ~dry /\ pc = "odf_manager" => CSVSucceeded
    /\ (~dry /\ phase = 7 /\ pc = "save") \/ checkpoint = 7 =>
           fusionNS /\ odfManager /\ CSVSucceeded

\* What the objects of the Fusion operator may do under any step.
Grown ==
    /\ FusionType' /\ Resolved'
    /\ fusionNS => fusionNS'
    /\ odfManager => odfManager'
    /\ CSVSucceeded => CSVSucceeded'
    /\ catalog' = "wanted" => catalog = "wanted" \/ checkpoint' >= 6

LEMMA FusionFrame ==
    ASSUME FusionInv, Grown,
           checkpoint >= 6 => checkpoint' >= 6,
           ~dry' /\ pc' \in FusionCalls \ {"namespace"} => fusionNS',
           ~dry' /\ pc' = "odf_manager" => CSVSucceeded',
           (~dry' /\ phase' = 7 /\ pc' = "save") \/ checkpoint' = 7 =>
               fusionNS' /\ odfManager' /\ CSVSucceeded'
    PROVE  FusionInv'
<1>1. catalog' = "wanted" => checkpoint' >= 6
  BY DEF FusionInv, Grown
<1> QED
  BY <1>1 DEF FusionInv, Grown

LEMMA StillFusion ==
    ASSUME FusionInv, UNCHANGED fusion
    PROVE  Grown /\ (CSVSucceeded' <=> CSVSucceeded)
  BY DEF FusionInv, Grown, fusion, FusionType, Resolved, CSVSucceeded

LEMMA FusionStepKeeps ==
    ASSUME FlowInv, FusionInv, FusionStep
    PROVE  FusionInv'
<1>1. phase = 7 /\ UNCHANGED <<dry, resuming, checkpoint>>
  BY FusionMoves
<1>2. ~Ended /\ (~dry => checkpoint = 6) /\ checkpoint \in 0..7
  BY <1>1 DEF FusionStep, EnsureNamespace, ensureFusionOperatorGroup,
     ensureFusionOperatorCatalogSource, ensureFusionOperatorSubscription,
     waitForFusionOperatorCSVSucceeded, CSVWaitFails, ensureOdfManager, Ended, FlowInv, FlowType
<1> USE DEF FusionInv
<1>3. CASE EnsureNamespace
  <2>1. /\ pc' = "group" /\ fusionNS' = (fusionNS \/ ~dry)
        /\ UNCHANGED <<groups, catalog, sub, current, installed, odfManager>>
    BY <1>3 DEF EnsureNamespace, Goto
  <2>2. Grown /\ (CSVSucceeded' <=> CSVSucceeded)
    BY <2>1 DEF Grown, FusionType, Resolved, CSVSucceeded
  <2>3. (~dry => fusionNS') /\ (fusionNS => fusionNS')
    BY <2>1
  <2>4. checkpoint' = 7 => fusionNS' /\ odfManager' /\ CSVSucceeded'
    BY <1>1, <2>1, <2>2, <2>3
  <2>5. pc' \notin {"odf_manager", "save"}
    BY <2>1
  <2>6. ~dry' => fusionNS'
    BY <1>1, <2>3
  <2> QED
    BY <1>1, <2>2, <2>4, <2>5, <2>6, FusionFrame
<1>4. CASE ensureFusionOperatorGroup
  <2>1. /\ pc = "group" /\ pc' = "catalog" /\ groups \subseteq groups'
        /\ groups' \subseteq groups \cup {[name |-> "isf-og", covers |-> TRUE]}
        /\ UNCHANGED <<fusionNS, catalog, sub, current, installed, odfManager>>
    BY <1>4 DEF ensureFusionOperatorGroup, Goto
  <2>2. [name |-> "isf-og", covers |-> TRUE] \in Group
    BY DEF Group
  <2>3. FusionType'
    BY <2>1, <2>2 DEF FusionType
  <2>4. Grown /\ (CSVSucceeded' <=> CSVSucceeded)
    BY <2>1, <2>3 DEF Grown, Resolved, CSVSucceeded
  <2> QED
    BY <1>1, <1>2, <2>1, <2>4, FusionFrame DEF FusionCalls
<1>5. CASE ensureFusionOperatorCatalogSource
  <2>1. /\ pc = "catalog" /\ pc' = "subscription"
        /\ catalog' = IF dry \/ catalog # "none" THEN catalog ELSE "wanted"
        /\ UNCHANGED <<fusionNS, groups, sub, current, installed, odfManager>>
    BY <1>5 DEF ensureFusionOperatorCatalogSource, Goto
  <2>2. catalog' \in Catalogs
    BY <2>1 DEF FusionType, Origins, Catalogs
  <2>3. Resolved'
    BY <2>1 DEF Resolved
  <2>4. Grown /\ (CSVSucceeded' <=> CSVSucceeded)
    BY <1>1, <1>2, <2>1, <2>2, <2>3 DEF Grown, FusionType, CSVSucceeded
  <2> QED
    BY <1>1, <1>2, <2>1, <2>4, FusionFrame DEF FusionCalls
<1>6. CASE ensureFusionOperatorSubscription
  <2>1. /\ pc = "subscription" /\ pc' = "csv_wait"
        /\ sub' = IF dry \/ sub # "none" THEN sub ELSE "wanted"
        /\ UNCHANGED <<fusionNS, groups, catalog, current, installed, odfManager>>
    BY <1>6 DEF ensureFusionOperatorSubscription, Goto
  <2>2. sub' \in Origins
    BY <2>1 DEF FusionType, Origins
  <2>3. Resolved'
    BY <2>1 DEF Resolved
  <2>4. Grown /\ (CSVSucceeded' <=> CSVSucceeded)
    BY <2>1, <2>2, <2>3 DEF Grown, FusionType, CSVSucceeded
  <2> QED
    BY <1>1, <1>2, <2>1, <2>4, FusionFrame DEF FusionCalls
<1>7. CASE waitForFusionOperatorCSVSucceeded
  <2>1. pc = "csv_wait" /\ pc' = "odf_manager" /\ (dry \/ CSVSucceeded) /\ UNCHANGED fusion
    BY <1>7 DEF waitForFusionOperatorCSVSucceeded, Goto
  <2>2. Grown /\ (CSVSucceeded' <=> CSVSucceeded)
    BY <2>1, StillFusion
  <2> QED
    BY <1>1, <1>2, <2>1, <2>2, FusionFrame DEF FusionCalls, fusion
<1>8. CASE CSVWaitFails
  <2>1. pc' = "ended" /\ UNCHANGED fusion
    BY <1>8 DEF CSVWaitFails, ReturnError, Goto
  <2>2. Grown /\ (CSVSucceeded' <=> CSVSucceeded)
    BY <2>1, StillFusion
  <2> QED
    BY <1>1, <1>2, <2>1, <2>2, FusionFrame DEF FusionCalls, fusion
<1>9. CASE ensureOdfManager
  <2>1. /\ pc = "odf_manager" /\ ReturnNil /\ odfManager' = (odfManager \/ ~dry)
        /\ UNCHANGED <<fusionNS, groups, catalog, sub, current, installed>>
    BY <1>9 DEF ensureOdfManager
  <2>2. Grown /\ (CSVSucceeded' <=> CSVSucceeded)
    BY <2>1 DEF Grown, FusionType, Resolved, CSVSucceeded
  <2>3. pc' \in {"save", "ended"}
    BY <1>1, <2>1 DEF ReturnNil, Enter, First
  <2>4. (~dry => odfManager') /\ (odfManager => odfManager')
    BY <2>1
  <2>5. ~dry => fusionNS /\ CSVSucceeded
    BY <2>1 DEF FusionCalls
  <2>6. (~dry' /\ phase' = 7 /\ pc' = "save") \/ checkpoint' = 7 =>
            fusionNS' /\ odfManager' /\ CSVSucceeded'
    BY <1>1, <2>1, <2>2, <2>4, <2>5
  <2>7. pc' \notin FusionCalls
    BY <2>3 DEF FusionCalls
  <2> QED
    BY <1>1, <2>2, <2>6, <2>7, FusionFrame DEF FusionCalls
<1> QED
  BY <1>3, <1>4, <1>5, <1>6, <1>7, <1>8, <1>9 DEF FusionStep

LEMMA OLMStepKeeps ==
    ASSUME FlowInv, FusionInv, OLMStep
    PROVE  FusionInv'
<1> USE DEF FusionInv
<1>1. UNCHANGED flow
  BY DEF OLMStep
<1>2. SUFFICES Grown
  BY <1>1, FusionFrame DEF flow, FlowInv, FlowType, Grown
<1>3. CASE OLMResolves
  <2>1. /\ sub # "none" /\ current = "none"
        /\ UNCHANGED <<fusionNS, groups, catalog, sub, installed, odfManager>>
    BY <1>3 DEF OLMResolves
  <2>2. current' \in CSVs /\ (sub = "wanted" => catalog # "none" /\ current' = catalog)
    BY <1>3 DEF OLMResolves, Serving, CSVs
  <2>3. installed = "none"
    BY <2>1 DEF Resolved
  <2> QED
    BY <2>1, <2>2, <2>3 DEF Grown, FusionType, Resolved, CSVSucceeded
<1>4. CASE OLMInstalls
  <2>1. installed' = current /\ UNCHANGED <<fusionNS, groups, catalog, sub, current, odfManager>>
    BY <1>4 DEF OLMInstalls
  <2> QED
    BY <2>1 DEF Grown, FusionType, Resolved, CSVSucceeded
<1>5. CASE SomeoneInstalls
  <2>1. UNCHANGED <<current, installed, odfManager>>
    BY <1>5 DEF SomeoneInstalls
  <2>2. (fusionNS => fusionNS') /\ fusionNS' \in BOOLEAN /\ groups' \in SUBSET Group
    <3>1. fusionNS \in BOOLEAN /\ groups \in SUBSET Group
      BY DEF FusionType
    <3>2. fusionNS' = TRUE \/ UNCHANGED fusionNS
      BY <1>5 DEF SomeoneInstalls
    <3>3. UNCHANGED groups \/ \E g \in Groups : groups' = groups \cup {g}
      BY <1>5 DEF SomeoneInstalls
    <3>4. groups' \in SUBSET Group
      BY <3>1, <3>3, GroupsAssumption
    <3>5. (fusionNS => fusionNS') /\ fusionNS' \in BOOLEAN
      BY <3>1, <3>2
    <3> QED
      BY <3>4, <3>5
  <2>3. /\ catalog' = catalog \/ (catalog = "none" /\ catalog' \in {"foreign", "lacking"})
        /\ sub' = sub \/ (sub = "none" /\ sub' = "foreign")
    BY <1>5 DEF SomeoneInstalls
  <2>4. catalog' \in Catalogs /\ sub' \in Origins
    BY <2>3 DEF FusionType, Origins, Catalogs
  <2>5. FusionType'
    BY <2>1, <2>2, <2>4 DEF FusionType
  <2>6. Resolved'
    BY <2>1, <2>3 DEF Resolved
  <2> QED
    BY <2>1, <2>2, <2>3, <2>5, <2>6 DEF Grown, CSVSucceeded
<1> QED
  BY <1>3, <1>4, <1>5 DEF OLMStep

LEMMA FusionInvStep ==
    ASSUME FlowInv, FusionInv, [Next]_vars
    PROVE  FusionInv'
<1> USE DEF FlowInv, FlowType, Located
\* Only the first call of phase 7 is made from outside of it.
<1>1. ASSUME UNCHANGED <<fusion, checkpoint>>, ~dry' => pc' \notin FusionCalls \ {"namespace"},
             ~dry' => phase' # 7 \/ pc' # "save"
      PROVE  FusionInv'
  <2>1. Grown /\ (CSVSucceeded' <=> CSVSucceeded)
    BY <1>1, StillFusion
  <2> QED
    BY <1>1, <2>1, FusionFrame DEF FusionInv, FusionCalls, fusion
<1>2. CASE PreflightStep
  <2>1. phase = 1 /\ ~Ended /\ UNCHANGED <<dry, checkpoint, fusion>>
    BY <1>2, CheckFacts
       DEF PreflightStep, CheckPasses, CheckRefuses, PreflightCalls, Ended, ReturnNil, Goto,
           Refuse
  <2>2. ~dry' => phase' = 1
    <3>1. ASSUME ReturnNil PROVE ~dry' => phase' = 1
      BY <2>1, <3>1 DEF ReturnNil
    <3>2. ASSUME NEW c, Goto(c) PROVE phase' = 1
      BY <2>1, <3>2 DEF Goto
    <3> QED
      BY <1>2, <3>1, <3>2 DEF PreflightStep, CheckPasses, CheckRefuses, Refuse
  <2>3. Located(phase, pc)'
    BY FlowStep
  <2> QED
    BY <1>1, <2>1, <2>2, <2>3 DEF FusionCalls
<1>3. CASE CatalogStep \/ OpaqueStep \/ StorageStep
  <2>1. /\ UNCHANGED <<fusion, dry, checkpoint>>
        /\ ~dry' => phase' # 7
    BY <1>3, CatalogMoves, OpaqueMoves, StorageMoves DEF CatalogStep, OpaqueStep, StorageStep
  <2>2. Located(phase, pc)'
    BY FlowStep
  <2> QED
    BY <1>1, <2>1, <2>2 DEF FusionCalls
<1>4. CASE FusionStep
  BY <1>4, FusionStepKeeps
<1>5. CASE Save
  <2>1. pc = "save" /\ ~dry /\ checkpoint' = phase /\ checkpoint = phase - 1
        /\ phase' = phase + 1 /\ pc' = First(phase + 1) /\ UNCHANGED <<dry, fusion>>
    BY <1>5 DEF Save, WriteMigrationProgress, Enter, Ended
  <2>2. pc' \notin (FusionCalls \ {"namespace"}) \cup {"save"}
    BY <2>1 DEF First, FusionCalls
  <2>3. Grown /\ (CSVSucceeded' <=> CSVSucceeded)
    BY <2>1, StillFusion
  <2>4. checkpoint' = 7 => fusionNS' /\ odfManager' /\ CSVSucceeded'
    BY <2>1, <2>3 DEF FusionInv, fusion
  <2> QED
    BY <2>1, <2>2, <2>3, <2>4, FusionFrame DEF FusionCalls
<1>6. CASE PodStops
  <2>1. /\ pc' = "ended" /\ UNCHANGED <<dry, fusion>>
        /\ \/ checkpoint' = checkpoint
           \/ pc = "save" /\ ~dry /\ checkpoint' = phase /\ checkpoint = phase - 1
    BY <1>6 DEF PodStops, PodFails, AnswerLost, ReturnError, Goto, Ended
  <2>2. Grown /\ (CSVSucceeded' <=> CSVSucceeded)
    BY <2>1, StillFusion
  <2>3. checkpoint' = 7 => fusionNS' /\ odfManager' /\ CSVSucceeded'
    BY <2>1, <2>2 DEF FusionInv, fusion
  <2> QED
    BY <2>1, <2>2, <2>3, FusionFrame DEF FusionCalls
<1>7. ASSUME NEW dryRun \in BOOLEAN, NextPod(dryRun)
      PROVE  FusionInv'
  <2>1. UNCHANGED <<checkpoint, fusion>> /\ pc' = First(phase')
    BY <1>7 DEF NextPod, StartPod, Enter
  <2>2. pc' \notin (FusionCalls \ {"namespace"}) \cup {"save"}
    BY <2>1 DEF First, FusionCalls
  <2> QED
    BY <1>1, <2>1, <2>2
<1>8. CASE OLMStep
  BY <1>8, OLMStepKeeps
<1>9. CASE UNCHANGED <<flow, fusion>>
  <2>1. Grown /\ (CSVSucceeded' <=> CSVSucceeded)
    BY <1>9, StillFusion
  <2> QED
    BY <1>9, <2>1, FusionFrame DEF FusionInv, flow, fusion
<1> QED
  BY <1>2, <1>3, <1>4, <1>5, <1>6, <1>7, <1>8, <1>9
     DEF Next, ToolStep, FilesystemsChange, ClusterChanges, RegistryStep, Calm, vars

-----------------------------------------------------------------------------
(* Theorems *)

IInv == FlowInv /\ FilesInv /\ IndexInv /\ InstallInv /\ StorageInv /\ FusionInv

LEMMA InitIInv == Init => IInv
<1> SUFFICES ASSUME Init PROVE IInv
  OBVIOUS
<1>1. phase = 1 /\ pc = "ended" /\ dry = FALSE /\ resuming = FALSE /\ checkpoint = 0
      /\ begun = {} /\ done = {} /\ calm = FALSE
  BY DEF Init, PodInit
<1>2. FlowInv
  <2>1. "ended" \in Calls /\ Located(1, "ended")
    BY CallFacts DEF Located, PreflightCalls, StorageCalls, FusionCalls
  <2>2. FlowType
    <3>1. dry \in BOOLEAN /\ resuming \in BOOLEAN
      BY <1>1
    <3>2. phase \in 1..8 /\ checkpoint \in 0..7
      BY <1>1
    <3>3. begun \in SUBSET (1..7) /\ done \in SUBSET (1..7) /\ pc \in Calls
      BY <1>1, <2>1
    <3> QED
      BY <3>1, <3>2, <3>3 DEF FlowType
  <2>3. Located(phase, pc) /\ Ended /\ pc # "save" /\ pc # "refused"
    BY <1>1, <2>1 DEF Ended
  <2>4. /\ 1..checkpoint \subseteq done /\ done \subseteq 1..(checkpoint + 1)
        /\ 1..checkpoint \subseteq begun /\ begun \subseteq 1..(checkpoint + 1)
    <3>1. 1..checkpoint = {}
      BY <1>1
    <3> QED
      BY <1>1, <3>1
  <2> QED
    BY <2>2, <2>3, <2>4 DEF FlowInv
<1>3. FilesInv
  BY DEF Init, FilesystemsInit, FilesInv, present
<1>4. IndexInv
  BY <1>1 DEF Init, CatalogInit, IndexInv, Index, Images
<1>5. InstallInv
  <2>1. install \in Installation
    BY InstallationsAssumption DEF Init, PreflightInit
  <2>2. Judged
    BY <1>1, CheckFacts DEF Judged, PreflightCalls
  <2> QED
    BY <1>1, <2>1, <2>2 DEF InstallInv
<1>6. StorageInv
  BY <1>1 DEF Init, StorageInit, StorageInv, StorageType, Verifying
<1>7. FusionInv
  <2>1. /\ fusionNS = FALSE /\ groups = {} /\ catalog = "none" /\ sub = "none"
        /\ current = "none" /\ installed = "none" /\ odfManager = FALSE
    BY DEF Init, FusionInit
  <2>2. FusionType
    BY <2>1 DEF FusionType, Origins, Catalogs, CSVs
  <2>3. Resolved
    BY <2>1 DEF Resolved
  <2> QED
    BY <1>1, <2>1, <2>2, <2>3 DEF FusionInv, FusionCalls
<1> QED
  BY <1>2, <1>3, <1>4, <1>5, <1>6, <1>7 DEF IInv

LEMMA NextIInv == IInv /\ [Next]_vars => IInv'
  BY FlowStep, FilesStep, IndexStep, InstallStep, StorageInvStep, FusionInvStep DEF IInv

LEMMA CalmStep == calm \in BOOLEAN /\ [Next]_vars => calm' \in BOOLEAN
<1> SUFFICES ASSUME calm \in BOOLEAN, [Next]_vars, calm' # calm PROVE calm' \in BOOLEAN
  OBVIOUS
<1> QED
  BY DEF Next, ToolStep, PreflightStep, CatalogStep, OpaqueStep, StorageStep, FusionStep, Save,
         WriteMigrationProgress, PodStops, PodFails, AnswerLost, NextPod, StartPod,
         FilesystemsChange, ClusterChanges, RegistryStep, OLMStep, Calm, vars

\* Every variable keeps to its set, whatever fails and restarts.
THEOREM TypesKeep == Spec => []TypeOK
<1>1. Init => IInv /\ calm \in BOOLEAN
  BY InitIInv DEF Init, PodInit
<1>2. (IInv /\ calm \in BOOLEAN) /\ [Next]_vars => (IInv /\ calm \in BOOLEAN)'
  BY NextIInv, CalmStep
<1>3. IInv /\ calm \in BOOLEAN => TypeOK
  BY DEF IInv, FlowInv, FlowType, FilesInv, IndexInv, InstallInv, StorageInv, StorageType,
         FusionInv, FusionType, TypeOK
<1> QED
  BY <1>1, <1>2, <1>3, PTL DEF Spec

\* preflight.go: exit code 42, which the Job takes for final, is never the answer to a cluster
\* the tool has begun to change: no pod that resumes runs preflight again.
THEOREM NoRefusalAfterChanges == Spec => []RefusalIsHarmless
<1>1. IInv => RefusalIsHarmless
  BY DEF IInv, FlowInv, FlowType, StorageInv, FusionInv, RefusalIsHarmless
<1> QED
  BY <1>1, InitIInv, NextIInv, PTL DEF Spec

\* validation.go, fdf_version.go: up to phase 4 a migration under way is one of a cluster
\* that passed every check of preflight in one state.
THEOREM PreflightHolds == Spec => []OnlySupported
<1>1. IInv => OnlySupported
  BY DEF IInv, InstallInv, OnlySupported
<1> QED
  BY <1>1, InitIInv, NextIInv, PTL DEF Spec

\* catalogsource.go: once phase 2 is complete the index of this release is served, unless the
\* CatalogSource was there with an older image.
THEOREM IndexIsServed == Spec => []IndexServed
<1>1. IInv => IndexServed
  BY DEF IInv, IndexInv, IndexServed, Index, Images
<1> QED
  BY <1>1, InitIInv, NextIInv, PTL DEF Spec

\* storageclass.go: whatever pods fail in the middle of the classes, phase 6 is complete only
\* with the class of every Filesystem it listed, where the name was free.
THEOREM EveryFilesystemHasClasses == Spec => []ClassesMatch
<1>1. IInv => ClassesMatch
  BY DEF IInv, StorageInv, AllServed, Served, ClassesMatch
<1> QED
  BY <1>1, InitIInv, NextIInv, PTL DEF Spec

\* fusion_operator.go: the migration is complete only with a Fusion operator that Succeeded.
THEOREM FusionIsThere == Spec => []FusionInstalled
<1>1. IInv => FusionInstalled
  BY DEF IInv, FusionInv, FusionType, Resolved, CSVSucceeded, CSVs, FusionInstalled
<1> QED
  BY <1>1, InitIInv, NextIInv, PTL DEF Spec

LEMMA DryRunStep ==
    ASSUME FlowInv, FusionType, Next, dry, dry', ~UNCHANGED <<flow, todo>>
    PROVE  /\ UNCHANGED <<checkpoint, begun, done, install, catalogsource, classes, listed>>
           /\ UNCHANGED fusion
<1>1. pc # "save"
  BY DEF FlowInv
<1>2. ASSUME NEW c, Goto(c) PROVE UNCHANGED <<checkpoint, begun, done>>
  BY <1>2 DEF Goto
<1>3. ASSUME ReturnNil PROVE UNCHANGED <<checkpoint, begun, done>>
  BY <1>3 DEF ReturnNil, Enter
<1>4. CASE PreflightStep
  BY <1>2, <1>3, <1>4 DEF PreflightStep, CheckPasses, CheckRefuses, Refuse, storage
<1>5. CASE CatalogStep
  BY <1>2, <1>5 DEF CatalogStep, EnsureFDFCatalogSource, waitFDFCatalogSourceReady,
                    IndexDeadline, ReturnError, storage, catalogsource
<1>6. CASE OpaqueStep
  BY <1>2, <1>3, <1>6 DEF OpaqueStep, PhaseActs, PhaseReturns, storage
<1>7. CASE StorageStep
  BY <1>2, <1>3, <1>7
     DEF StorageStep, ListFilesystems, ClassesDone, ensureStorageClass,
         VerifyFilesystemRecovery, RecoveryDeadline, ReturnError, storage
<1>8. CASE FusionStep
  <2>1. UNCHANGED <<checkpoint, begun, done>>
    BY <1>2, <1>3, <1>8
       DEF FusionStep, EnsureNamespace, ensureFusionOperatorGroup,
           ensureFusionOperatorCatalogSource, ensureFusionOperatorSubscription,
           waitForFusionOperatorCSVSucceeded, CSVWaitFails, ensureOdfManager, ReturnError
  <2>2. UNCHANGED fusion
    BY <1>8
       DEF FusionStep, EnsureNamespace, ensureFusionOperatorGroup,
           ensureFusionOperatorCatalogSource, ensureFusionOperatorSubscription,
           waitForFusionOperatorCSVSucceeded, CSVWaitFails, ensureOdfManager, fusion, FusionType
  <2> QED
    BY <1>8, <2>1, <2>2 DEF FusionStep, storage
<1>9. CASE PodStops
  BY <1>1, <1>2, <1>9 DEF PodStops, PodFails, AnswerLost, ReturnError
<1>10. ASSUME NEW dryRun \in BOOLEAN, NextPod(dryRun)
       PROVE  /\ UNCHANGED <<checkpoint, begun, done, install, catalogsource, classes, listed>>
              /\ UNCHANGED fusion
  BY <1>10 DEF NextPod, StartPod, Enter, storage
<1>11. ~Save
  BY <1>1 DEF Save, WriteMigrationProgress
<1> QED
  BY <1>4, <1>5, <1>6, <1>7, <1>8, <1>9, <1>10, <1>11
     DEF Next, ToolStep, FilesystemsChange, ClusterChanges, RegistryStep, OLMStep, Calm, storage

\* README.md:86: a dry run walks through all the phases and no step of it changes the cluster
\* or the checkpoint.
THEOREM DryRunsOnlyLook == Spec => DryRunWritesNothing
<1>1. IInv /\ [Next]_vars =>
         [dry /\ dry' /\ ~UNCHANGED <<flow, todo>> =>
              /\ UNCHANGED <<checkpoint, begun, done, install, catalogsource, classes, listed>>
              /\ UNCHANGED fusion]_vars
  BY DryRunStep DEF IInv, FusionInv
<1> QED
  BY <1>1, InitIInv, NextIInv, PTL DEF Spec, DryRunWritesNothing

-----------------------------------------------------------------------------
(* What the wait for the Fusion operator may count on *)

\* Each call of phase 7 leaves, or found, the object that OLM needs, and nobody deletes one.
Provided ==
    /\ ~dry /\ pc \in {"catalog", "subscription", "csv_wait"} => groups # {}
    /\ ~dry /\ pc \in {"subscription", "csv_wait"} => catalog # "none"
    /\ ~dry /\ pc = "csv_wait" => sub # "none"
    /\ current = "misnamed" => sub = "foreign"

\* What the objects may do, and the name of a CSV, under any step.
Piling ==
    /\ groups \subseteq groups'
    /\ catalog # "none" => catalog' # "none"
    /\ sub # "none" => sub' = sub
    /\ current' = "misnamed" => current = "misnamed" \/ sub = "foreign"

LEMMA FusionPiles ==
    ASSUME FusionInv, FusionStep \/ OLMStep
    PROVE  Piling
<1> USE DEF FusionInv, FusionType, Origins, CSVs, Piling
<1>1. CASE EnsureNamespace \/ ensureFusionOperatorGroup \/ ensureFusionOperatorCatalogSource
  BY <1>1 DEF EnsureNamespace, ensureFusionOperatorGroup, ensureFusionOperatorCatalogSource
<1>2. CASE ensureFusionOperatorSubscription \/ ensureOdfManager
  BY <1>2 DEF ensureFusionOperatorSubscription, ensureOdfManager
<1>3. CASE waitForFusionOperatorCSVSucceeded \/ CSVWaitFails
  BY <1>3 DEF waitForFusionOperatorCSVSucceeded, CSVWaitFails, fusion
<1>4. CASE OLMResolves
  <2>1. /\ sub # "none" /\ UNCHANGED <<groups, catalog, sub>>
        /\ sub # "foreign" => current' # "misnamed"
    BY <1>4 DEF OLMResolves, Serving
  <2> QED
    BY <2>1
<1>5. CASE OLMInstalls
  BY <1>5 DEF OLMInstalls
<1>6. CASE SomeoneInstalls
  BY <1>6 DEF SomeoneInstalls
<1> QED
  BY <1>1, <1>2, <1>3, <1>4, <1>5, <1>6 DEF FusionStep, OLMStep

\* A step into one of the calls of phase 7 is the step of phase 7 before it.
LEMMA FusionArrives ==
    ASSUME FlowInv, [Next]_vars, ~dry', pc' \in {"catalog", "subscription", "csv_wait"}
    PROVE  /\ ~dry
           /\ \/ pc' = pc
              \/ pc' = "catalog" /\ ensureFusionOperatorGroup
              \/ pc' = "subscription" /\ ensureFusionOperatorCatalogSource
              \/ pc' = "csv_wait" /\ ensureFusionOperatorSubscription
<1>1. Located(phase, pc)' /\ phase' = 7
  <2>1. Located(phase, pc)'
    BY FlowStep DEF FlowInv
  <2> QED
    BY <2>1 DEF Located, FusionCalls
<1>2. phase \in 1..8 /\ Located(phase, pc)
  BY DEF FlowInv, FlowType
<1>3. ASSUME NEW k, NEW dryRun, Enter(k, dryRun) PROVE FALSE
  BY <1>3 DEF Enter, First
<1>4. ASSUME ReturnNil PROVE FALSE
  BY <1>3, <1>4 DEF ReturnNil
<1>5. CASE PreflightStep
  <2>1. phase = 1 /\ (Refuse => phase' = phase)
    BY <1>2, <1>5, CheckFacts
       DEF PreflightStep, CheckPasses, CheckRefuses, PreflightCalls, Located, Refuse, Goto
  <2>2. ASSUME NEW c, Goto(c) PROVE FALSE
    BY <1>1, <2>1, <2>2 DEF Goto
  <2> QED
    BY <1>4, <1>5, <2>2 DEF PreflightStep, CheckPasses, CheckRefuses, Refuse
<1>6. CASE CatalogStep \/ OpaqueStep \/ StorageStep
  <2>1. dry' = dry /\ (~dry' => phase' # 7)
    BY <1>6, CatalogMoves, OpaqueMoves, StorageMoves DEF CatalogStep, OpaqueStep, StorageStep
  <2> QED
    BY <1>1, <2>1
<1>7. CASE FusionStep
  <2>1. dry' = dry
    BY <1>7, FusionMoves
  <2>2. CASE EnsureNamespace
    BY <2>2 DEF EnsureNamespace, Goto
  <2>3. CASE ensureFusionOperatorGroup
    BY <2>1, <2>3 DEF ensureFusionOperatorGroup, Goto
  <2>4. CASE ensureFusionOperatorCatalogSource
    BY <2>1, <2>4 DEF ensureFusionOperatorCatalogSource, Goto
  <2>5. CASE ensureFusionOperatorSubscription
    BY <2>1, <2>5 DEF ensureFusionOperatorSubscription, Goto
  <2>6. CASE waitForFusionOperatorCSVSucceeded \/ CSVWaitFails
    BY <2>6 DEF waitForFusionOperatorCSVSucceeded, CSVWaitFails, ReturnError, Goto
  <2>7. CASE ensureOdfManager
    BY <1>4, <2>7 DEF ensureOdfManager
  <2> QED
    BY <1>7, <2>2, <2>3, <2>4, <2>5, <2>6, <2>7 DEF FusionStep
<1>8. CASE Save
  BY <1>3, <1>8 DEF Save, WriteMigrationProgress
<1>9. CASE PodStops
  BY <1>9 DEF PodStops, PodFails, AnswerLost, ReturnError, Goto
<1>10. ASSUME NEW dryRun, NextPod(dryRun) PROVE FALSE
  BY <1>3, <1>10 DEF NextPod, StartPod
<1>11. CASE UNCHANGED flow
  BY <1>11 DEF flow
<1> QED
  BY <1>5, <1>6, <1>7, <1>8, <1>9, <1>10, <1>11
     DEF Next, ToolStep, FilesystemsChange, ClusterChanges, RegistryStep, OLMStep, Calm, vars

LEMMA ProvidedStep ==
    ASSUME FlowInv, FusionInv, Provided, [Next]_vars
    PROVE  Provided'
<1>1. Piling
  <2>1. CASE FusionStep \/ OLMStep
    BY <2>1, FusionPiles
  <2>2. CASE ~(FusionStep \/ OLMStep)
    <3>1. UNCHANGED fusion
      BY <2>2 DEF Next, ToolStep, PreflightStep, CatalogStep, OpaqueStep, StorageStep, Save,
                  PodStops, NextPod, FilesystemsChange, ClusterChanges, RegistryStep, Calm, vars
    <3> QED
      BY <3>1 DEF fusion, Piling
  <2> QED
    BY <2>1, <2>2
<1>2. current' = "misnamed" => sub' = "foreign"
  BY <1>1 DEF Provided, Piling
<1>3. ASSUME ~dry', pc' \in {"catalog", "subscription", "csv_wait"}
      PROVE  /\ groups' # {}
             /\ pc' # "catalog" => catalog' # "none"
             /\ pc' = "csv_wait" => sub' # "none"
  <2>1. ~dry
    BY <1>3, FusionArrives
  <2>2. CASE pc' = pc
    BY <1>1, <1>3, <2>1, <2>2 DEF Provided, Piling
  <2>3. CASE pc' = "catalog" /\ ensureFusionOperatorGroup
    BY <2>1, <2>3 DEF ensureFusionOperatorGroup
  <2>4. CASE pc' = "subscription" /\ ensureFusionOperatorCatalogSource
    BY <1>1, <2>1, <2>4 DEF ensureFusionOperatorCatalogSource, Provided, Piling
  <2>5. CASE pc' = "csv_wait" /\ ensureFusionOperatorSubscription
    BY <1>1, <2>1, <2>5 DEF ensureFusionOperatorSubscription, Provided, Piling
  <2> QED
    BY <1>3, <2>2, <2>3, <2>4, <2>5, FusionArrives
<1> QED
  BY <1>2, <1>3 DEF Provided

\* fusion_operator.go:102-366: no wait for the Fusion operator is in vain, if the OperatorGroup,
\* the CatalogSource and the Subscription found are not in the way: whatever the pods before
\* left undone, OLM has all it needs.
THEOREM FusionIsNotAwaitedInVain == Spec => []FusionCanCome
<1>1. Init => IInv /\ Provided
  <2>1. Init => Provided
    BY DEF Init, PodInit, FusionInit, Provided
  <2> QED
    BY <2>1, InitIInv
<1>2. IInv /\ Provided /\ [Next]_vars => (IInv /\ Provided)'
  BY NextIInv, ProvidedStep DEF IInv
<1>3. IInv /\ Provided => FusionCanCome
  <2> SUFFICES ASSUME IInv, Provided, pc = "csv_wait", ~dry, Unobstructed, current = installed,
                      ~CSVSucceeded
               PROVE  /\ sub = "wanted" /\ catalog \in Serving /\ current = "none"
                      /\ \E g \in groups : groups = {g} /\ g.covers
    BY DEF FusionCanCome
  <2>1. sub = "wanted" /\ catalog \in Serving /\ groups # {} /\ current # "misnamed"
    BY DEF IInv, FusionInv, FusionType, Origins, Catalogs, Serving, Provided, Unobstructed
  <2>2. current = "none"
    BY <2>1 DEF CSVSucceeded
  <2> QED
    BY <2>1, <2>2 DEF Unobstructed
<1> QED
  BY <1>1, <1>2, <1>3, PTL DEF Spec

-----------------------------------------------------------------------------
(* The ladder *)

LEMMA ClimbStep ==
    ASSUME FlowInv, [Next]_vars
    PROVE  [Ladder!Next]_(Ladder!vars)
<1> USE DEF Ladder!vars
<1>1. ASSUME NEW c, Goto(c) PROVE UNCHANGED <<begun, done, checkpoint>>
  BY <1>1 DEF Goto
<1>2. ASSUME ~Ended, ReturnNil PROVE [Ladder!Next]_(Ladder!vars)
  <2>1. CASE dry
    BY <1>2, <2>1 DEF ReturnNil, Enter
  <2>2. CASE ~dry
    <3>1. checkpoint \in 0..7 /\ phase \in 1..8 /\ phase # 8 /\ checkpoint = phase - 1
      BY <1>2, <2>2 DEF FlowInv, FlowType
    <3>2. done' = done \cup {phase} /\ UNCHANGED <<begun, checkpoint>>
      BY <1>2, <2>2 DEF ReturnNil
    <3>3. checkpoint + 1 \in begun /\ phase = checkpoint + 1
      BY <1>2, <2>2, <3>1 DEF FlowInv
    <3> QED
      BY <3>2, <3>3 DEF Ladder!Next, Ladder!Climb
  <2> QED
    BY <2>1, <2>2
<1>3. ASSUME pc = "save", checkpoint' = phase, done' = done,
             begun' = begun \/ Enter(phase + 1, FALSE)
      PROVE  [Ladder!Next]_(Ladder!vars)
  <2>1. checkpoint \in 0..7 /\ phase \in 1..7 /\ checkpoint = phase - 1 /\ phase \in done
    BY <1>3 DEF FlowInv, FlowType, Located, Ended
  <2>2. phase = checkpoint + 1
    BY <2>1
  <2>3. begun' \in {begun, begun \cup ({checkpoint + 2} \cap 1..7)}
    <3>1. CASE begun' = begun
      BY <3>1
    <3>2. CASE Enter(phase + 1, FALSE) /\ phase = 7
      BY <2>2, <3>2 DEF Enter
    <3>3. CASE Enter(phase + 1, FALSE) /\ phase # 7
      <4>1. begun' = begun \cup {checkpoint + 2} /\ checkpoint + 2 \in 1..7
        BY <2>1, <2>2, <3>3 DEF Enter
      <4> QED
        BY <4>1
    <3> QED
      BY <1>3, <3>1, <3>2, <3>3
  <2> QED
    BY <1>3, <2>1, <2>2, <2>3 DEF Ladder!Next, Ladder!Save
<1>4. CASE PreflightStep
  <2>1. ~Ended
    BY <1>4, CheckFacts DEF PreflightStep, CheckPasses, CheckRefuses, PreflightCalls, Ended
  <2> QED
    BY <1>1, <1>2, <1>4, <2>1 DEF PreflightStep, CheckPasses, CheckRefuses, Refuse
<1>5. CASE CatalogStep
  BY <1>1, <1>5 DEF CatalogStep, EnsureFDFCatalogSource, waitFDFCatalogSourceReady,
                    IndexDeadline, ReturnError
<1>6. CASE OpaqueStep
  BY <1>1, <1>2, <1>6 DEF OpaqueStep, PhaseActs, PhaseReturns, Ended
<1>7. CASE StorageStep
  BY <1>1, <1>2, <1>7
     DEF StorageStep, ListFilesystems, ClassesDone, ensureStorageClass,
         VerifyFilesystemRecovery, RecoveryDeadline, ReturnError, Ended
<1>8. CASE FusionStep
  BY <1>1, <1>2, <1>8
     DEF FusionStep, EnsureNamespace, ensureFusionOperatorGroup,
         ensureFusionOperatorCatalogSource, ensureFusionOperatorSubscription,
         waitForFusionOperatorCSVSucceeded, CSVWaitFails, ensureOdfManager, ReturnError, Ended
<1>9. CASE Save
  BY <1>3, <1>9 DEF Save, WriteMigrationProgress
<1>10. CASE PodStops
  BY <1>1, <1>3, <1>10 DEF PodStops, PodFails, AnswerLost, ReturnError
<1>11. ASSUME NEW dryRun, NextPod(dryRun)
       PROVE  [Ladder!Next]_(Ladder!vars)
  <2>1. UNCHANGED <<done, checkpoint>> /\ Enter(StartAt(dryRun), dryRun)
    BY <1>11 DEF NextPod, StartPod
  <2>2. CASE dryRun
    BY <2>1, <2>2 DEF Enter
  <2>3. CASE ~dryRun
    <3>1. checkpoint < 7 /\ checkpoint \in 0..7
      BY <1>11, <2>3 DEF NextPod, StartPod, FlowInv, FlowType
    <3>2. begun' = begun \cup {checkpoint + 1}
      BY <2>1, <2>3, <3>1 DEF Enter, StartAt
    <3> QED
      BY <2>1, <3>1, <3>2 DEF Ladder!Next, Ladder!Begin
  <2> QED
    BY <2>2, <2>3
<1>12. CASE UNCHANGED <<begun, done, checkpoint>>
  BY <1>12
<1> QED
  BY <1>4, <1>5, <1>6, <1>7, <1>8, <1>9, <1>10, <1>11, <1>12
     DEF Next, ToolStep, FilesystemsChange, ClusterChanges, RegistryStep,
         OLMStep, Calm, flow, vars

\* With every call of the phases in between, the pods implement the ladder.
THEOREM MigrationClimbsTheLadder == Spec => ImplementsLadder
<1>1. Init => Ladder!Init
  BY DEF Init, PodInit, Ladder!Init
<1>2. IInv /\ [Next]_vars => [Ladder!Next]_(Ladder!vars)
  BY ClimbStep DEF IInv
<1> QED
  BY <1>1, <1>2, InitIInv, NextIInv, PTL DEF Spec, ImplementsLadder, Ladder!Spec

\* What PhaseLadderProofs shows of the ladder, with the phases and checkpoints of this module.
Rungs == INSTANCE PhaseLadderProofs WITH NumPhases <- 7, climbed <- done, saved <- checkpoint

\* main.go:115-147: no call of any pod leaves the cluster with two phases that were begun and
\* are not checkpointed, and none is done that was not begun.
THEOREM NeverBetweenTwoPhases == Spec => []Ladder!OneRungAtATime
<1>1. 7 \in Nat /\ (7 \in Nat => (Rungs!Spec => []Rungs!OneRungAtATime))
  BY Rungs!PhasesOneByOne
<1>2. Spec => Ladder!Spec
  BY MigrationClimbsTheLadder DEF ImplementsLadder
<1>3. Ladder!Init => Rungs!Init
  BY DEF Ladder!Init, Rungs!Init
<1>4. [Ladder!Next]_(Ladder!vars) => [Rungs!Next]_(Rungs!vars)
  BY DEF Ladder!Next, Ladder!vars, Ladder!Begin, Ladder!Climb, Ladder!Save,
         Rungs!Next, Rungs!vars, Rungs!Begin, Rungs!Climb, Rungs!Save
<1>5. Rungs!OneRungAtATime => Ladder!OneRungAtATime
  BY DEF Rungs!OneRungAtATime, Ladder!OneRungAtATime
<1> QED
  BY <1>1, <1>2, <1>3, <1>4, <1>5, PTL DEF Ladder!Spec, Rungs!Spec
=============================================================================
