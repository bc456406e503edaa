---------------------------- MODULE MigrationJob ----------------------------
(***************************************************************************)
(* The migrate command as a Kubernetes Job: cmd/migrate/main.go drives the *)
(* phases 1..NumPhases in order and keeps its position in the ConfigMap    *)
(* that internal/state/state.go reads and writes; the Job controller       *)
(* starts a new pod after a failed one, until one exits with 0 or 42 or    *)
(* the backoff limit is passed.                                            *)
(*                                                                         *)
(* A phase is one opaque step here: it begins, and it returns nil or an    *)
(* error.  What a phase does to the cluster is the business of the other   *)
(* modules; this one keeps which phases were begun and which returned nil, *)
(* and follows one datum through the restarts: the secure-boot flag, found *)
(* in DetectPhase and used in EnablePhase.                                 *)
(***************************************************************************)
EXTENDS Integers, FiniteSets

CONSTANTS
    Pods,           \* slots for the pods of the Job; a finished slot is reused
    NumPhases,      \* 7 in the code
    DetectPhase,    \* 3: the phase that finds out whether the cluster uses secure boot
    EnablePhase,    \* 5: the phase that enables KMM with that flag
    SecureBoot,     \* TRUE iff the cluster holds the secure-boot signing secrets
    BackoffLimit,   \* spec.backoffLimit of the Job
    AllowLoss       \* TRUE iff a pod may be given up (node lost) while its process still runs

ASSUME PhasesAssumption ==
    /\ NumPhases \in Nat /\ DetectPhase \in Nat /\ EnablePhase \in Nat
    /\ 1 < DetectPhase /\ DetectPhase < EnablePhase /\ EnablePhase <= NumPhases
ASSUME JobAssumption ==
    SecureBoot \in BOOLEAN /\ BackoffLimit \in Nat /\ AllowLoss \in BOOLEAN

VARIABLES
    job,    \* the Job object and the environment its manifest gives the pods
    pod,    \* one process state per slot
    cm,     \* the state ConfigMap
    begun,  \* phases that a pod which is not a dry run ever entered
    done,   \* phases whose function ever returned nil in such a pod
    kmm,    \* the secure-boot flag KMM was last enabled with
    calm    \* TRUE once the environment has stopped failing (see Calm)

vars == <<job, pod, cm, begun, done, kmm, calm>>

Phases == 1..NumPhases

ExitOK == 0
ExitRetryable == 1
ExitFatal == 42
Killed == 137
ExitCodes == {ExitOK, ExitRetryable, ExitFatal, Killed}

Progress == [last : 0..NumPhases, secureBoot : BOOLEAN, failed : 0..NumPhases,
             status : {"in_progress", "failed", "completed"}]

DefaultProgress == [last |-> 0, secureBoot |-> FALSE, failed |-> 0,
                    status |-> "in_progress"]

\* A process whose memory is as it is at the start of main, or given up.
Slot(pc, dryRun, validEnv, code, lost) ==
    [pc |-> pc, dryRun |-> dryRun, validEnv |-> validEnv, phase |-> 1,
     progress |-> DefaultProgress, secureBoot |-> FALSE, saving |-> "checkpoint",
     fresh |-> FALSE, acted |-> FALSE, code |-> code, lost |-> lost]

NoPod == Slot("none", FALSE, TRUE, ExitOK, FALSE)

Saving == {"get", "create", "update"}
PCs == {"none", "boot", "read", "ready", "running", "exited"} \cup Saving

Process == [pc : PCs, dryRun : BOOLEAN, validEnv : BOOLEAN, phase : 1..(NumPhases + 1),
            progress : Progress, secureBoot : BOOLEAN,
            saving : {"checkpoint", "failed", "completed"},
            fresh : BOOLEAN, acted : BOOLEAN, code : ExitCodes, lost : BOOLEAN]

JobObject == [status : {"running", "complete", "failed"}, failures : 0..(BackoffLimit + 1),
              dryRun : BOOLEAN, validEnv : BOOLEAN]

TypeOK ==
    /\ job \in JobObject
    /\ pod \in [Pods -> Process]
    /\ cm \in [exists : BOOLEAN, progress : Progress]
    /\ begun \in SUBSET Phases
    /\ done \in SUBSET Phases
    /\ kmm \in {"unset", "signed", "unsigned"}
    /\ calm \in BOOLEAN

Live(p) == pod[p].pc \notin {"none", "exited"}
Active(p) == pod[p].pc # "none" /\ ~pod[p].lost

\* What is left of a process that ended.
Ended(p, code) ==
    Slot("exited", pod[p].dryRun, pod[p].validEnv, code, pod[p].lost)

Exit(p, code) == pod' = [pod EXCEPT ![p] = Ended(p, code)]

KMMFlag(flag) == IF flag THEN "signed" ELSE "unsigned"

Init ==
    /\ job \in [status : {"running"}, failures : {0}, dryRun : BOOLEAN, validEnv : BOOLEAN]
    /\ pod = [p \in Pods |-> NoPod]
    /\ cm = [exists |-> FALSE, progress |-> DefaultProgress]
    /\ begun = {}
    /\ done = {}
    /\ kmm = "unset"
    /\ calm = FALSE

-----------------------------------------------------------------------------
(* The Job controller, and the operator who replaces a finished Job.  Both
   are outside src/; deploy/migration-job.yaml gives the failure policy. *)

\* restartPolicy Never: a failed pod is replaced by a new one, when it is terminal.
CreatePod(p) ==
    /\ job.status = "running"
    /\ \A q \in Pods : ~Active(q)
    /\ pod[p].pc = "none"
    /\ pod' = [pod EXCEPT ![p] = Slot("boot", job.dryRun, job.validEnv, ExitOK, FALSE)]
    /\ UNCHANGED <<job, cm, begun, done, kmm, calm>>

Mut_JobAfterFailure ==  \* the limit is passed one failure too late
    [job EXCEPT !.failures = @ + 1,
                !.status = IF job.failures > BackoffLimit THEN "failed" ELSE "running"]

JobAfterFailure ==
    [job EXCEPT !.failures = @ + 1,
                !.status = IF job.failures + 1 > BackoffLimit THEN "failed" ELSE "running"]

JobAfterExit(code) ==
    IF code = ExitOK THEN [job EXCEPT !.status = "complete"]
    ELSE IF code = ExitFatal THEN [job EXCEPT !.status = "failed"]
    ELSE JobAfterFailure

\* The exit code of a pod that was given up reaches nobody.
ObserveExit(p) ==
    /\ pod[p].pc = "exited"
    /\ pod' = [pod EXCEPT ![p] = NoPod]
    /\ IF pod[p].lost THEN UNCHANGED job
       ELSE job.status = "running" /\ job' = JobAfterExit(pod[p].code)
    /\ UNCHANGED <<cm, begun, done, kmm, calm>>

\* The node is unreachable: the pod counts as failed, its process goes on.
LosePod(p) ==
    /\ AllowLoss /\ ~calm
    /\ job.status = "running"
    /\ Live(p) /\ ~pod[p].lost
    /\ pod' = [pod EXCEPT ![p].lost = TRUE]
    /\ job' = JobAfterFailure
    /\ UNCHANGED <<cm, begun, done, kmm, calm>>

\* Out of memory, eviction, node reboot.
Kill(p) ==
    /\ Live(p) /\ ~calm
    /\ Exit(p, Killed)
    /\ UNCHANGED <<job, cm, begun, done, kmm, calm>>

RecreateJob(dryRun, validEnv) ==
    /\ job.status # "running"
    /\ calm => ~dryRun /\ validEnv
    /\ job' = [status |-> "running", failures |-> 0, dryRun |-> dryRun,
               validEnv |-> validEnv]
    /\ UNCHANGED <<pod, cm, begun, done, kmm, calm>>

-----------------------------------------------------------------------------
(* Start of main: environment, in-cluster clients, checkpoint. *)


\* loadEnvConfig and NewInClusterContext
Boot(p) ==
    /\ pod[p].pc = "boot"
    /\ IF pod[p].validEnv THEN pod' = [pod EXCEPT ![p].pc = "read"]
                          ELSE Exit(p, ExitFatal)
    /\ UNCHANGED <<job, cm, begun, done, kmm, calm>>

Mut_AlreadyComplete(progress) ==  \* a recorded failure counts as an end, too
    progress.last >= NumPhases \/ progress.status # "in_progress"

Mut_AlreadyCompleteEarly(progress) ==  \* off by one
    progress.last >= NumPhases - 1 \/ progress.status = "completed"

AlreadyComplete(progress) ==
    progress.last >= NumPhases \/ progress.status = "completed"

Mut_StartPhaseAgain(progress) ==  \* resumes at the completed phase
    IF progress.last > 0 THEN progress.last ELSE 1

Mut_StartPhaseSkips(progress) ==  \* resumes after the phase that failed
    IF progress.last > 0 THEN progress.last + 1 + (IF progress.failed > 0 THEN 1 ELSE 0) ELSE 1

StartPhase(progress) == IF progress.last > 0 THEN progress.last + 1 ELSE 1

\* ReadMigrationProgress succeeds and determineStartPhase picks the first phase.
\* A dry run keeps the checkpoint it read, and starts from phase 1.
ReadProgress(p) ==
    /\ pod[p].pc = "read"
    /\ IF ~pod[p].dryRun /\ AlreadyComplete(cm.progress)
       THEN Exit(p, ExitOK)
       ELSE pod' = [pod EXCEPT
              ![p].pc = "ready",
              ![p].progress = cm.progress,
              ![p].secureBoot = ~pod[p].dryRun /\ cm.progress.secureBoot,
              ![p].phase = IF pod[p].dryRun THEN 1 ELSE StartPhase(cm.progress)]
    /\ UNCHANGED <<job, cm, begun, done, kmm, calm>>

\* The Get of the ConfigMap fails with anything but NotFound.
ReadFails(p) ==
    /\ pod[p].pc = "read" /\ ~calm
    /\ Exit(p, ExitFatal)
    /\ UNCHANGED <<job, cm, begun, done, kmm, calm>>

-----------------------------------------------------------------------------
(* The phase loop of main. *)

BeginPhase(p) ==
    /\ pod[p].pc = "ready"
    /\ pod[p].phase <= NumPhases
    /\ pod' = [pod EXCEPT ![p].pc = "running", ![p].acted = FALSE]
    /\ begun' = IF pod[p].dryRun THEN begun ELSE begun \cup {pod[p].phase}
    /\ UNCHANGED <<job, cm, done, kmm, calm>>

\* What CopySecureBootSigningSecretsIfPresent may answer: the truth, unless another pod
\* is already in the phase that removes the namespace which holds the secrets.
Detectable == {SecureBoot} \cup (IF EnablePhase \in begun THEN {FALSE} ELSE {})

\* Inside DetectPhase; the phase goes on, and may still fail.
Detect(p) ==
    /\ pod[p].pc = "running" /\ ~pod[p].acted
    /\ pod[p].phase = DetectPhase
    /\ \E flag \in Detectable :
           pod' = [pod EXCEPT ![p].secureBoot = flag, ![p].acted = TRUE]
    /\ UNCHANGED <<job, cm, begun, done, kmm, calm>>

\* Inside EnablePhase of a real run: EnableKMMInScaleCluster with the pod's flag.
EnableKMM(p) ==
    /\ pod[p].pc = "running" /\ ~pod[p].acted
    /\ pod[p].phase = EnablePhase /\ ~pod[p].dryRun
    /\ kmm' = KMMFlag(pod[p].secureBoot)
    /\ pod' = [pod EXCEPT ![p].acted = TRUE]
    /\ UNCHANGED <<job, cm, begun, done, calm>>

\* A phase cannot return nil before it took the step above that belongs to it.
Finished(p) ==
    \/ pod[p].acted
    \/ pod[p].phase \notin {DetectPhase, EnablePhase}
    \/ pod[p].phase = EnablePhase /\ pod[p].dryRun

Mut_AdvancedOldFlag(p) ==  \* the flag found by the phase is not recorded
    [last |-> pod[p].phase, secureBoot |-> pod[p].progress.secureBoot, failed |-> 0,
     status |-> "in_progress"]

Mut_AdvancedNoReset(p) ==  \* an earlier failure is not cleared
    [pod[p].progress EXCEPT !.last = pod[p].phase, !.secureBoot = pod[p].secureBoot]

\* The progress main records in memory after a phase, before it is written.
Advanced(p) == [last |-> pod[p].phase, secureBoot |-> pod[p].secureBoot,
                failed |-> 0, status |-> "in_progress"]

PhaseSucceeds(p) ==
    /\ pod[p].pc = "running"
    /\ Finished(p)
    /\ IF pod[p].dryRun
       THEN /\ pod' = [pod EXCEPT ![p].pc = "ready", ![p].phase = @ + 1]
            /\ UNCHANGED done
       ELSE /\ pod' = [pod EXCEPT ![p].pc = "get", ![p].saving = "checkpoint",
                                  ![p].progress = Advanced(p)]
            /\ done' = done \cup {pod[p].phase}
    /\ UNCHANGED <<job, cm, begun, kmm, calm>>

classifyFailure(phase) == IF phase = 1 THEN ExitFatal ELSE ExitRetryable

Mut_markFailedProgress(p) ==  \* a dry run records its failure
    pod' = [pod EXCEPT ![p].pc = "get", ![p].saving = "failed"]

\* Nothing is recorded in a dry run.
markFailedProgress(p) ==
    IF pod[p].dryRun THEN Exit(p, classifyFailure(pod[p].phase))
    ELSE pod' = [pod EXCEPT ![p].pc = "get", ![p].saving = "failed"]

PhaseFails(p) ==
    /\ pod[p].pc = "running" /\ ~calm
    /\ markFailedProgress(p)
    /\ UNCHANGED <<job, cm, begun, done, kmm, calm>>

\* The loop is over: a dry run returns, a real one marks the migration completed.
FinishLoop(p) ==
    /\ pod[p].pc = "ready"
    /\ pod[p].phase > NumPhases
    /\ IF pod[p].dryRun
       THEN Exit(p, ExitOK)
       ELSE pod' = [pod EXCEPT ![p].pc = "get", ![p].saving = "completed"]
    /\ UNCHANGED <<job, cm, begun, done, kmm, calm>>

-----------------------------------------------------------------------------
(* WriteMigrationProgress: ensureConfigMap gets or creates the ConfigMap,
   then Update replaces its data under the resourceVersion that was read.
   "fresh" stands for "the resourceVersion read is still the current one". *)

Mut_ToSaveReset(p) ==  \* a failure is recorded in a blank progress
    IF pod[p].saving = "failed"
    THEN [DefaultProgress EXCEPT !.status = "failed", !.failed = pod[p].phase]
    ELSE pod[p].progress

Mut_ToSaveFailedPhase(p) ==  \* a failed phase is recorded as the last one
    IF pod[p].saving = "failed"
    THEN [pod[p].progress EXCEPT !.last = pod[p].phase, !.status = "failed"]
    ELSE pod[p].progress

ToSave(p) ==
    CASE pod[p].saving = "checkpoint" -> pod[p].progress
      [] pod[p].saving = "failed" ->
             [pod[p].progress EXCEPT !.status = "failed", !.failed = pod[p].phase]
      [] pod[p].saving = "completed" ->
             [pod[p].progress EXCEPT !.last = NumPhases, !.status = "completed",
                                     !.failed = 0]

Mut_AfterSave(p) ==  \* a failed phase is tried again in the same pod
    CASE pod[p].saving = "checkpoint" ->
             [pod[p] EXCEPT !.pc = "ready", !.phase = @ + 1]
      [] pod[p].saving = "failed" -> [pod[p] EXCEPT !.pc = "ready"]
      [] pod[p].saving = "completed" -> Ended(p, ExitOK)

\* Where main goes when the write returned nil.
AfterSave(p) ==
    CASE pod[p].saving = "checkpoint" ->
             [pod[p] EXCEPT !.pc = "ready", !.phase = @ + 1]
      [] pod[p].saving = "failed" -> Ended(p, classifyFailure(pod[p].phase))
      [] pod[p].saving = "completed" -> Ended(p, ExitOK)

Mut_AfterSaveError(p) == AfterSave(p)  \* an unsaved checkpoint is only a warning, too

\* ... and when it returned an error: for a checkpoint it ends the pod, else it is a warning.
AfterSaveError(p) ==
    IF pod[p].saving = "checkpoint" THEN Ended(p, ExitRetryable) ELSE AfterSave(p)

EnsureGet(p) ==
    /\ pod[p].pc = "get"
    /\ pod' = [pod EXCEPT ![p].pc = IF cm.exists THEN "update" ELSE "create",
                          ![p].fresh = cm.exists]
    /\ UNCHANGED <<job, cm, begun, done, kmm, calm>>

\* AlreadyExists is answered by another Get: either way the pod holds a current copy.
EnsureCreate(p) ==
    /\ pod[p].pc = "create"
    /\ cm' = [cm EXCEPT !.exists = TRUE]
    /\ pod' = [pod EXCEPT ![p].pc = "update", ![p].fresh = TRUE]
    /\ UNCHANGED <<job, begun, done, kmm, calm>>

\* Every other copy of the ConfigMap is stale once the Update is applied.
ApplyUpdate(p, next) ==
    /\ pod[p].pc = "update" /\ pod[p].fresh
    /\ cm' = [exists |-> TRUE, progress |-> ToSave(p)]
    /\ pod' = [q \in Pods |-> IF q = p THEN next
                                       ELSE [pod[q] EXCEPT !.fresh = FALSE]]
    /\ UNCHANGED <<job, begun, done, kmm, calm>>

Update(p) == ApplyUpdate(p, AfterSave(p))

\* The server applied the Update and its answer never arrived.
UpdateReplyLost(p) == ~calm /\ ApplyUpdate(p, AfterSaveError(p))

\* The Get, the Create or the Update fails; a stale copy always conflicts.
SaveFails(p) ==
    /\ pod[p].pc \in Saving
    /\ calm => pod[p].pc = "update" /\ ~pod[p].fresh
    /\ pod' = [pod EXCEPT ![p] = AfterSaveError(p)]
    /\ UNCHANGED <<job, cm, begun, done, kmm, calm>>

-----------------------------------------------------------------------------

PodStep(p) ==
    \/ Boot(p) \/ ReadProgress(p) \/ ReadFails(p)
    \/ BeginPhase(p) \/ Detect(p) \/ EnableKMM(p)
    \/ PhaseSucceeds(p) \/ PhaseFails(p) \/ FinishLoop(p)
    \/ EnsureGet(p) \/ EnsureCreate(p) \/ Update(p) \/ UpdateReplyLost(p) \/ SaveFails(p)

ControllerStep(p) == CreatePod(p) \/ ObserveExit(p) \/ LosePod(p) \/ Kill(p)

\* From some moment on nothing outside the program fails any more: no API error, no
\* failing phase, no killed pod, and a new Job is a real run.  It need not come; where
\* pods get lost it never does.
Calm ==
    /\ ~calm /\ ~AllowLoss
    /\ calm' = TRUE
    /\ UNCHANGED <<job, pod, cm, begun, done, kmm>>

Next ==
    \/ Calm
    \/ \E p \in Pods : PodStep(p) \/ ControllerStep(p)
    \/ \E dryRun, validEnv \in BOOLEAN : RecreateJob(dryRun, validEnv)

Spec == Init /\ [][Next]_vars

\* Every wait of a phase has a timeout, so a process always takes another step, and so
\* does the Job controller; a finished Job is replaced once failures are over.
Fairness ==
    /\ \A p \in Pods : WF_vars(PodStep(p)) /\ WF_vars(ObserveExit(p) \/ CreatePod(p))
    /\ WF_vars(calm /\ RecreateJob(FALSE, TRUE))

FairSpec == Spec /\ Fairness

-----------------------------------------------------------------------------
(* Properties *)

\* main.go:128-138, state.go:131-157: whatever pod wrote it last, the checkpoint never
\* names a phase that did not return nil.
CheckpointSound == 1..cm.progress.last \subseteq done

\* main.go:115-119: no phase is entered on a cluster whose earlier phases are not all
\* done; a torn-down Fusion Access is never followed by a step that expects its successor.
NoPhaseSkipped == \A k \in begun : 1..(k - 1) \subseteq done

\* A Job that reports success, be it from the loop, from an already complete checkpoint
\* or after a warning, leaves a cluster on which all the phases were done.
CompleteMeansDone ==
    job.status = "complete" /\ ~job.dryRun => done = Phases

\* main.go:134-147: a Job that reports success leaves a checkpoint that says so,
\* also where the write of the final mark failed and was only a warning: the next Job
\* does not run a single phase again on the migrated cluster.
SuccessIsCheckpointed ==
    job.status = "complete" /\ ~job.dryRun => cm.progress.last = NumPhases

\* main.go:86-88,130: KMM is enabled with the flag that DetectPhase found, also when the
\* two phases ran in different pods and other phases failed in between.
SecureBootCarried == kmm \in {"unset", KMMFlag(SecureBoot)}

\* state.go:159-172: the status says what the checkpoint says: a failure is that of the
\* phase after the checkpoint, a completion is that of the last phase.
Consistent(progress) ==
    /\ progress.status = "failed" => progress.failed = progress.last + 1
    /\ progress.status = "completed" => progress.last = NumPhases
    /\ progress.status # "failed" => progress.failed = 0

StatusConsistent == Consistent(cm.progress)

\* A real pod only ever runs the phase after the stored checkpoint: what is checkpointed
\* is never repeated, even when the answer of the Update that stored it was lost.
RunsNextPhase ==
    \A p \in Pods : pod[p].pc = "running" /\ ~pod[p].dryRun =>
        pod[p].phase = cm.progress.last + 1

\* Seen through the phases begun and done and the stored checkpoint, the whole Job with its
\* crashes, retries and lost answers is the ladder of PhaseLadder: each phase is begun only
\* upon the checkpoint of the one below, and no checkpoint is ever taken back.
Ladder == INSTANCE PhaseLadder WITH climbed <- done, saved <- cm.progress.last
ImplementsLadder == Ladder!Spec

\* README.md:86,111: while only dry runs live, the ConfigMap and the cluster stay as they are.
DryRunReadOnly ==
    [][(\A p \in Pods : Live(p) => pod[p].dryRun) =>
          UNCHANGED <<cm, begun, done, kmm>>]_vars

\* The Job always comes to an end: the retries are bounded, no pod hangs.
JobSettles == []<>(job.status # "running")

\* Whatever failed before, once failures stop the migration gets done and recorded: no
\* checkpoint, status or exit code leaves a state the next Job cannot go on from.
MigrationGetsDone == calm ~> (done = Phases /\ cm.progress.last = NumPhases)

-----------------------------------------------------------------------------
(* What README.md says, and the code does not do *)

\* README.md:104-105: "Retryable failures exit with code `1`", "Fatal
\* validation/preflight failures exit with code `42`": with the preflight behind it and a
\* valid environment no real pod exits with 42.
FatalOnlyInPreflight ==
    \A p \in Pods :
        pod[p].pc = "exited" /\ pod[p].code = ExitFatal /\ ~pod[p].dryRun /\ pod[p].validEnv
            => cm.progress.last = 0

\* README.md:100: "On final success, state is marked `completed`."
SuccessIsMarked ==
    job.status = "complete" /\ ~job.dryRun => cm.progress.status = "completed"
=============================================================================
