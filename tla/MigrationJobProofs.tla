------------------------- MODULE MigrationJobProofs -------------------------
(***************************************************************************)
(* Theorems about MigrationJob, for any number of pods, phases and retries.*)
(* Sound is inductive with or without lost pods and gives the safety       *)
(* properties of both runs; Exclusive adds what holds when no pod is ever  *)
(* given up while it still runs, and gives the refinement of PhaseLadder.  *)
(***************************************************************************)
EXTENDS MigrationJob, TLAPS

Working == {"ready", "running"} \cup Saving

\* What the memory of a real pod says about the cluster.
PodSound(p) ==
    /\ pod[p].pc \in {"ready", "running"} => pod[p].phase = pod[p].progress.last + 1
    /\ pod[p].pc = "running" => pod[p].phase \in Phases
    /\ pod[p].pc \in Saving =>
          /\ pod[p].saving = "checkpoint" => /\ pod[p].phase = pod[p].progress.last
                                             /\ pod[p].phase \in Phases
          /\ pod[p].saving = "failed" => /\ pod[p].phase = pod[p].progress.last + 1
                                         /\ pod[p].phase \in Phases
          /\ pod[p].saving = "completed" => pod[p].progress.last = NumPhases
    /\ pod[p].pc \in Working => /\ 1..pod[p].progress.last \subseteq done
                                /\ Consistent(pod[p].progress)
    /\ pod[p].pc = "exited" /\ pod[p].code = ExitOK => Phases \subseteq done

DrySound(p) ==
    /\ pod[p].pc \notin Saving
    /\ pod[p].pc = "running" => pod[p].phase \in Phases

\* The Job controller follows one pod at a time.
ControllerSound ==
    /\ \A p, q \in Pods : Active(p) /\ Active(q) => p = q
    /\ job.status = "running" => job.failures <= BackoffLimit
    /\ \A p \in Pods : Active(p) => /\ job.status = "running"
                                    /\ pod[p].dryRun = job.dryRun

Sound ==
    /\ TypeOK
    /\ CheckpointSound
    /\ NoPhaseSkipped
    /\ CompleteMeansDone
    /\ StatusConsistent
    /\ ControllerSound
    /\ \A p \in Pods : IF pod[p].dryRun THEN DrySound(p) ELSE PodSound(p)

\* The memory of a real pod agrees with the ConfigMap that only it writes.
PodCurrent(p) ==
    /\ pod[p].pc \in {"ready", "running"} => pod[p].progress.last = cm.progress.last
    /\ pod[p].pc \in Saving =>
          pod[p].progress.last = IF pod[p].saving = "checkpoint" THEN cm.progress.last + 1
                                                                 ELSE cm.progress.last
    /\ pod[p].pc \in Saving /\ pod[p].saving = "checkpoint" => pod[p].phase \in done

\* The secure-boot flag, wherever DetectPhase is behind.
FlagKept(p) ==
    /\ pod[p].pc \in Working /\ pod[p].progress.last >= DetectPhase =>
          pod[p].progress.secureBoot = SecureBoot /\ pod[p].secureBoot = SecureBoot
    /\ pod[p].pc = "running" /\ pod[p].phase = DetectPhase /\ pod[p].acted =>
          pod[p].secureBoot = SecureBoot

Exclusive ==
    /\ \A p \in Pods : ~pod[p].lost
    /\ \A p \in Pods : ~pod[p].dryRun => PodCurrent(p) /\ FlagKept(p)
    /\ done \in {1..cm.progress.last, 1..(cm.progress.last + 1)}
    /\ EnablePhase \in begun => cm.progress.last >= DetectPhase
    /\ \A p \in Pods : pod[p].pc = "running" /\ ~pod[p].dryRun => pod[p].phase \in begun
    /\ cm.progress.last >= DetectPhase => cm.progress.secureBoot = SecureBoot
    /\ SecureBootCarried

-----------------------------------------------------------------------------
(* Types *)

LEMMA SlotType ==
    ASSUME NEW pc \in PCs, NEW dryRun \in BOOLEAN, NEW validEnv \in BOOLEAN,
           NEW code \in ExitCodes, NEW lost \in BOOLEAN
    PROVE  Slot(pc, dryRun, validEnv, code, lost) \in Process
<1>1. DefaultProgress \in Progress
  BY PhasesAssumption DEF DefaultProgress, Progress
<1> QED
  BY <1>1, PhasesAssumption DEF Slot, Process

LEMMA ProcessFacts ==
    ASSUME TypeOK, NEW p \in Pods
    PROVE  /\ pod[p] \in Process
           /\ NoPod \in Process
           /\ \A code \in ExitCodes : Ended(p, code) \in Process
<1>1. pod[p] \in Process
  BY DEF TypeOK
<1>2. /\ "none" \in PCs /\ "exited" \in PCs /\ ExitOK \in ExitCodes
      /\ pod[p].dryRun \in BOOLEAN /\ pod[p].validEnv \in BOOLEAN /\ pod[p].lost \in BOOLEAN
  BY <1>1 DEF Process, PCs, ExitCodes
<1> QED
  BY <1>1, <1>2, SlotType DEF NoPod, Ended

\* Assigning a field keeps the type: an update of several fields is a chain of these.
LEMMA FieldTypes ==
    ASSUME NEW p \in Pods, NEW f \in [Pods -> Process]
    PROVE  /\ \A v \in PCs : [f EXCEPT ![p].pc = v] \in [Pods -> Process]
           /\ \A v \in 1..(NumPhases + 1) : [f EXCEPT ![p].phase = v] \in [Pods -> Process]
           /\ \A v \in Progress : [f EXCEPT ![p].progress = v] \in [Pods -> Process]
           /\ \A v \in BOOLEAN : [f EXCEPT ![p].secureBoot = v] \in [Pods -> Process]
           /\ \A v \in {"checkpoint", "failed", "completed"} :
                 [f EXCEPT ![p].saving = v] \in [Pods -> Process]
           /\ \A v \in BOOLEAN : [f EXCEPT ![p].fresh = v] \in [Pods -> Process]
           /\ \A v \in BOOLEAN : [f EXCEPT ![p].acted = v] \in [Pods -> Process]
           /\ \A v \in BOOLEAN : [f EXCEPT ![p].lost = v] \in [Pods -> Process]
           /\ \A v \in Process : [f EXCEPT ![p] = v] \in [Pods -> Process]
  BY DEF Process

-----------------------------------------------------------------------------
(* Steps of a pod *)

\* What every step of a pod's process leaves alone.
StepOf(p) ==
    /\ UNCHANGED job
    /\ \A q \in Pods \ {p} :
          /\ pod'[q].pc = pod[q].pc /\ pod'[q].dryRun = pod[q].dryRun
          /\ pod'[q].phase = pod[q].phase /\ pod'[q].progress = pod[q].progress
          /\ pod'[q].saving = pod[q].saving /\ pod'[q].code = pod[q].code
          /\ pod'[q].lost = pod[q].lost
    /\ pod[p].pc # "none" /\ pod'[p].pc # "none"
    /\ pod'[p].dryRun = pod[p].dryRun
    /\ pod'[p].lost = pod[p].lost
    /\ done \subseteq done'

LEMMA StepFrame ==
    ASSUME Sound, NEW p \in Pods, StepOf(p),
           TypeOK', CheckpointSound', NoPhaseSkipped', StatusConsistent',
           IF pod[p].dryRun THEN DrySound(p)' ELSE PodSound(p)'
    PROVE  Sound'
<1>1. \A q \in Pods : /\ pod'[q].dryRun = pod[q].dryRun
                      /\ pod'[q].lost = pod[q].lost
                      /\ pod'[q].pc = "none" <=> pod[q].pc = "none"
  BY DEF StepOf
<1>2. ControllerSound'
  BY <1>1 DEF Sound, ControllerSound, Active, StepOf
<1>3. CompleteMeansDone'
  BY DEF Sound, CompleteMeansDone, StepOf, TypeOK
<1>4. ASSUME NEW q \in Pods, q # p
      PROVE  IF pod'[q].dryRun THEN DrySound(q)' ELSE PodSound(q)'
  <2>2. /\ pod'[q].pc = pod[q].pc /\ pod'[q].dryRun = pod[q].dryRun
        /\ pod'[q].phase = pod[q].phase /\ pod'[q].progress = pod[q].progress
        /\ pod'[q].saving = pod[q].saving /\ pod'[q].code = pod[q].code
    BY <1>4 DEF StepOf
  <2>3. IF pod[q].dryRun THEN DrySound(q) ELSE PodSound(q)
    BY DEF Sound
  <2>4. CASE pod[q].dryRun
    BY <2>2, <2>3, <2>4 DEF DrySound
  <2>5. CASE ~pod[q].dryRun
    <3>1. PodSound(q)
      BY <2>3, <2>5
    <3>2. done \subseteq done'
      BY DEF StepOf
    <3> QED
      BY <2>2, <2>5, <3>1, <3>2 DEF PodSound
  <2> QED
    BY <2>4, <2>5
<1> QED
  BY <1>1, <1>2, <1>3, <1>4 DEF Sound

\* Only the memory of one pod changes, or the flag KMM runs with.
Quiet(p) ==
    /\ UNCHANGED <<job, cm, begun, done, calm>>
    /\ kmm' \in {"unset", "signed", "unsigned"}
    /\ \A q \in Pods \ {p} : pod'[q] = pod[q]
    /\ pod' \in [Pods -> Process]
    /\ pod[p].pc # "none" /\ pod'[p].pc # "none"
    /\ pod'[p].dryRun = pod[p].dryRun
    /\ pod'[p].lost = pod[p].lost

LEMMA QuietFrame ==
    ASSUME Sound, NEW p \in Pods, Quiet(p),
           IF pod[p].dryRun THEN DrySound(p)' ELSE PodSound(p)'
    PROVE  Sound'
<1>1. StepOf(p)
  BY DEF Quiet, StepOf
<1>2. TypeOK'
  BY DEF Sound, TypeOK, Quiet
<1>3. CheckpointSound' /\ NoPhaseSkipped' /\ StatusConsistent'
  BY DEF Sound, Quiet, CheckpointSound, NoPhaseSkipped, StatusConsistent
<1> QED
  BY <1>1, <1>2, <1>3, StepFrame

LEMMA EndedFacts ==
    ASSUME NEW p \in Pods, NEW code
    PROVE  /\ Ended(p, code).pc = "exited"
           /\ Ended(p, code).code = code
           /\ Ended(p, code).dryRun = pod[p].dryRun
           /\ Ended(p, code).lost = pod[p].lost
  BY DEF Ended, Slot

\* A pod that ends with anything but success, in a dry run or with all phases done.
LEMMA ExitSound ==
    ASSUME Sound, NEW p \in Pods, NEW code \in ExitCodes, Exit(p, code),
           pod[p].pc # "none", UNCHANGED <<job, cm, begun, done, kmm, calm>>,
           pod[p].dryRun \/ code # ExitOK \/ Phases \subseteq done
    PROVE  Sound'
<1>1. pod \in [Pods -> Process] /\ Ended(p, code) \in Process
  BY ProcessFacts DEF Sound, TypeOK
<1>2. /\ pod' = [pod EXCEPT ![p] = Ended(p, code)]
      /\ pod'[p] = Ended(p, code)
      /\ \A q \in Pods \ {p} : pod'[q] = pod[q]
  BY <1>1 DEF Exit
<1>3. /\ pod'[p].pc = "exited" /\ pod'[p].code = code
      /\ pod'[p].dryRun = pod[p].dryRun /\ pod'[p].lost = pod[p].lost
  BY <1>2, EndedFacts
<1>4. pod' \in [Pods -> Process]
  BY <1>1, <1>2, FieldTypes
<1>5. kmm' \in {"unset", "signed", "unsigned"}
  BY DEF Sound, TypeOK
<1>6. Quiet(p)
  BY <1>2, <1>3, <1>4, <1>5 DEF Quiet
<1>7. CASE pod[p].dryRun
  BY <1>3, <1>6, <1>7, QuietFrame DEF DrySound, Saving
<1>8. CASE ~pod[p].dryRun
  <2>1. PodSound(p)'
    BY <1>3, <1>8 DEF PodSound, Saving, Working
  <2> QED
    BY <2>1, <1>6, <1>8, QuietFrame
<1> QED
  BY <1>7, <1>8

LEMMA ExitTypes ==
    /\ ExitOK \in ExitCodes /\ ExitRetryable \in ExitCodes
    /\ ExitFatal \in ExitCodes /\ Killed \in ExitCodes
    /\ ExitFatal # ExitOK /\ ExitRetryable # ExitOK /\ Killed # ExitOK
    /\ \A phase : classifyFailure(phase) \in ExitCodes \ {ExitOK}
  BY DEF ExitCodes, ExitOK, ExitRetryable, ExitFatal, Killed, classifyFailure

LEMMA BootSound ==
    ASSUME Sound, NEW p \in Pods, Boot(p)
    PROVE  Sound'
<1>1. pod \in [Pods -> Process] /\ "read" \in PCs
  BY DEF Sound, TypeOK, PCs
<1>2. CASE pod[p].validEnv
  <2>1. pod' = [pod EXCEPT ![p].pc = "read"]
    BY <1>2 DEF Boot
  <2>2. pod' \in [Pods -> Process]
    BY <1>1, <2>1, FieldTypes
  <2>3. /\ pod'[p].pc = "read" /\ pod'[p].dryRun = pod[p].dryRun
        /\ pod'[p].lost = pod[p].lost
        /\ \A q \in Pods \ {p} : pod'[q] = pod[q]
    BY <1>1, <2>1 DEF Process
  <2>4. Quiet(p)
    BY <2>2, <2>3 DEF Quiet, Boot, Sound, TypeOK
  <2>5. DrySound(p)' /\ PodSound(p)'
    BY <2>3 DEF DrySound, PodSound, Saving, Working
  <2> QED
    BY <2>4, <2>5, QuietFrame
<1>3. CASE ~pod[p].validEnv
  BY <1>3, ExitTypes, ExitSound DEF Boot
<1> QED
  BY <1>2, <1>3

LEMMA ReadProgressSound ==
    ASSUME Sound, NEW p \in Pods, ReadProgress(p)
    PROVE  Sound'
<1>1. pod \in [Pods -> Process] /\ cm.progress \in Progress
  BY DEF Sound, TypeOK
<1>2. StartPhase(cm.progress) \in 1..(NumPhases + 1) /\ cm.progress.secureBoot \in BOOLEAN
      /\ StartPhase(cm.progress) = cm.progress.last + 1
  BY <1>1, PhasesAssumption DEF StartPhase, Progress
<1>3. CASE ~pod[p].dryRun /\ AlreadyComplete(cm.progress)
  <2>1. cm.progress.last = NumPhases
    BY <1>1, <1>3, PhasesAssumption DEF AlreadyComplete, Progress, Sound, StatusConsistent, Consistent
  <2>2. Phases \subseteq done
    BY <2>1 DEF Sound, CheckpointSound, Phases
  <2> QED
    BY <1>3, <2>2, ExitTypes, ExitSound DEF ReadProgress
<1>4. CASE ~(~pod[p].dryRun /\ AlreadyComplete(cm.progress))
  <2> DEFINE b == ~pod[p].dryRun /\ cm.progress.secureBoot
             n == IF pod[p].dryRun THEN 1 ELSE StartPhase(cm.progress)
             f1 == [pod EXCEPT ![p].pc = "ready"]
             f2 == [f1 EXCEPT ![p].progress = cm.progress]
             f3 == [f2 EXCEPT ![p].secureBoot = b]
  <2>1. b \in BOOLEAN /\ n \in 1..(NumPhases + 1) /\ "ready" \in PCs
    BY <1>2, PhasesAssumption DEF PCs
  <2>2. pod' = [f3 EXCEPT ![p].phase = n]
    BY <1>4 DEF ReadProgress
  <2>3. ~pod[p].dryRun => n = cm.progress.last + 1
    BY <1>2
  <2> HIDE DEF b, n
  <2>4. pod' \in [Pods -> Process]
    BY <2>1, <2>2, <1>1, FieldTypes
  <2>5. /\ pod'[p].pc = "ready" /\ pod'[p].dryRun = pod[p].dryRun
        /\ pod'[p].lost = pod[p].lost
        /\ pod'[p].progress = cm.progress /\ pod'[p].phase = n
        /\ \A q \in Pods \ {p} : pod'[q] = pod[q]
    BY <1>1, <2>2 DEF Process
  <2>6. Quiet(p)
    BY <2>4, <2>5 DEF Quiet, ReadProgress, Sound, TypeOK
  <2>7. CASE pod[p].dryRun
    BY <2>5, <2>6, <2>7, QuietFrame DEF DrySound, Saving
  <2>8. CASE ~pod[p].dryRun
    <3>1. done' = done
      BY DEF ReadProgress
    <3>2. PodSound(p)'
      BY <2>3, <2>5, <2>8, <3>1
      DEF PodSound, Saving, Working, Sound, CheckpointSound, StatusConsistent, Consistent
    <3> QED
      BY <2>6, <2>8, <3>2, QuietFrame
  <2> QED
    BY <2>7, <2>8
<1> QED
  BY <1>3, <1>4

LEMMA ReadFailsSound ==
    ASSUME Sound, NEW p \in Pods, ReadFails(p)
    PROVE  Sound'
  BY ExitTypes, ExitSound DEF ReadFails

\* In the middle of a phase, or at its beginning: the pod's place does not change.
InPhase(p) ==
    /\ pod'[p].pc = "running"
    /\ pod'[p].phase = pod[p].phase
    /\ pod'[p].progress = pod[p].progress
    /\ pod'[p].dryRun = pod[p].dryRun
    /\ pod'[p].lost = pod[p].lost
    /\ \A q \in Pods \ {p} : pod'[q] = pod[q]

LEMMA InPhaseSound ==
    ASSUME Sound, NEW p \in Pods, InPhase(p), pod[p].pc \in {"ready", "running"},
           pod[p].phase \in Phases, done' = done
    PROVE  IF pod[p].dryRun THEN DrySound(p)' ELSE PodSound(p)'
<1>1. CASE pod[p].dryRun
  BY <1>1 DEF InPhase, DrySound, Saving
<1>2. CASE ~pod[p].dryRun
  <2>1. PodSound(p)
    BY <1>2 DEF Sound
  <2>2. PodSound(p)'
    BY <2>1 DEF InPhase, PodSound, Saving, Working
  <2> QED
    BY <1>2, <2>2
<1> QED
  BY <1>1, <1>2

LEMMA BeginPhaseSound ==
    ASSUME Sound, NEW p \in Pods, BeginPhase(p)
    PROVE  Sound'
<1>1. /\ pod \in [Pods -> Process] /\ "running" \in PCs
      /\ pod[p].phase \in 1..(NumPhases + 1)
  BY DEF Sound, TypeOK, PCs, Process
<1>2. pod[p].phase \in Phases
  BY <1>1, PhasesAssumption DEF BeginPhase, Phases
<1>3. pod' \in [Pods -> Process]
  <2> DEFINE f1 == [pod EXCEPT ![p].pc = "running"]
  <2>1. pod' = [f1 EXCEPT ![p].acted = FALSE]
    BY DEF BeginPhase
  <2> QED
    BY <1>1, <2>1, FieldTypes
<1>4. InPhase(p)
  BY <1>1 DEF BeginPhase, InPhase, Process
<1>5. begun' \in SUBSET Phases
  BY <1>2 DEF BeginPhase, Sound, TypeOK
<1>6. TypeOK'
  BY <1>3, <1>5 DEF Sound, TypeOK, BeginPhase
<1>7. CheckpointSound' /\ StatusConsistent'
  BY DEF Sound, BeginPhase, CheckpointSound, StatusConsistent
<1>8. NoPhaseSkipped'
  <2>1. CASE pod[p].dryRun
    BY <2>1 DEF Sound, BeginPhase, NoPhaseSkipped
  <2>2. CASE ~pod[p].dryRun
    <3>1. pod[p].phase - 1 = pod[p].progress.last /\ 1..pod[p].progress.last \subseteq done
      <4>1. pod[p] \in Process /\ pod[p].progress \in Progress
        BY <1>1 DEF Process
      <4>2. pod[p].progress.last \in Nat
        BY <4>1, PhasesAssumption DEF Progress
      <4> QED
        BY <2>2, <4>2 DEF Sound, PodSound, BeginPhase, Working
    <3>2. begun' = begun \cup {pod[p].phase} /\ done' = done
      BY <2>2 DEF BeginPhase
    <3> QED
      BY <3>1, <3>2 DEF Sound, NoPhaseSkipped
  <2> QED
    BY <2>1, <2>2
<1>9. StepOf(p)
  BY <1>4 DEF StepOf, InPhase, BeginPhase
<1> QED
  BY <1>2, <1>4, <1>6, <1>7, <1>8, <1>9, InPhaseSound, StepFrame DEF BeginPhase

LEMMA DetectSound ==
    ASSUME Sound, NEW p \in Pods, Detect(p)
    PROVE  Sound'
<1>1. pod \in [Pods -> Process] /\ pod[p].phase \in Phases
  BY PhasesAssumption DEF Sound, TypeOK, Detect, Phases
<1>2. PICK flag \in Detectable :
         pod' = [pod EXCEPT ![p].secureBoot = flag, ![p].acted = TRUE]
  BY DEF Detect
<1>3. flag \in BOOLEAN
  BY JobAssumption DEF Detectable
<1>4. pod' \in [Pods -> Process]
  <2> DEFINE f1 == [pod EXCEPT ![p].secureBoot = flag]
  <2>1. pod' = [f1 EXCEPT ![p].acted = TRUE]
    BY <1>2
  <2> QED
    BY <1>1, <1>3, <2>1, FieldTypes
<1>5. InPhase(p)
  BY <1>1, <1>2 DEF InPhase, Detect, Process
<1>6. Quiet(p)
  BY <1>4, <1>5 DEF Quiet, InPhase, Detect, Sound, TypeOK
<1> QED
  BY <1>1, <1>5, <1>6, InPhaseSound, QuietFrame DEF Detect

LEMMA EnableKMMSound ==
    ASSUME Sound, NEW p \in Pods, EnableKMM(p)
    PROVE  Sound'
<1>1. pod \in [Pods -> Process] /\ pod[p].phase \in Phases
  BY PhasesAssumption DEF Sound, TypeOK, EnableKMM, Phases
<1>2. pod' \in [Pods -> Process]
  BY <1>1, FieldTypes DEF EnableKMM
<1>3. InPhase(p)
  BY <1>1 DEF InPhase, EnableKMM, Process
<1>4. Quiet(p)
  BY <1>2, <1>3 DEF Quiet, InPhase, EnableKMM, KMMFlag, Sound, TypeOK
<1> QED
  BY <1>1, <1>3, <1>4, InPhaseSound, QuietFrame DEF EnableKMM

LEMMA PhaseSucceedsSound ==
    ASSUME Sound, NEW p \in Pods, PhaseSucceeds(p)
    PROVE  Sound'
<1>1. /\ pod \in [Pods -> Process] /\ pod[p] \in Process /\ pod[p].phase \in Phases
      /\ "ready" \in PCs /\ "get" \in PCs
  BY DEF Sound, TypeOK, PhaseSucceeds, DrySound, PodSound, PCs, Saving
<1>2. CASE pod[p].dryRun
  <2> DEFINE f1 == [pod EXCEPT ![p].pc = "ready"]
             n == pod[p].phase + 1
  <2>1. pod' = [f1 EXCEPT ![p].phase = n] /\ done' = done
    BY <1>1, <1>2 DEF PhaseSucceeds
  <2>2. n \in 1..(NumPhases + 1)
    BY <1>1, PhasesAssumption DEF Phases
  <2> HIDE DEF n
  <2>3. pod' \in [Pods -> Process]
    BY <1>1, <2>1, <2>2, FieldTypes
  <2>4. /\ pod'[p].pc = "ready" /\ pod'[p].dryRun = pod[p].dryRun
        /\ pod'[p].lost = pod[p].lost
        /\ \A q \in Pods \ {p} : pod'[q] = pod[q]
    BY <1>1, <2>1 DEF Process
  <2>5. Quiet(p)
    BY <2>1, <2>3, <2>4 DEF Quiet, PhaseSucceeds, Sound, TypeOK
  <2> QED
    BY <1>2, <2>4, <2>5, QuietFrame DEF DrySound, Saving
<1>3. CASE ~pod[p].dryRun
  <2> DEFINE f1 == [pod EXCEPT ![p].pc = "get"]
             f2 == [f1 EXCEPT ![p].saving = "checkpoint"]
             a == Advanced(p)
  <2>1. pod' = [f2 EXCEPT ![p].progress = a] /\ done' = done \cup {pod[p].phase}
    BY <1>3 DEF PhaseSucceeds
  <2>2. a \in Progress /\ a.last = pod[p].phase /\ Consistent(a)
    BY <1>1, PhasesAssumption DEF Advanced, Progress, Phases, Process, Consistent
  <2> HIDE DEF a
  <2>3. pod' \in [Pods -> Process]
    BY <1>1, <2>1, <2>2, FieldTypes
  <2>4. /\ pod'[p].pc = "get" /\ pod'[p].dryRun = pod[p].dryRun
        /\ pod'[p].lost = pod[p].lost /\ pod'[p].saving = "checkpoint"
        /\ pod'[p].progress = a /\ pod'[p].phase = pod[p].phase
        /\ \A q \in Pods \ {p} : pod'[q] = pod[q]
    BY <1>1, <2>1 DEF Process
  <2>5. TypeOK'
    BY <1>1, <2>1, <2>3 DEF Sound, TypeOK, PhaseSucceeds
  <2>6. CheckpointSound' /\ StatusConsistent' /\ NoPhaseSkipped'
    BY <2>1 DEF Sound, PhaseSucceeds, CheckpointSound, StatusConsistent, NoPhaseSkipped
  <2>7. 1..pod[p].phase \subseteq done'
    <3>1. pod[p].progress.last \in Nat /\ pod[p].phase = pod[p].progress.last + 1
          /\ 1..pod[p].progress.last \subseteq done
      BY <1>1, <1>3, PhasesAssumption
      DEF Process, Progress, Sound, PodSound, PhaseSucceeds, Working
    <3> QED
      BY <2>1, <3>1
  <2>8. PodSound(p)'
    BY <1>1, <2>2, <2>4, <2>7 DEF PodSound, Saving, Working
  <2>9. StepOf(p)
    BY <2>1, <2>4 DEF StepOf, PhaseSucceeds
  <2> QED
    BY <1>3, <2>5, <2>6, <2>8, <2>9, StepFrame
<1> QED
  BY <1>2, <1>3

LEMMA GoSave ==
    ASSUME Sound, NEW p \in Pods, NEW what \in {"failed", "completed"},
           pod' = [pod EXCEPT ![p].pc = "get", ![p].saving = what],
           UNCHANGED <<job, cm, begun, done, kmm, calm>>,
           ~pod[p].dryRun, pod[p].pc \in {"ready", "running"},
           what = "failed" => pod[p].pc = "running",
           what = "completed" => pod[p].phase > NumPhases
    PROVE  Sound'
<1>1. pod \in [Pods -> Process] /\ pod[p] \in Process /\ "get" \in PCs
  BY DEF Sound, TypeOK, PCs, Saving
<1>2. pod' \in [Pods -> Process]
  <2> DEFINE f1 == [pod EXCEPT ![p].pc = "get"]
  <2>1. what \in {"checkpoint", "failed", "completed"}
    OBVIOUS
  <2>2. f1 \in [Pods -> Process]
    BY <1>1, FieldTypes
  <2>3. [f1 EXCEPT ![p].saving = what] \in [Pods -> Process]
    <3> HIDE DEF f1
    <3> QED
      BY <2>1, <2>2, FieldTypes
  <2> QED
    BY <2>3
<1>3. /\ pod'[p].pc = "get" /\ pod'[p].saving = what
      /\ pod'[p].dryRun = pod[p].dryRun /\ pod'[p].lost = pod[p].lost
      /\ pod'[p].phase = pod[p].phase /\ pod'[p].progress = pod[p].progress
      /\ \A q \in Pods \ {p} : pod'[q] = pod[q]
  BY <1>1 DEF Process
<1>4. Quiet(p)
  BY <1>2, <1>3 DEF Quiet, Sound, TypeOK
<1>5. PodSound(p)
  BY DEF Sound
<1>6. what = "completed" => pod[p].progress.last = NumPhases
  <2>1. pod[p].progress.last \in 0..NumPhases /\ pod[p].phase = pod[p].progress.last + 1
    BY <1>1, <1>5 DEF Process, Progress, PodSound
  <2> QED
    BY <2>1, PhasesAssumption
<1>7. PodSound(p)'
  BY <1>3, <1>5, <1>6 DEF PodSound, Saving, Working
<1> QED
  BY <1>4, <1>7, QuietFrame

LEMMA PhaseFailsSound ==
    ASSUME Sound, NEW p \in Pods, PhaseFails(p)
    PROVE  Sound'
<1>1. CASE pod[p].dryRun
  BY <1>1, ExitTypes, ExitSound DEF PhaseFails, markFailedProgress
<1>2. CASE ~pod[p].dryRun
  BY <1>2, GoSave DEF PhaseFails, markFailedProgress
<1> QED
  BY <1>1, <1>2

LEMMA FinishLoopSound ==
    ASSUME Sound, NEW p \in Pods, FinishLoop(p)
    PROVE  Sound'
<1>1. CASE pod[p].dryRun
  BY <1>1, ExitTypes, ExitSound DEF FinishLoop
<1>2. CASE ~pod[p].dryRun
  BY <1>2, GoSave DEF FinishLoop
<1> QED
  BY <1>1, <1>2

-----------------------------------------------------------------------------
(* Writing the progress *)

\* A pod that writes is a real one, and it does not forget what it is about to write.
InSave(p) ==
    /\ pod'[p].pc \in Saving
    /\ pod'[p].saving = pod[p].saving
    /\ pod'[p].phase = pod[p].phase
    /\ pod'[p].progress = pod[p].progress
    /\ pod'[p].dryRun = pod[p].dryRun
    /\ pod'[p].lost = pod[p].lost
    /\ \A q \in Pods \ {p} : pod'[q] = pod[q]

LEMMA InSaveSound ==
    ASSUME Sound, NEW p \in Pods, InSave(p), pod[p].pc \in Saving,
           UNCHANGED <<job, begun, done, kmm, calm>>, pod' \in [Pods -> Process],
           cm'.progress = cm.progress, cm' \in [exists : BOOLEAN, progress : Progress]
    PROVE  Sound'
<1>1. ~pod[p].dryRun /\ PodSound(p)
  BY DEF Sound, DrySound
<1>2. PodSound(p)'
  BY <1>1 DEF InSave, PodSound, Saving, Working
<1>3. StepOf(p)
  BY DEF InSave, StepOf, Saving
<1>4. TypeOK'
  BY DEF Sound, TypeOK
<1>5. CheckpointSound' /\ NoPhaseSkipped' /\ StatusConsistent'
  BY DEF Sound, CheckpointSound, NoPhaseSkipped, StatusConsistent
<1> QED
  BY <1>1, <1>2, <1>3, <1>4, <1>5, StepFrame

LEMMA EnsureGetSound ==
    ASSUME Sound, NEW p \in Pods, EnsureGet(p)
    PROVE  Sound'
<1> DEFINE c == IF cm.exists THEN "update" ELSE "create"
           e == cm.exists
           f1 == [pod EXCEPT ![p].pc = c]
<1>1. pod \in [Pods -> Process] /\ cm \in [exists : BOOLEAN, progress : Progress]
  BY DEF Sound, TypeOK
<1>2. c \in {"update", "create"} /\ c \in PCs /\ e \in BOOLEAN
  BY <1>1 DEF PCs, Saving
<1>3. pod' = [f1 EXCEPT ![p].fresh = e]
  BY DEF EnsureGet
<1> HIDE DEF c, e
<1>4. pod' \in [Pods -> Process]
  BY <1>1, <1>2, <1>3, FieldTypes
<1>5. InSave(p)
  BY <1>1, <1>2, <1>3 DEF InSave, Saving, Process
<1> QED
  BY <1>1, <1>4, <1>5, InSaveSound DEF EnsureGet, Saving

LEMMA EnsureCreateSound ==
    ASSUME Sound, NEW p \in Pods, EnsureCreate(p)
    PROVE  Sound'
<1> DEFINE f1 == [pod EXCEPT ![p].pc = "update"]
<1>1. /\ pod \in [Pods -> Process] /\ cm \in [exists : BOOLEAN, progress : Progress]
      /\ "update" \in PCs
  BY DEF Sound, TypeOK, PCs, Saving
<1>2. pod' = [f1 EXCEPT ![p].fresh = TRUE]
  BY DEF EnsureCreate
<1>3. pod' \in [Pods -> Process]
  BY <1>1, <1>2, FieldTypes
<1>4. InSave(p)
  BY <1>1, <1>2 DEF InSave, Saving, Process
<1>5. cm'.progress = cm.progress /\ cm' \in [exists : BOOLEAN, progress : Progress]
  BY <1>1 DEF EnsureCreate
<1> QED
  BY <1>3, <1>4, <1>5, InSaveSound DEF EnsureCreate, Saving

\* What a pod writes is true of the cluster.
LEMMA ToSaveSound ==
    ASSUME Sound, NEW p \in Pods, pod[p].pc \in Saving
    PROVE  /\ ~pod[p].dryRun
           /\ ToSave(p) \in Progress
           /\ 1..ToSave(p).last \subseteq done
           /\ Consistent(ToSave(p))
           /\ pod[p].saving = "completed" => Phases \subseteq done
<1>1. ~pod[p].dryRun /\ PodSound(p)
  BY DEF Sound, DrySound
<1> DEFINE pr == pod[p].progress
<1>2. /\ pr \in Progress /\ pod[p].phase \in 1..(NumPhases + 1)
      /\ pod[p].saving \in {"checkpoint", "failed", "completed"}
  BY DEF Sound, TypeOK, Process
<1>3. 1..pr.last \subseteq done /\ Consistent(pr)
  BY <1>1 DEF PodSound, Working
<1>4. CASE pod[p].saving = "checkpoint"
  BY <1>1, <1>2, <1>3, <1>4 DEF ToSave
<1>5. CASE pod[p].saving = "failed"
  <2>1. ToSave(p) = [last |-> pr.last, secureBoot |-> pr.secureBoot,
                     failed |-> pod[p].phase, status |-> "failed"]
    BY <1>2, <1>5 DEF ToSave, Progress
  <2>2. pod[p].phase = pr.last + 1 /\ pod[p].phase \in Phases
    BY <1>1, <1>5 DEF PodSound
  <2> QED
    BY <1>1, <1>2, <1>3, <1>5, <2>1, <2>2, PhasesAssumption DEF Progress, Phases, Consistent
<1>6. CASE pod[p].saving = "completed"
  <2>1. ToSave(p) = [last |-> NumPhases, secureBoot |-> pr.secureBoot,
                     failed |-> 0, status |-> "completed"]
    BY <1>2, <1>6 DEF ToSave, Progress
  <2>2. pr.last = NumPhases
    BY <1>1, <1>6 DEF PodSound
  <2> QED
    BY <1>1, <1>2, <1>3, <1>6, <2>1, <2>2, PhasesAssumption DEF Progress, Phases, Consistent
<1> QED
  BY <1>2, <1>4, <1>5, <1>6

\* Where a write leaves the pod: at the next phase after a checkpoint, or at its end.
Landing(p, r) ==
    /\ r \in Process
    /\ r.pc \in {"ready", "exited"}
    /\ r.dryRun = pod[p].dryRun
    /\ r.lost = pod[p].lost
    /\ r.pc = "ready" => /\ pod[p].saving = "checkpoint"
                         /\ r.phase = pod[p].phase + 1
                         /\ r.progress = pod[p].progress
                         /\ r.secureBoot = pod[p].secureBoot
    /\ r.pc = "exited" /\ r.code = ExitOK => pod[p].saving = "completed"

LEMMA AfterSaveLands ==
    ASSUME Sound, NEW p \in Pods, pod[p].pc \in Saving
    PROVE  Landing(p, AfterSave(p)) /\ Landing(p, AfterSaveError(p))
<1>1. /\ pod[p] \in Process
      /\ \A code \in ExitCodes : Ended(p, code) \in Process
  BY ProcessFacts DEF Sound
<1>2. pod[p].saving \in {"checkpoint", "failed", "completed"}
  BY <1>1 DEF Process
<1>3. \A code \in ExitCodes : (code = ExitOK => pod[p].saving = "completed") =>
                                  Landing(p, Ended(p, code))
  BY <1>1, EndedFacts DEF Landing
<1>4. pod[p].saving = "failed" => Landing(p, Ended(p, classifyFailure(pod[p].phase)))
  BY <1>3, ExitTypes
<1>5. pod[p].saving = "completed" => Landing(p, Ended(p, ExitOK))
  BY <1>3, ExitTypes
<1>6. Landing(p, Ended(p, ExitRetryable))
  BY <1>3, ExitTypes
<1>7. ASSUME pod[p].saving = "checkpoint"
      PROVE  Landing(p, [pod[p] EXCEPT !.pc = "ready", !.phase = @ + 1])
  <2> DEFINE n == pod[p].phase + 1
             r1 == [pod[p] EXCEPT !.pc = "ready"]
             r2 == [r1 EXCEPT !.phase = n]
  <2>1. pod[p].phase \in Phases
    BY <1>7 DEF Sound, PodSound, DrySound
  <2>2. n \in 1..(NumPhases + 1)
    BY <2>1, PhasesAssumption DEF Phases
  <2>3. r2 = [pod[p] EXCEPT !.pc = "ready", !.phase = @ + 1]
    BY <1>1 DEF Process
  <2> HIDE DEF n
  <2>4. r1 \in Process
    BY <1>1 DEF Process, PCs
  <2>5. r2 \in Process
    <3> HIDE DEF r1
    <3> QED
      BY <2>2, <2>4 DEF Process
  <2>6. /\ r2.pc = "ready" /\ r2.phase = n /\ r2.dryRun = pod[p].dryRun
        /\ r2.lost = pod[p].lost /\ r2.progress = pod[p].progress
        /\ r2.secureBoot = pod[p].secureBoot
    BY <1>1 DEF Process
  <2>7. Landing(p, r2)
    <3> HIDE DEF r2
    <3> QED
      BY <1>7, <2>5, <2>6 DEF Landing, n
  <2> QED
    BY <2>3, <2>7
<1>8. Landing(p, AfterSave(p))
  BY <1>2, <1>4, <1>5, <1>7 DEF AfterSave
<1>9. Landing(p, AfterSaveError(p))
  BY <1>6, <1>8 DEF AfterSaveError
<1> QED
  BY <1>8, <1>9

LEMMA LandingSound ==
    ASSUME Sound, NEW p \in Pods, NEW r, pod[p].pc \in Saving, Landing(p, r),
           pod'[p] = r, done' = done
    PROVE  PodSound(p)' /\ r.pc # "none" /\ ~pod[p].dryRun
<1>1. ~pod[p].dryRun /\ PodSound(p)
  BY DEF Sound, DrySound
<1>2. pod[p].saving = "completed" => Phases \subseteq done
  BY ToSaveSound
<1>3. 1..pod[p].progress.last \subseteq done /\ Consistent(pod[p].progress)
  BY <1>1 DEF PodSound, Working
<1>4. pod[p].saving = "checkpoint" => pod[p].phase = pod[p].progress.last
  BY <1>1 DEF PodSound
<1> QED
  BY <1>1, <1>2, <1>3, <1>4 DEF Landing, PodSound, Saving, Working

LEMMA ApplyUpdateSound ==
    ASSUME Sound, NEW p \in Pods, NEW r, ApplyUpdate(p, r), Landing(p, r)
    PROVE  Sound'
<1>1. pod[p].pc \in Saving
  BY DEF ApplyUpdate, Saving
<1>2. \A q \in Pods : pod[q] \in Process
  BY DEF Sound, TypeOK
<1>3. /\ pod'[p] = r
      /\ \A q \in Pods \ {p} : pod'[q] = [pod[q] EXCEPT !.fresh = FALSE]
  BY DEF ApplyUpdate
<1>4. ASSUME NEW q \in Pods \ {p}
      PROVE  /\ pod'[q] \in Process
             /\ pod'[q].pc = pod[q].pc /\ pod'[q].dryRun = pod[q].dryRun
             /\ pod'[q].phase = pod[q].phase /\ pod'[q].progress = pod[q].progress
             /\ pod'[q].saving = pod[q].saving /\ pod'[q].code = pod[q].code
             /\ pod'[q].lost = pod[q].lost
  <2>1. pod[q] \in Process /\ pod'[q] = [pod[q] EXCEPT !.fresh = FALSE]
    BY <1>2, <1>3
  <2>2. [pod[q] EXCEPT !.fresh = FALSE] \in Process
    BY <2>1 DEF Process
  <2>3. /\ pod'[q].pc = pod[q].pc /\ pod'[q].dryRun = pod[q].dryRun
        /\ pod'[q].phase = pod[q].phase /\ pod'[q].progress = pod[q].progress
        /\ pod'[q].saving = pod[q].saving /\ pod'[q].code = pod[q].code
        /\ pod'[q].lost = pod[q].lost
    BY <2>1 DEF Process
  <2> QED
    BY <2>1, <2>2, <2>3
<1>5. pod' \in [Pods -> Process]
  <2>1. \A q \in Pods : pod'[q] \in Process
    BY <1>3, <1>4 DEF Landing
  <2>2. pod' = [q \in Pods |-> pod'[q]]
    BY DEF ApplyUpdate
  <2> QED
    BY <2>1, <2>2
<1>6. /\ ToSave(p) \in Progress /\ 1..ToSave(p).last \subseteq done
      /\ Consistent(ToSave(p))
  BY <1>1, ToSaveSound
<1>7. cm'.progress = ToSave(p) /\ cm' \in [exists : BOOLEAN, progress : Progress]
  BY <1>6 DEF ApplyUpdate
<1>8. UNCHANGED <<job, begun, done, kmm, calm>>
  BY DEF ApplyUpdate
<1>9. PodSound(p)' /\ r.pc # "none" /\ ~pod[p].dryRun
  BY <1>1, <1>3, <1>8, LandingSound
<1>10. StepOf(p)
  BY <1>1, <1>3, <1>4, <1>8, <1>9 DEF StepOf, Landing, Saving
<1>11. TypeOK'
  BY <1>5, <1>7, <1>8 DEF Sound, TypeOK
<1>12. CheckpointSound' /\ NoPhaseSkipped' /\ StatusConsistent'
  BY <1>6, <1>7, <1>8 DEF Sound, CheckpointSound, NoPhaseSkipped, StatusConsistent
<1> QED
  BY <1>9, <1>10, <1>11, <1>12, StepFrame

LEMMA SaveFailsSound ==
    ASSUME Sound, NEW p \in Pods, SaveFails(p)
    PROVE  Sound'
<1> DEFINE r == AfterSaveError(p)
<1>1. pod \in [Pods -> Process] /\ Landing(p, r)
  BY AfterSaveLands DEF Sound, TypeOK, SaveFails
<1> HIDE DEF r
<1>2. pod' = [pod EXCEPT ![p] = r]
  BY DEF SaveFails, r
<1>3. /\ pod' \in [Pods -> Process] /\ pod'[p] = r
      /\ \A q \in Pods \ {p} : pod'[q] = pod[q]
  BY <1>1, <1>2 DEF Landing
<1>4. PodSound(p)' /\ r.pc # "none" /\ ~pod[p].dryRun
  BY <1>1, <1>3, LandingSound DEF SaveFails
<1>5. Quiet(p)
  BY <1>1, <1>3, <1>4 DEF Quiet, Landing, SaveFails, Saving, Sound, TypeOK
<1> QED
  BY <1>4, <1>5, QuietFrame

LEMMA UpdateSound ==
    ASSUME Sound, NEW p \in Pods, Update(p) \/ UpdateReplyLost(p)
    PROVE  Sound'
<1>1. pod[p].pc \in Saving
  BY DEF Update, UpdateReplyLost, ApplyUpdate, Saving
<1>2. Landing(p, AfterSave(p)) /\ Landing(p, AfterSaveError(p))
  BY <1>1, AfterSaveLands
<1> QED
  BY <1>2, ApplyUpdateSound DEF Update, UpdateReplyLost

-----------------------------------------------------------------------------
(* Steps of the Job controller and of the operator *)

LEMMA KillSound ==
    ASSUME Sound, NEW p \in Pods, Kill(p)
    PROVE  Sound'
  BY ExitTypes, ExitSound DEF Kill, Live

LEMMA JobAfterFailureType ==
    ASSUME job \in JobObject, job.status = "running", job.failures <= BackoffLimit
    PROVE  /\ JobAfterFailure \in JobObject
           /\ JobAfterFailure.dryRun = job.dryRun
           /\ JobAfterFailure.status # "complete"
           /\ JobAfterFailure.status = "running" => JobAfterFailure.failures <= BackoffLimit
<1> DEFINE st == IF job.failures + 1 > BackoffLimit THEN "failed" ELSE "running"
           j1 == [job EXCEPT !.failures = job.failures + 1]
           j2 == [j1 EXCEPT !.status = st]
<1>1. job.failures + 1 \in 0..(BackoffLimit + 1)
  BY JobAssumption DEF JobObject
<1>2. st \in {"failed", "running"} /\ st # "complete"
  OBVIOUS
<1>3. st = "running" => job.failures + 1 <= BackoffLimit
  BY JobAssumption DEF JobObject
<1>4. JobAfterFailure = j2
  BY DEF JobAfterFailure
<1> HIDE DEF st
<1>5. j1 \in JobObject
  BY <1>1 DEF JobObject
<1>6. j2 \in JobObject
  <2> HIDE DEF j1
  <2> QED
    BY <1>2, <1>5 DEF JobObject
<1>7. j2.dryRun = job.dryRun /\ j2.status = st /\ j2.failures = job.failures + 1
  BY DEF JobObject
<1> QED
  BY <1>2, <1>3, <1>4, <1>6, <1>7

\* The controller touches the Job and one slot only.
ControllerOf(p) ==
    /\ UNCHANGED <<cm, begun, done, kmm, calm>>
    /\ \A q \in Pods \ {p} : pod'[q] = pod[q]
    /\ pod' \in [Pods -> Process]
    /\ job' \in JobObject

LEMMA ControllerFrame ==
    ASSUME Sound, NEW p \in Pods, ControllerOf(p), CompleteMeansDone', ControllerSound',
           IF pod'[p].dryRun THEN DrySound(p)' ELSE PodSound(p)'
    PROVE  Sound'
<1>1. TypeOK'
  BY DEF Sound, TypeOK, ControllerOf
<1>2. CheckpointSound' /\ NoPhaseSkipped' /\ StatusConsistent'
  BY DEF Sound, ControllerOf, CheckpointSound, NoPhaseSkipped, StatusConsistent
<1>3. ASSUME NEW q \in Pods, q # p
      PROVE  IF pod'[q].dryRun THEN DrySound(q)' ELSE PodSound(q)'
  <2>1. pod'[q] = pod[q] /\ done' = done
    BY <1>3 DEF ControllerOf
  <2> QED
    BY <2>1 DEF Sound, DrySound, PodSound
<1> QED
  BY <1>1, <1>2, <1>3 DEF Sound

LEMMA CreatePodSound ==
    ASSUME Sound, NEW p \in Pods, CreatePod(p)
    PROVE  Sound'
<1> DEFINE r == Slot("boot", job.dryRun, job.validEnv, ExitOK, FALSE)
<1>1. /\ pod \in [Pods -> Process] /\ job \in JobObject
      /\ job.dryRun \in BOOLEAN /\ job.validEnv \in BOOLEAN
      /\ "boot" \in PCs /\ ExitOK \in ExitCodes
  BY DEF Sound, TypeOK, JobObject, PCs, ExitCodes
<1>2. r \in Process
  BY <1>1, SlotType
<1>3. /\ r.pc = "boot" /\ r.dryRun = job.dryRun /\ r.lost = FALSE
  BY DEF Slot
<1> HIDE DEF r
<1>4. pod' = [pod EXCEPT ![p] = r]
  BY DEF CreatePod, r
<1>5. /\ pod' \in [Pods -> Process] /\ pod'[p] = r
      /\ \A q \in Pods \ {p} : pod'[q] = pod[q]
  BY <1>1, <1>2, <1>4
<1>6. ControllerOf(p)
  BY <1>1, <1>5 DEF ControllerOf, CreatePod
<1>7. CompleteMeansDone'
  BY DEF CreatePod, CompleteMeansDone
<1>8. ControllerSound'
  BY <1>3, <1>5 DEF CreatePod, Sound, ControllerSound, Active
<1>9. DrySound(p)' /\ PodSound(p)'
  BY <1>3, <1>5 DEF DrySound, PodSound, Saving, Working
<1> QED
  BY <1>6, <1>7, <1>8, <1>9, ControllerFrame

LEMMA JobAfterExitType ==
    ASSUME Sound, NEW code \in ExitCodes, job.status = "running"
    PROVE  /\ JobAfterExit(code) \in JobObject
           /\ JobAfterExit(code).dryRun = job.dryRun
           /\ JobAfterExit(code).status = "complete" => code = ExitOK
           /\ JobAfterExit(code).status = "running" =>
                 JobAfterExit(code).failures <= BackoffLimit
<1>1. job \in JobObject /\ job.failures <= BackoffLimit
  BY DEF Sound, TypeOK, ControllerSound
<1>2. CASE code = ExitOK
  <2>1. JobAfterExit(code) = [job EXCEPT !.status = "complete"]
    BY <1>2 DEF JobAfterExit
  <2> QED
    BY <1>1, <1>2, <2>1 DEF JobObject
<1>3. CASE code = ExitFatal
  <2>1. JobAfterExit(code) = [job EXCEPT !.status = "failed"]
    BY <1>3 DEF JobAfterExit, ExitOK, ExitFatal
  <2> QED
    BY <1>1, <1>3, <2>1 DEF JobObject
<1>4. CASE code # ExitOK /\ code # ExitFatal
  <2>1. JobAfterExit(code) = JobAfterFailure
    BY <1>4 DEF JobAfterExit
  <2>2. JobAfterFailure.status = "running" => JobAfterFailure.failures <= BackoffLimit
    BY <1>1, JobAfterFailureType
  <2> QED
    BY <1>1, <2>1, <2>2, JobAfterFailureType
<1> QED
  BY <1>2, <1>3, <1>4

LEMMA ObserveExitSound ==
    ASSUME Sound, NEW p \in Pods, ObserveExit(p)
    PROVE  Sound'
<1>1. pod \in [Pods -> Process] /\ NoPod \in Process /\ job \in JobObject
      /\ pod[p].code \in ExitCodes
  BY ProcessFacts DEF Sound, TypeOK, Process
<1>2. NoPod.pc = "none"
  BY DEF NoPod, Slot
<1>3. /\ pod' \in [Pods -> Process] /\ pod'[p].pc = "none"
      /\ \A q \in Pods \ {p} : pod'[q] = pod[q]
  BY <1>1, <1>2 DEF ObserveExit
<1>4. DrySound(p)' /\ PodSound(p)'
  BY <1>3 DEF DrySound, PodSound, Saving, Working
<1>5. CASE pod[p].lost
  <2>1. job' = job /\ done' = done
    BY <1>5 DEF ObserveExit
  <2>2. ControllerOf(p)
    BY <1>1, <1>3, <2>1 DEF ControllerOf, ObserveExit
  <2>3. CompleteMeansDone' /\ ControllerSound'
    BY <1>3, <2>1 DEF Sound, CompleteMeansDone, ControllerSound, Active
  <2> QED
    BY <1>4, <2>2, <2>3, ControllerFrame
<1>6. CASE ~pod[p].lost
  <2>1. job.status = "running" /\ job' = JobAfterExit(pod[p].code) /\ done' = done
    BY <1>6 DEF ObserveExit
  <2>2. Active(p) /\ \A q \in Pods : Active(q) => q = p
    BY <1>6 DEF Active, ObserveExit, Sound, ControllerSound
  <2>3. ControllerOf(p)
    BY <1>1, <1>3, <2>1, JobAfterExitType DEF ControllerOf, ObserveExit
  <2>4. ControllerSound'
    BY <1>1, <1>3, <2>1, <2>2, JobAfterExitType DEF ControllerSound, Active
  <2>5. CompleteMeansDone'
    <3> SUFFICES ASSUME job'.status = "complete", ~job'.dryRun
                 PROVE  done' = Phases
      BY DEF CompleteMeansDone
    <3>1. pod[p].code = ExitOK /\ ~job.dryRun
      BY <1>1, <2>1, JobAfterExitType
    <3>2. ~pod[p].dryRun
      BY <2>2, <3>1 DEF Sound, ControllerSound
    <3>3. Phases \subseteq done
      BY <3>1, <3>2 DEF Sound, PodSound, ObserveExit
    <3> QED
      BY <2>1, <3>3 DEF Sound, TypeOK
  <2> QED
    BY <1>4, <2>3, <2>4, <2>5, ControllerFrame
<1> QED
  BY <1>5, <1>6

LEMMA LosePodSound ==
    ASSUME Sound, NEW p \in Pods, LosePod(p)
    PROVE  Sound'
<1>1. pod \in [Pods -> Process] /\ pod[p] \in Process
  BY DEF Sound, TypeOK
<1>2. pod' = [pod EXCEPT ![p].lost = TRUE] /\ job' = JobAfterFailure
      /\ job.status = "running" /\ done' = done
  BY DEF LosePod
<1>3. pod' \in [Pods -> Process]
  BY <1>1, <1>2, FieldTypes
<1>4. /\ pod'[p].lost = TRUE /\ pod'[p].pc = pod[p].pc /\ pod'[p].dryRun = pod[p].dryRun
      /\ pod'[p].phase = pod[p].phase /\ pod'[p].progress = pod[p].progress
      /\ pod'[p].saving = pod[p].saving /\ pod'[p].code = pod[p].code
      /\ \A q \in Pods \ {p} : pod'[q] = pod[q]
  BY <1>1, <1>2 DEF Process
<1>5. Active(p) /\ \A q \in Pods : Active(q) => q = p
  BY DEF Active, LosePod, Live, Sound, ControllerSound
<1>6. job' = JobAfterExit(ExitRetryable)
  BY <1>2 DEF JobAfterExit, ExitRetryable, ExitOK, ExitFatal
<1>7. ControllerOf(p)
  BY <1>2, <1>3, <1>4, <1>6, JobAfterExitType, ExitTypes DEF ControllerOf, LosePod
<1>8. CompleteMeansDone'
  BY <1>2, <1>6, JobAfterExitType, ExitTypes DEF CompleteMeansDone
<1>9. ControllerSound'
  BY <1>2, <1>4, <1>5, <1>6, JobAfterExitType, ExitTypes DEF ControllerSound, Active
<1>10. IF pod'[p].dryRun THEN DrySound(p)' ELSE PodSound(p)'
  BY <1>2, <1>4 DEF Sound, DrySound, PodSound
<1> QED
  BY <1>7, <1>8, <1>9, <1>10, ControllerFrame

LEMMA RecreateJobSound ==
    ASSUME Sound, NEW dryRun \in BOOLEAN, NEW validEnv \in BOOLEAN,
           RecreateJob(dryRun, validEnv)
    PROVE  Sound'
<1>1. job' \in JobObject /\ job'.status = "running" /\ job'.failures = 0
  BY JobAssumption DEF RecreateJob, JobObject
<1>2. \A p \in Pods : ~Active(p)
  BY DEF RecreateJob, Sound, ControllerSound
<1>3. TypeOK'
  BY <1>1 DEF Sound, TypeOK, RecreateJob
<1>4. CompleteMeansDone' /\ ControllerSound'
  BY <1>1, <1>2, JobAssumption DEF RecreateJob, CompleteMeansDone, ControllerSound, Active
<1> QED
  BY <1>3, <1>4
  DEF Sound, RecreateJob, CheckpointSound, NoPhaseSkipped, StatusConsistent, DrySound, PodSound

LEMMA QuietJobSound ==
    ASSUME Sound, UNCHANGED <<job, pod, cm, begun, done, kmm>>, calm' \in BOOLEAN
    PROVE  Sound'
  BY DEF Sound, TypeOK, CheckpointSound, NoPhaseSkipped, CompleteMeansDone, StatusConsistent,
     ControllerSound, Active, DrySound, PodSound

-----------------------------------------------------------------------------
(* The theorems that hold with lost pods, too *)

LEMMA InitSound == Init => Sound
<1> SUFFICES ASSUME Init PROVE Sound
  OBVIOUS
<1>1. NoPod \in Process /\ NoPod.pc = "none"
  <2>1. "none" \in PCs
    BY DEF PCs
  <2>2. NoPod \in Process
    BY <2>1, SlotType, ExitTypes DEF NoPod
  <2> QED
    BY <2>2 DEF NoPod, Slot
<1>2. DefaultProgress \in Progress /\ DefaultProgress.last = 0 /\ Consistent(DefaultProgress)
  BY PhasesAssumption DEF DefaultProgress, Progress, Consistent
<1>3. \A p \in Pods : pod[p].pc = "none"
  BY <1>1 DEF Init
<1>4. job \in JobObject /\ job.status = "running" /\ job.failures = 0
  BY JobAssumption DEF Init, JobObject
<1>5. TypeOK
  BY <1>1, <1>2, <1>4 DEF Init, TypeOK
<1>6. CheckpointSound /\ NoPhaseSkipped /\ StatusConsistent /\ CompleteMeansDone
  BY <1>2, <1>4 DEF Init, CheckpointSound, NoPhaseSkipped, StatusConsistent, CompleteMeansDone
<1>7. ControllerSound
  BY <1>3, <1>4, JobAssumption DEF ControllerSound, Active
<1>8. \A p \in Pods : DrySound(p) /\ PodSound(p)
  BY <1>3 DEF DrySound, PodSound, Saving, Working
<1> QED
  BY <1>5, <1>6, <1>7, <1>8 DEF Sound

LEMMA NextSound == Sound /\ [Next]_vars => Sound'
<1> SUFFICES ASSUME Sound, [Next]_vars PROVE Sound'
  OBVIOUS
<1>1. ASSUME NEW p \in Pods, PodStep(p)
      PROVE  Sound'
  BY <1>1, BootSound, ReadProgressSound, ReadFailsSound, BeginPhaseSound, DetectSound,
     EnableKMMSound, PhaseSucceedsSound, PhaseFailsSound, FinishLoopSound, EnsureGetSound,
     EnsureCreateSound, UpdateSound, SaveFailsSound DEF PodStep
<1>2. ASSUME NEW p \in Pods, ControllerStep(p)
      PROVE  Sound'
  BY <1>2, CreatePodSound, ObserveExitSound, LosePodSound, KillSound DEF ControllerStep
<1>3. ASSUME NEW dryRun \in BOOLEAN, NEW validEnv \in BOOLEAN,
             RecreateJob(dryRun, validEnv)
      PROVE  Sound'
  BY <1>3, RecreateJobSound
<1>4. CASE Calm \/ UNCHANGED vars
  BY <1>4, QuietJobSound DEF Calm, vars, Sound, TypeOK
<1> QED
  BY <1>1, <1>2, <1>3, <1>4 DEF Next

\* main.go and state.go keep every datum in its range, for any number of pods, retries
\* and phases; in particular no pod runs a phase that does not exist.
THEOREM TypeCorrect == Spec => []TypeOK
<1>1. Sound => TypeOK
  BY DEF Sound
<1> QED
  BY <1>1, InitSound, NextSound, PTL DEF Spec

\* main.go:128-138: a stored checkpoint only names phases that returned nil, whoever wrote
\* it, with whatever pods crashed, lost or overlapping.
THEOREM CheckpointIsSound == Spec => []CheckpointSound
<1>1. Sound => CheckpointSound
  BY DEF Sound
<1> QED
  BY <1>1, InitSound, NextSound, PTL DEF Spec

\* main.go:115-119: no phase is ever entered before all the earlier ones are done.
THEOREM PhasesAreNotSkipped == Spec => []NoPhaseSkipped
<1>1. Sound => NoPhaseSkipped
  BY DEF Sound
<1> QED
  BY <1>1, InitSound, NextSound, PTL DEF Spec

\* A Job that reports success has all the phases done.
THEOREM SuccessIsDone == Spec => []CompleteMeansDone
<1>1. Sound => CompleteMeansDone
  BY DEF Sound
<1> QED
  BY <1>1, InitSound, NextSound, PTL DEF Spec

\* state.go:159-172: the recorded status and failed phase fit the recorded checkpoint.
THEOREM StatusIsConsistent == Spec => []StatusConsistent
<1>1. Sound => StatusConsistent
  BY DEF Sound
<1> QED
  BY <1>1, InitSound, NextSound, PTL DEF Spec

-----------------------------------------------------------------------------
(* What holds when a pod is never given up while it still runs *)

LEMMA OnlyOne ==
    ASSUME Sound, Exclusive, NEW p \in Pods, pod[p].pc # "none", NEW q \in Pods, q # p
    PROVE  pod[q].pc = "none"
<1>1. ~pod[p].lost /\ ~pod[q].lost
  BY DEF Exclusive
<1> QED
  BY <1>1 DEF Sound, ControllerSound, Active

\* The data of the whole cluster, and the pod at work.
ExclusiveData ==
    /\ done \in {1..cm.progress.last, 1..(cm.progress.last + 1)}
    /\ EnablePhase \in begun => cm.progress.last >= DetectPhase
    /\ cm.progress.last >= DetectPhase => cm.progress.secureBoot = SecureBoot
    /\ SecureBootCarried

LEMMA ExclusiveFrame ==
    ASSUME Sound, Exclusive, NEW p \in Pods, pod[p].pc # "none",
           \A q \in Pods \ {p} : pod'[q].pc = pod[q].pc /\ pod'[q].lost = pod[q].lost,
           ~pod'[p].lost, ExclusiveData',
           ~pod'[p].dryRun =>
              /\ PodCurrent(p)' /\ FlagKept(p)'
              /\ pod'[p].pc = "running" => pod'[p].phase \in begun'
    PROVE  Exclusive'
<1>1. ASSUME NEW q \in Pods, q # p
      PROVE  /\ ~pod'[q].lost /\ pod'[q].pc = "none"
             /\ PodCurrent(q)' /\ FlagKept(q)'
  <2>1. pod'[q].pc = "none" /\ ~pod'[q].lost
    BY <1>1, OnlyOne DEF Exclusive
  <2> QED
    BY <2>1 DEF PodCurrent, FlagKept, Saving, Working
<1>2. \A q \in Pods : pod'[q].pc = "running" /\ ~pod'[q].dryRun => pod'[q].phase \in begun'
  BY <1>1
<1> QED
  BY <1>1, <1>2 DEF Exclusive, ExclusiveData

LEMMA SameData ==
    ASSUME Exclusive, cm'.progress = cm.progress, UNCHANGED <<begun, done, kmm>>
    PROVE  ExclusiveData'
  BY DEF Exclusive, ExclusiveData, SecureBootCarried

\* A pod outside the phase loop holds nothing that could be out of date.
LEMMA IdleExclusive ==
    ASSUME Sound, Exclusive, NEW p \in Pods, pod[p].pc # "none",
           cm'.progress = cm.progress, UNCHANGED <<begun, done, kmm>>,
           \A q \in Pods \ {p} : pod'[q] = pod[q], ~pod'[p].lost,
           pod'[p].pc \in {"none", "boot", "read", "exited"}
    PROVE  Exclusive'
<1>1. PodCurrent(p)' /\ FlagKept(p)' /\ pod'[p].pc # "running"
  BY DEF PodCurrent, FlagKept, Saving, Working
<1> QED
  BY <1>1, SameData, ExclusiveFrame

LEMMA ExitExclusive ==
    ASSUME Sound, Exclusive, NEW p \in Pods, NEW code, Exit(p, code), pod[p].pc # "none",
           UNCHANGED <<cm, begun, done, kmm>>
    PROVE  Exclusive'
<1>1. pod'[p] = Ended(p, code) /\ \A q \in Pods \ {p} : pod'[q] = pod[q]
  BY DEF Exit, Sound, TypeOK
<1>2. pod'[p].pc = "exited" /\ ~pod'[p].lost
  BY <1>1, EndedFacts DEF Exclusive
<1> QED
  BY <1>1, <1>2, IdleExclusive

LEMMA BootExclusive ==
    ASSUME Sound, Exclusive, NEW p \in Pods, Boot(p)
    PROVE  Exclusive'
<1>1. CASE pod[p].validEnv
  <2>1. /\ pod'[p].pc = "read" /\ pod'[p].lost = pod[p].lost
        /\ \A q \in Pods \ {p} : pod'[q] = pod[q]
    BY <1>1 DEF Boot, Sound, TypeOK, Process
  <2> QED
    BY <2>1, IdleExclusive DEF Boot, Exclusive
<1>2. CASE ~pod[p].validEnv
  BY <1>2, ExitExclusive DEF Boot
<1> QED
  BY <1>1, <1>2

LEMMA ReadProgressExclusive ==
    ASSUME Sound, Exclusive, NEW p \in Pods, ReadProgress(p)
    PROVE  Exclusive'
<1>1. CASE ~pod[p].dryRun /\ AlreadyComplete(cm.progress)
  BY <1>1, ExitExclusive DEF ReadProgress
<1>2. CASE ~(~pod[p].dryRun /\ AlreadyComplete(cm.progress))
  <2>1. /\ pod'[p].pc = "ready" /\ pod'[p].lost = pod[p].lost
        /\ pod'[p].dryRun = pod[p].dryRun
        /\ pod'[p].progress = cm.progress
        /\ pod'[p].secureBoot = (~pod[p].dryRun /\ cm.progress.secureBoot)
        /\ \A q \in Pods \ {p} : pod'[q] = pod[q]
    BY <1>2 DEF ReadProgress, Sound, TypeOK, Process
  <2>2. UNCHANGED <<cm, begun, done, kmm>>
    BY DEF ReadProgress
  <2>3. cm.progress.secureBoot \in BOOLEAN
    BY DEF Sound, TypeOK, Progress
  <2>4. ~pod'[p].dryRun => pod'[p].secureBoot = cm.progress.secureBoot
    BY <2>1, <2>3
  <2>5. ~pod'[p].dryRun => PodCurrent(p)' /\ FlagKept(p)'
    BY <2>1, <2>2, <2>4 DEF PodCurrent, FlagKept, Saving, Working, Exclusive
  <2> QED
    BY <2>1, <2>2, <2>5, SameData, ExclusiveFrame DEF ReadProgress, Exclusive
<1> QED
  BY <1>1, <1>2

LEMMA BeginPhaseExclusive ==
    ASSUME Sound, Exclusive, NEW p \in Pods, BeginPhase(p)
    PROVE  Exclusive' /\ [Ladder!Next]_(Ladder!vars)
<1>1. /\ pod'[p].pc = "running" /\ pod'[p].lost = pod[p].lost
      /\ pod'[p].dryRun = pod[p].dryRun /\ pod'[p].acted = FALSE
      /\ pod'[p].progress = pod[p].progress /\ pod'[p].phase = pod[p].phase
      /\ pod'[p].secureBoot = pod[p].secureBoot
      /\ \A q \in Pods \ {p} : pod'[q] = pod[q]
  BY DEF BeginPhase, Sound, TypeOK, Process
<1>2. UNCHANGED <<cm, done, kmm>>
  BY DEF BeginPhase
<1>3. CASE pod[p].dryRun
  <2>1. begun' = begun
    BY <1>3 DEF BeginPhase
  <2> QED
    BY <1>1, <1>2, <1>3, <2>1, SameData, ExclusiveFrame DEF BeginPhase, Exclusive, Ladder!vars
<1>4. CASE ~pod[p].dryRun
  <2>1. PodSound(p) /\ PodCurrent(p) /\ FlagKept(p)
    BY <1>4 DEF Sound, Exclusive
  <2>2. begun' = begun \cup {pod[p].phase} /\ pod[p].phase = cm.progress.last + 1
    BY <1>4, <2>1 DEF BeginPhase, PodSound, PodCurrent
  <2>3. cm.progress.last \in Nat
    BY PhasesAssumption DEF Sound, TypeOK, Progress
  <2>4. ExclusiveData'
    BY <1>2, <2>2, <2>3, PhasesAssumption DEF Exclusive, ExclusiveData, SecureBootCarried
  <2>5. PodCurrent(p)' /\ FlagKept(p)'
    BY <1>1, <1>2, <2>1 DEF PodCurrent, FlagKept, Saving, Working, BeginPhase
  <2>6. Exclusive'
    BY <1>1, <2>2, <2>4, <2>5, ExclusiveFrame DEF BeginPhase, Exclusive
  <2>7. Ladder!Begin
    BY <1>2, <2>2, <2>3, PhasesAssumption DEF Ladder!Begin, BeginPhase
  <2> QED
    BY <2>6, <2>7 DEF Ladder!Next
<1> QED
  BY <1>3, <1>4

LEMMA DetectExclusive ==
    ASSUME Sound, Exclusive, NEW p \in Pods, Detect(p)
    PROVE  Exclusive'
<1>1. PICK flag \in Detectable :
         pod' = [pod EXCEPT ![p].secureBoot = flag, ![p].acted = TRUE]
  BY DEF Detect
<1>2. /\ pod'[p].pc = "running" /\ pod'[p].lost = pod[p].lost
      /\ pod'[p].dryRun = pod[p].dryRun /\ pod'[p].secureBoot = flag
      /\ pod'[p].progress = pod[p].progress /\ pod'[p].phase = pod[p].phase
      /\ \A q \in Pods \ {p} : pod'[q] = pod[q]
  BY <1>1 DEF Detect, Sound, TypeOK, Process
<1>3. UNCHANGED <<cm, begun, done, kmm>>
  BY DEF Detect
<1>4. CASE pod[p].dryRun
  BY <1>2, <1>3, <1>4, SameData, ExclusiveFrame DEF Detect, Exclusive
<1>5. CASE ~pod[p].dryRun
  <2>1. /\ PodSound(p) /\ PodCurrent(p) /\ FlagKept(p) /\ pod[p].phase \in begun
        /\ pod[p].pc = "running"
    BY <1>5 DEF Sound, Exclusive, Detect
  <2>2. cm.progress.last \in Nat /\ cm.progress.last + 1 = DetectPhase
    BY <2>1, PhasesAssumption DEF Sound, TypeOK, Progress, Detect, PodSound, PodCurrent
  <2>3. flag = SecureBoot
    <3>1. ~(cm.progress.last >= DetectPhase)
      BY <2>2, PhasesAssumption
    <3>2. EnablePhase \notin begun
      BY <3>1 DEF Exclusive
    <3>3. Detectable = {SecureBoot}
      BY <3>2 DEF Detectable
    <3> QED
      BY <3>3
  <2>4. PodCurrent(p)' /\ FlagKept(p)'
    BY <1>2, <1>3, <2>1, <2>2, <2>3, PhasesAssumption
    DEF PodCurrent, FlagKept, Saving, Working
  <2> QED
    BY <1>2, <1>3, <2>1, <2>4, SameData, ExclusiveFrame DEF Exclusive
<1> QED
  BY <1>4, <1>5

LEMMA EnableKMMExclusive ==
    ASSUME Sound, Exclusive, NEW p \in Pods, EnableKMM(p)
    PROVE  Exclusive'
<1>1. /\ PodSound(p) /\ PodCurrent(p) /\ FlagKept(p) /\ pod[p].phase \in begun
      /\ pod[p].pc = "running" /\ ~pod[p].dryRun
  BY DEF Sound, Exclusive, EnableKMM
<1>2. /\ pod'[p].pc = "running" /\ pod'[p].lost = pod[p].lost
      /\ pod'[p].progress = pod[p].progress /\ pod'[p].phase = pod[p].phase
      /\ pod'[p].secureBoot = pod[p].secureBoot
      /\ \A q \in Pods \ {p} : pod'[q] = pod[q]
  BY DEF EnableKMM, Sound, TypeOK, Process
<1>3. cm.progress.last \in Nat /\ cm.progress.last + 1 = EnablePhase
  BY <1>1, PhasesAssumption DEF Sound, TypeOK, Progress, EnableKMM, PodSound, PodCurrent
<1>4. pod[p].secureBoot = SecureBoot
  BY <1>1, <1>3, PhasesAssumption DEF FlagKept, PodCurrent, Working
<1>5. kmm' = KMMFlag(SecureBoot) /\ UNCHANGED <<cm, begun, done>>
  BY <1>4 DEF EnableKMM
<1>6. ExclusiveData'
  BY <1>5 DEF Exclusive, ExclusiveData, SecureBootCarried
<1>7. PodCurrent(p)' /\ FlagKept(p)'
  BY <1>1, <1>2, <1>4, <1>5 DEF PodCurrent, FlagKept, Saving, Working
<1> QED
  BY <1>1, <1>2, <1>5, <1>6, <1>7, ExclusiveFrame DEF Exclusive

LEMMA PhaseSucceedsExclusive ==
    ASSUME Sound, Exclusive, NEW p \in Pods, PhaseSucceeds(p)
    PROVE  Exclusive' /\ [Ladder!Next]_(Ladder!vars)
<1>1. pod \in [Pods -> Process] /\ pod[p] \in Process /\ pod[p].pc = "running"
  BY DEF Sound, TypeOK, PhaseSucceeds
<1>2. CASE pod[p].dryRun
  <2>1. /\ pod'[p].pc = "ready" /\ pod'[p].lost = pod[p].lost
        /\ pod'[p].dryRun = pod[p].dryRun
        /\ \A q \in Pods \ {p} : pod'[q] = pod[q]
    BY <1>1, <1>2 DEF PhaseSucceeds, Process
  <2>2. UNCHANGED <<cm, begun, done, kmm>>
    BY <1>2 DEF PhaseSucceeds
  <2> QED
    BY <1>1, <1>2, <2>1, <2>2, SameData, ExclusiveFrame DEF Exclusive, Ladder!vars
<1>3. CASE ~pod[p].dryRun
  <2>1. /\ PodSound(p) /\ PodCurrent(p) /\ FlagKept(p) /\ pod[p].phase \in begun
    BY <1>1, <1>3 DEF Sound, Exclusive
  <2>2. /\ cm.progress.last \in Nat /\ pod[p].phase = cm.progress.last + 1
        /\ pod[p].phase \in Phases /\ pod[p].progress.last = cm.progress.last
    BY <1>1, <2>1, PhasesAssumption DEF Sound, TypeOK, Progress, PodSound, PodCurrent
  <2>3. /\ pod'[p].pc = "get" /\ pod'[p].lost = pod[p].lost
        /\ pod'[p].dryRun = pod[p].dryRun /\ pod'[p].saving = "checkpoint"
        /\ pod'[p].progress = Advanced(p) /\ pod'[p].phase = pod[p].phase
        /\ pod'[p].secureBoot = pod[p].secureBoot
        /\ \A q \in Pods \ {p} : pod'[q] = pod[q]
    BY <1>1, <1>3 DEF PhaseSucceeds, Process
  <2>4. Advanced(p).last = pod[p].phase /\ Advanced(p).secureBoot = pod[p].secureBoot
    BY DEF Advanced
  <2>5. done' = done \cup {cm.progress.last + 1} /\ UNCHANGED <<cm, begun, kmm>>
    BY <1>3, <2>2 DEF PhaseSucceeds
  <2>6. done' = 1..(cm.progress.last + 1)
    BY <2>2, <2>5 DEF Exclusive
  <2>7. ExclusiveData'
    BY <2>5, <2>6 DEF Exclusive, ExclusiveData, SecureBootCarried
  <2>8. pod[p].phase >= DetectPhase => pod[p].secureBoot = SecureBoot
    <3>1. CASE pod[p].phase = DetectPhase
      <4>1. pod[p].acted
        BY <3>1, PhasesAssumption DEF PhaseSucceeds, Finished
      <4> QED
        BY <1>1, <2>1, <3>1, <4>1 DEF FlagKept
    <3>2. CASE pod[p].phase > DetectPhase
      <4>1. pod[p].progress.last >= DetectPhase
        BY <2>2, <3>2, PhasesAssumption
      <4> QED
        BY <1>1, <2>1, <4>1 DEF FlagKept, Working
    <3> QED
      BY <2>2, <3>1, <3>2, PhasesAssumption
  <2>9. PodCurrent(p)'
    BY <2>2, <2>3, <2>4, <2>5 DEF PodCurrent, Saving
  <2>10. FlagKept(p)'
    BY <2>2, <2>3, <2>4, <2>8 DEF FlagKept
  <2>11. Exclusive'
    BY <1>1, <2>3, <2>7, <2>9, <2>10, ExclusiveFrame DEF Exclusive
  <2>12. Ladder!Climb
    BY <2>1, <2>2, <2>5 DEF Ladder!Climb
  <2> QED
    BY <2>11, <2>12 DEF Ladder!Next
<1> QED
  BY <1>2, <1>3

LEMMA GoSaveExclusive ==
    ASSUME Sound, Exclusive, NEW p \in Pods, NEW what \in {"failed", "completed"},
           pod' = [pod EXCEPT ![p].pc = "get", ![p].saving = what],
           UNCHANGED <<cm, begun, done, kmm>>,
           ~pod[p].dryRun, pod[p].pc \in {"ready", "running"}
    PROVE  Exclusive'
<1>1. /\ pod'[p].pc = "get" /\ pod'[p].saving = what /\ pod'[p].lost = pod[p].lost
      /\ pod'[p].progress = pod[p].progress /\ pod'[p].secureBoot = pod[p].secureBoot
      /\ \A q \in Pods \ {p} : pod'[q] = pod[q]
  BY DEF Sound, TypeOK, Process
<1>2. PodCurrent(p) /\ FlagKept(p)
  BY DEF Exclusive
<1>3. PodCurrent(p)' /\ FlagKept(p)'
  BY <1>1, <1>2 DEF PodCurrent, FlagKept, Saving, Working
<1> QED
  BY <1>1, <1>3, SameData, ExclusiveFrame DEF Exclusive

LEMMA PhaseFailsExclusive ==
    ASSUME Sound, Exclusive, NEW p \in Pods, PhaseFails(p) \/ FinishLoop(p)
    PROVE  Exclusive'
<1>1. CASE pod[p].dryRun
  BY <1>1, ExitExclusive DEF PhaseFails, FinishLoop, markFailedProgress
<1>2. CASE ~pod[p].dryRun
  BY <1>2, GoSaveExclusive DEF PhaseFails, FinishLoop, markFailedProgress
<1> QED
  BY <1>1, <1>2

LEMMA EnsureExclusive ==
    ASSUME Sound, Exclusive, NEW p \in Pods, EnsureGet(p) \/ EnsureCreate(p)
    PROVE  Exclusive' /\ cm'.progress = cm.progress
<1>1. pod[p].pc \in Saving
  BY DEF EnsureGet, EnsureCreate, Saving
<1>2. /\ pod'[p].pc \in Saving /\ pod'[p].saving = pod[p].saving
      /\ pod'[p].lost = pod[p].lost /\ pod'[p].phase = pod[p].phase
      /\ pod'[p].progress = pod[p].progress /\ pod'[p].secureBoot = pod[p].secureBoot
      /\ pod'[p].dryRun = pod[p].dryRun
      /\ \A q \in Pods \ {p} : pod'[q] = pod[q]
  <2>1. CASE EnsureGet(p)
    <3> DEFINE c == IF cm.exists THEN "update" ELSE "create"
    <3>1. pod' = [pod EXCEPT ![p].pc = c, ![p].fresh = cm.exists] /\ c \in Saving
      BY <2>1 DEF EnsureGet, Saving
    <3> HIDE DEF c
    <3> QED
      BY <3>1 DEF Sound, TypeOK, Process
  <2>2. CASE EnsureCreate(p)
    BY <2>2 DEF EnsureCreate, Sound, TypeOK, Process, Saving
  <2> QED
    BY <2>1, <2>2
<1>3. cm'.progress = cm.progress /\ UNCHANGED <<begun, done, kmm>>
  BY DEF EnsureGet, EnsureCreate, Sound, TypeOK
<1>4. ~pod[p].dryRun => PodCurrent(p)' /\ FlagKept(p)'
  <2> SUFFICES ASSUME ~pod[p].dryRun PROVE PodCurrent(p)' /\ FlagKept(p)'
    OBVIOUS
  <2>1. PodCurrent(p) /\ FlagKept(p)
    BY DEF Exclusive
  <2> QED
    BY <1>1, <1>2, <1>3, <2>1 DEF PodCurrent, FlagKept, Saving, Working
<1>5. Exclusive'
  BY <1>1, <1>2, <1>3, <1>4, SameData, ExclusiveFrame DEF Exclusive, Saving
<1> QED
  BY <1>3, <1>5

LEMMA ApplyUpdateExclusive ==
    ASSUME Sound, Exclusive, NEW p \in Pods, NEW r, ApplyUpdate(p, r), Landing(p, r)
    PROVE  Exclusive' /\ [Ladder!Next]_(Ladder!vars)
<1>1. pod[p].pc \in Saving
  BY DEF ApplyUpdate, Saving
<1>2. ~pod[p].dryRun /\ PodSound(p) /\ PodCurrent(p) /\ FlagKept(p)
  BY <1>1 DEF Sound, DrySound, Exclusive
<1>3. /\ pod'[p] = r
      /\ \A q \in Pods \ {p} : pod'[q].pc = pod[q].pc /\ pod'[q].lost = pod[q].lost
  BY DEF ApplyUpdate, Sound, TypeOK, Process
<1>4. UNCHANGED <<begun, done, kmm>> /\ cm'.progress = ToSave(p)
  BY DEF ApplyUpdate
<1> DEFINE pr == pod[p].progress
<1>5. /\ pod[p] \in Process /\ pr \in Progress /\ cm.progress.last \in Nat
      /\ pod[p].saving \in {"checkpoint", "failed", "completed"}
      /\ cm.progress.last <= NumPhases
  BY PhasesAssumption DEF Sound, TypeOK, Process, Progress
<1>6. ToSave(p).secureBoot = pr.secureBoot
  BY <1>5 DEF ToSave, Progress
<1>7. pr.last >= DetectPhase => pr.secureBoot = SecureBoot /\ pod[p].secureBoot = SecureBoot
  BY <1>1, <1>2 DEF FlagKept, Working
<1>8. CASE pod[p].saving = "checkpoint"
  <2>1. /\ ToSave(p) = pr /\ pr.last = cm.progress.last + 1
        /\ pod[p].phase = pr.last /\ pr.last \in done
    BY <1>1, <1>2, <1>8 DEF ToSave, PodSound, PodCurrent
  <2>2. done = 1..(cm.progress.last + 1)
    <3>1. cm.progress.last + 1 \notin 1..cm.progress.last
      BY <1>5
    <3> QED
      BY <2>1, <3>1 DEF Exclusive
  <2>3. cm'.progress.last = cm.progress.last + 1
    BY <1>4, <2>1
  <2>4. ExclusiveData'
    <3>1. done' = 1..cm'.progress.last
      BY <1>4, <2>2, <2>3
    <3>2. EnablePhase \in begun' => cm'.progress.last >= DetectPhase
      BY <1>4, <1>5, <2>3, PhasesAssumption DEF Exclusive
    <3>3. cm'.progress.last >= DetectPhase => cm'.progress.secureBoot = SecureBoot
      BY <1>4, <1>7, <2>1
    <3> QED
      BY <1>4, <3>1, <3>2, <3>3 DEF Exclusive, ExclusiveData, SecureBootCarried
  <2>5. PodCurrent(p)' /\ FlagKept(p)' /\ pod'[p].pc # "running"
    BY <1>3, <1>4, <1>7, <2>1 DEF Landing, PodCurrent, FlagKept, Saving, Working
  <2>6. Exclusive'
    BY <1>1, <1>3, <2>4, <2>5, ExclusiveFrame DEF Landing, Exclusive, Saving
  <2>7. Ladder!Save
    BY <1>4, <2>1, <2>3 DEF Ladder!Save
  <2> QED
    BY <2>6, <2>7 DEF Ladder!Next
<1>9. CASE pod[p].saving # "checkpoint"
  <2>1. pr.last = cm.progress.last
    BY <1>1, <1>2, <1>9 DEF PodCurrent
  <2>2. ToSave(p).last = cm.progress.last
    <3>1. CASE pod[p].saving = "failed"
      BY <1>5, <2>1, <3>1 DEF ToSave, Progress
    <3>2. CASE pod[p].saving = "completed"
      <4>1. pr.last = NumPhases
        BY <1>1, <1>2, <3>2 DEF PodSound
      <4> QED
        BY <1>5, <2>1, <3>2, <4>1 DEF ToSave, Progress
    <3> QED
      BY <1>5, <1>9, <3>1, <3>2
  <2>3. cm'.progress.last = cm.progress.last /\ cm'.progress.secureBoot = pr.secureBoot
    BY <1>4, <1>6, <2>2
  <2>4. ExclusiveData'
    BY <1>4, <1>7, <2>1, <2>3 DEF Exclusive, ExclusiveData, SecureBootCarried
  <2>5. PodCurrent(p)' /\ FlagKept(p)' /\ pod'[p].pc # "running"
    BY <1>3, <1>9 DEF Landing, PodCurrent, FlagKept, Saving, Working
  <2>6. Exclusive'
    BY <1>1, <1>3, <2>4, <2>5, ExclusiveFrame DEF Landing, Exclusive, Saving
  <2> QED
    BY <1>4, <2>3, <2>6 DEF Ladder!vars
<1> QED
  BY <1>8, <1>9

LEMMA SaveFailsExclusive ==
    ASSUME Sound, Exclusive, NEW p \in Pods, SaveFails(p)
    PROVE  Exclusive'
<1>1. Landing(p, AfterSaveError(p)) /\ pod[p].saving \in {"checkpoint", "failed", "completed"}
  BY AfterSaveLands DEF SaveFails, Sound, TypeOK, Process
<1>2. AfterSaveError(p).pc = "exited"
  BY <1>1, EndedFacts DEF AfterSaveError, AfterSave
<1>3. pod'[p] = AfterSaveError(p) /\ \A q \in Pods \ {p} : pod'[q] = pod[q]
  BY DEF SaveFails, Sound, TypeOK
<1> QED
  BY <1>1, <1>2, <1>3, IdleExclusive DEF SaveFails, Saving, Landing, Exclusive

LEMMA ControllerExclusive ==
    ASSUME Sound, Exclusive, ~AllowLoss, NEW p \in Pods, ControllerStep(p)
    PROVE  Exclusive'
<1>1. CASE CreatePod(p)
  <2> DEFINE r == Slot("boot", job.dryRun, job.validEnv, ExitOK, FALSE)
  <2>1. r.pc = "boot" /\ r.lost = FALSE
    BY DEF Slot
  <2>2. pod'[p] = r /\ \A q \in Pods \ {p} : pod'[q] = pod[q]
    BY <1>1 DEF CreatePod, Sound, TypeOK
  <2> HIDE DEF r
  <2>3. \A q \in Pods : pod[q].pc = "none"
    BY <1>1 DEF CreatePod, Active, Exclusive
  <2>4. \A q \in Pods : /\ ~pod'[q].lost /\ pod'[q].pc \in {"none", "boot"}
                        /\ PodCurrent(q)' /\ FlagKept(q)'
    BY <2>1, <2>2, <2>3 DEF PodCurrent, FlagKept, Saving, Working, Exclusive
  <2>5. ExclusiveData'
    BY <1>1, SameData DEF CreatePod
  <2> QED
    BY <2>4, <2>5 DEF Exclusive, ExclusiveData
<1>2. CASE ObserveExit(p)
  <2>1. NoPod.pc = "none" /\ NoPod.lost = FALSE
    BY DEF NoPod, Slot
  <2>2. pod'[p] = NoPod /\ \A q \in Pods \ {p} : pod'[q] = pod[q]
    BY <1>2 DEF ObserveExit, Sound, TypeOK
  <2> QED
    BY <1>2, <2>1, <2>2, IdleExclusive DEF ObserveExit
<1>3. CASE Kill(p)
  BY <1>3, ExitExclusive DEF Kill, Live
<1> QED
  BY <1>1, <1>2, <1>3 DEF ControllerStep, LosePod

LEMMA SamePodsExclusive ==
    ASSUME Exclusive, UNCHANGED <<pod, cm, begun, done, kmm>>
    PROVE  Exclusive'
  BY DEF Exclusive, PodCurrent, FlagKept, SecureBootCarried

LEMMA InitExclusive == Init => Exclusive
<1> SUFFICES ASSUME Init PROVE Exclusive
  OBVIOUS
<1>1. \A p \in Pods : pod[p].pc = "none" /\ ~pod[p].lost
  BY DEF Init, NoPod, Slot
<1>2. cm.progress.last = 0
  BY DEF Init, DefaultProgress
<1>3. \A p \in Pods : PodCurrent(p) /\ FlagKept(p) /\ pod[p].pc # "running"
  BY <1>1 DEF PodCurrent, FlagKept, Saving, Working
<1>4. done \in {1..cm.progress.last, 1..(cm.progress.last + 1)}
  BY <1>2 DEF Init
<1> QED
  BY <1>1, <1>2, <1>3, <1>4, PhasesAssumption DEF Exclusive, SecureBootCarried, Init

LEMMA NextExclusive ==
    ASSUME ~AllowLoss, Sound, Exclusive, [Next]_vars
    PROVE  Exclusive' /\ [Ladder!Next]_(Ladder!vars)
<1>1. ASSUME NEW p \in Pods, PodStep(p)
      PROVE  Exclusive' /\ [Ladder!Next]_(Ladder!vars)
  <2>1. CASE PhaseSucceeds(p)
    BY <2>1, PhaseSucceedsExclusive
  <2>2. CASE Update(p) \/ UpdateReplyLost(p)
    <3>1. Landing(p, AfterSave(p)) /\ Landing(p, AfterSaveError(p))
      BY <2>2, AfterSaveLands DEF Update, UpdateReplyLost, ApplyUpdate, Saving
    <3> QED
      BY <2>2, <3>1, ApplyUpdateExclusive DEF Update, UpdateReplyLost
  <2>3. CASE EnsureGet(p) \/ EnsureCreate(p)
    <3>1. Exclusive' /\ cm'.progress = cm.progress /\ UNCHANGED <<begun, done>>
      BY <2>3, EnsureExclusive DEF EnsureGet, EnsureCreate
    <3> QED
      BY <3>1 DEF Ladder!vars
  <2>4. CASE Boot(p) \/ ReadProgress(p)
    <3>1. UNCHANGED <<cm, begun, done>>
      BY <2>4 DEF Boot, ReadProgress
    <3> QED
      BY <2>4, <3>1, BootExclusive, ReadProgressExclusive DEF Ladder!vars
  <2>5. CASE ReadFails(p)
    <3>1. UNCHANGED <<cm, begun, done, kmm>> /\ pod[p].pc # "none" /\ Exit(p, ExitFatal)
      BY <2>5 DEF ReadFails
    <3> QED
      BY <3>1, ExitExclusive DEF Ladder!vars
  <2>6. CASE Detect(p) \/ EnableKMM(p)
    <3>1. UNCHANGED <<cm, begun, done>>
      BY <2>6 DEF Detect, EnableKMM
    <3> QED
      BY <2>6, <3>1, DetectExclusive, EnableKMMExclusive DEF Ladder!vars
  <2>7. CASE PhaseFails(p) \/ FinishLoop(p)
    <3>1. UNCHANGED <<cm, begun, done>>
      BY <2>7 DEF PhaseFails, FinishLoop
    <3> QED
      BY <2>7, <3>1, PhaseFailsExclusive DEF Ladder!vars
  <2>8. CASE SaveFails(p)
    <3>1. UNCHANGED <<cm, begun, done>>
      BY <2>8 DEF SaveFails
    <3> QED
      BY <2>8, <3>1, SaveFailsExclusive DEF Ladder!vars
  <2> QED
    BY <1>1, <2>1, <2>2, <2>3, <2>4, <2>5, <2>6, <2>7, <2>8, BeginPhaseExclusive DEF PodStep
<1>2. ASSUME NEW p \in Pods, ControllerStep(p)
      PROVE  Exclusive' /\ [Ladder!Next]_(Ladder!vars)
  <2>1. UNCHANGED <<cm, begun, done>>
    BY <1>2 DEF ControllerStep, CreatePod, ObserveExit, LosePod, Kill
  <2> QED
    BY <1>2, <2>1, ControllerExclusive DEF Ladder!vars
<1>3. ASSUME \/ Calm
             \/ UNCHANGED vars
             \/ \E dryRun, validEnv \in BOOLEAN : RecreateJob(dryRun, validEnv)
      PROVE  Exclusive' /\ [Ladder!Next]_(Ladder!vars)
  <2>1. UNCHANGED <<pod, cm, begun, done, kmm>>
    BY <1>3 DEF Calm, vars, RecreateJob
  <2> QED
    BY <2>1, SamePodsExclusive DEF Ladder!vars
<1> QED
  BY <1>1, <1>2, <1>3 DEF Next

\* main.go:86-88,130: without lost pods KMM is only ever enabled with the flag DetectPhase
\* found, whatever failed and restarted between the two phases.
THEOREM FlagSurvivesRestarts == ~AllowLoss => (Spec => []SecureBootCarried)
<1> SUFFICES ASSUME ~AllowLoss PROVE Spec => []SecureBootCarried
  OBVIOUS
<1>1. Init => Sound /\ Exclusive
  BY InitSound, InitExclusive
<1>2. Sound /\ Exclusive /\ [Next]_vars => (Sound /\ Exclusive)'
  BY NextSound, NextExclusive
<1>3. Exclusive => SecureBootCarried
  BY DEF Exclusive
<1> QED
  BY <1>1, <1>2, <1>3, PTL DEF Spec

\* main.go:44-55: without lost pods a real pod only runs the phase right after the stored
\* checkpoint, so that no completed phase is ever repeated.
THEOREM NextPhaseRuns == ~AllowLoss => (Spec => []RunsNextPhase)
<1> SUFFICES ASSUME ~AllowLoss PROVE Spec => []RunsNextPhase
  OBVIOUS
<1>1. Init => Sound /\ Exclusive
  BY InitSound, InitExclusive
<1>2. Sound /\ Exclusive /\ [Next]_vars => (Sound /\ Exclusive)'
  BY NextSound, NextExclusive
<1>3. Sound /\ Exclusive => RunsNextPhase
  BY DEF Sound, Exclusive, RunsNextPhase, PodSound, PodCurrent
<1> QED
  BY <1>1, <1>2, <1>3, PTL DEF Spec

\* Without lost pods the Job, with all its crashes, retries and lost answers, implements the
\* ladder: phase after phase, each upon the saved checkpoint of the one before.
THEOREM JobClimbsTheLadder == ~AllowLoss => (Spec => ImplementsLadder)
<1> SUFFICES ASSUME ~AllowLoss PROVE Spec => ImplementsLadder
  OBVIOUS
<1>1. Init => Sound /\ Exclusive
  BY InitSound, InitExclusive
<1>2. Sound /\ Exclusive /\ [Next]_vars => (Sound /\ Exclusive)' /\ [Ladder!Next]_(Ladder!vars)
  BY NextSound, NextExclusive
<1>3. Init => Ladder!Init
  BY DEF Init, Ladder!Init, DefaultProgress
<1> QED
  BY <1>1, <1>2, <1>3, PTL DEF Spec, ImplementsLadder, Ladder!Spec

\* What PhaseLadderProofs shows of the ladder, with the phases and checkpoints of the Job.
Rungs == INSTANCE PhaseLadderProofs WITH climbed <- done, saved <- cm.progress.last

\* main.go:115-147: without lost pods, wherever the pods of the Job were killed, at most one
\* phase was begun and is not checkpointed, the one after the checkpoint, and what is done
\* was begun.
THEOREM NeverBetweenTwoPhases == ~AllowLoss => (Spec => []Ladder!OneRungAtATime)
<1> SUFFICES ASSUME ~AllowLoss PROVE Spec => []Ladder!OneRungAtATime
  OBVIOUS
<1>1. NumPhases \in Nat /\ (NumPhases \in Nat => (Rungs!Spec => []Rungs!OneRungAtATime))
  BY Rungs!PhasesOneByOne, PhasesAssumption
<1>2. Spec => Ladder!Spec
  BY JobClimbsTheLadder DEF ImplementsLadder
<1>3. Ladder!Init => Rungs!Init
  BY DEF Ladder!Init, Rungs!Init
<1>4. [Ladder!Next]_(Ladder!vars) => [Rungs!Next]_(Rungs!vars)
  BY DEF Ladder!Next, Ladder!vars, Ladder!Begin, Ladder!Climb, Ladder!Save,
         Rungs!Next, Rungs!vars, Rungs!Begin, Rungs!Climb, Rungs!Save
<1>5. Rungs!OneRungAtATime => Ladder!OneRungAtATime
  BY DEF Rungs!OneRungAtATime, Ladder!OneRungAtATime
<1> QED
  BY <1>1, <1>2, <1>3, <1>4, <1>5, PTL DEF Ladder!Spec, Rungs!Spec

-----------------------------------------------------------------------------
(* Success and the checkpoint *)

\* A real pod that ended well, and the Job that reports it, stand on the last checkpoint.
Recorded ==
    /\ \A p \in Pods : pod[p].pc = "exited" /\ pod[p].code = ExitOK /\ ~pod[p].dryRun =>
          cm.progress.last = NumPhases
    /\ SuccessIsCheckpointed

\* A step of one pod leaves the others, and the Job, where they are.
LEMMA OthersStay ==
    ASSUME Sound, NEW p \in Pods, PodStep(p)
    PROVE  /\ UNCHANGED job
           /\ \A q \in Pods \ {p} : /\ pod'[q].pc = pod[q].pc /\ pod'[q].code = pod[q].code
                                    /\ pod'[q].dryRun = pod[q].dryRun
<1>1. pod \in [Pods -> Process]
  BY DEF Sound, TypeOK
<1>2. CASE Boot(p) \/ ReadProgress(p) \/ ReadFails(p)
  BY <1>1, <1>2 DEF Boot, ReadProgress, ReadFails, Exit
<1>3. CASE BeginPhase(p) \/ Detect(p) \/ EnableKMM(p)
  BY <1>1, <1>3 DEF BeginPhase, Detect, EnableKMM
<1>4. CASE PhaseSucceeds(p) \/ PhaseFails(p) \/ FinishLoop(p)
  BY <1>1, <1>4 DEF PhaseSucceeds, PhaseFails, FinishLoop, markFailedProgress, Exit
<1>5. CASE EnsureGet(p) \/ EnsureCreate(p) \/ SaveFails(p)
  BY <1>1, <1>5 DEF EnsureGet, EnsureCreate, SaveFails
<1>6. CASE Update(p) \/ UpdateReplyLost(p)
  BY <1>1, <1>6 DEF Update, UpdateReplyLost, ApplyUpdate, Process
<1> QED
  BY <1>2, <1>3, <1>4, <1>5, <1>6 DEF PodStep

\* Nor does a step turn a dry run into a real one, or back.
LEMMA PodKeepsMode ==
    ASSUME Sound, NEW p \in Pods, PodStep(p)
    PROVE  pod'[p].dryRun = pod[p].dryRun
<1>1. pod \in [Pods -> Process]
  BY DEF Sound, TypeOK
<1>2. ASSUME NEW code, Exit(p, code)
      PROVE  pod'[p].dryRun = pod[p].dryRun
  <2>1. pod'[p] = Ended(p, code)
    BY <1>1, <1>2 DEF Exit
  <2> QED
    BY <2>1, EndedFacts
<1>3. CASE Boot(p) \/ ReadProgress(p) \/ ReadFails(p)
  BY <1>1, <1>2, <1>3 DEF Boot, ReadProgress, ReadFails, Process
<1>4. CASE BeginPhase(p) \/ Detect(p) \/ EnableKMM(p)
  BY <1>1, <1>4 DEF BeginPhase, Detect, EnableKMM, Process
<1>5. CASE PhaseSucceeds(p) \/ PhaseFails(p) \/ FinishLoop(p)
  BY <1>1, <1>2, <1>5 DEF PhaseSucceeds, PhaseFails, FinishLoop, markFailedProgress, Process
<1>6. CASE EnsureGet(p) \/ EnsureCreate(p)
  BY <1>1, <1>6 DEF EnsureGet, EnsureCreate, Process
<1>7. CASE Update(p) \/ UpdateReplyLost(p) \/ SaveFails(p)
  <2>1. pod[p].pc \in Saving
    BY <1>7 DEF Update, UpdateReplyLost, ApplyUpdate, SaveFails, Saving
  <2>2. pod'[p] = AfterSave(p) \/ pod'[p] = AfterSaveError(p)
    BY <1>1, <1>7 DEF Update, UpdateReplyLost, ApplyUpdate, SaveFails
  <2> QED
    BY <2>1, <2>2, AfterSaveLands DEF Landing
<1> QED
  BY <1>3, <1>4, <1>5, <1>6, <1>7 DEF PodStep

\* A real pod ends well in two places only: where it reads that the migration is complete,
\* and after it tried to save "completed"; the checkpoint is the last one in both.
LEMMA EndsOnLastCheckpoint ==
    ASSUME Sound, Exclusive, NEW p \in Pods, PodStep(p), ~pod[p].dryRun,
           pod'[p].pc = "exited", pod'[p].code = ExitOK
    PROVE  cm.progress.last = NumPhases
<1>1. pod \in [Pods -> Process] /\ cm.progress \in Progress
  BY DEF Sound, TypeOK
<1>2. ASSUME NEW code, Exit(p, code)
      PROVE  code = ExitOK
  <2>1. pod'[p] = Ended(p, code)
    BY <1>1, <1>2 DEF Exit
  <2> QED
    BY <2>1, EndedFacts
<1>3. CASE ReadProgress(p)
  <2>1. AlreadyComplete(cm.progress)
    BY <1>1, <1>3 DEF ReadProgress, Process
  <2> QED
    BY <1>1, <2>1, PhasesAssumption
    DEF AlreadyComplete, Progress, Sound, StatusConsistent, Consistent
<1>4. CASE Boot(p) \/ ReadFails(p)
  BY <1>1, <1>2, <1>4, ExitTypes DEF Boot, ReadFails, Process
<1>5. CASE BeginPhase(p)
  BY <1>1, <1>5 DEF BeginPhase, Process
<1>6. CASE Detect(p)
  <2>1. PICK flag \in Detectable :
            pod' = [pod EXCEPT ![p].secureBoot = flag, ![p].acted = TRUE]
    BY <1>6 DEF Detect
  <2>2. pod'[p].pc = pod[p].pc
    BY <1>1, <2>1 DEF Process
  <2> QED
    BY <1>6, <2>2 DEF Detect
<1>7. CASE EnableKMM(p)
  <2>1. pod'[p].pc = pod[p].pc
    BY <1>1, <1>7 DEF EnableKMM, Process
  <2> QED
    BY <1>7, <2>1 DEF EnableKMM
<1>8. CASE PhaseSucceeds(p) \/ PhaseFails(p) \/ FinishLoop(p)
  BY <1>1, <1>8 DEF PhaseSucceeds, PhaseFails, FinishLoop, markFailedProgress, Process
<1>9. CASE EnsureGet(p) \/ EnsureCreate(p)
  BY <1>1, <1>9 DEF EnsureGet, EnsureCreate, Process
<1>10. CASE Update(p) \/ UpdateReplyLost(p) \/ SaveFails(p)
  <2>1. pod[p].pc \in Saving
    BY <1>10 DEF Update, UpdateReplyLost, ApplyUpdate, SaveFails, Saving
  <2>2. pod'[p] = AfterSave(p) \/ pod'[p] = AfterSaveError(p)
    BY <1>1, <1>10 DEF Update, UpdateReplyLost, ApplyUpdate, SaveFails
  <2>3. pod[p].saving = "completed"
    BY <2>1, <2>2, AfterSaveLands DEF Landing
  <2>4. PodSound(p) /\ PodCurrent(p)
    BY DEF Sound, Exclusive
  <2> QED
    BY <2>1, <2>3, <2>4 DEF PodSound, PodCurrent
<1> QED
  BY <1>3, <1>4, <1>5, <1>6, <1>7, <1>8, <1>9, <1>10 DEF PodStep

LEMMA ControllerRecorded ==
    ASSUME ~AllowLoss, Sound, Exclusive, Recorded, NEW p \in Pods, ControllerStep(p)
    PROVE  Recorded'
<1>1. pod \in [Pods -> Process] /\ job \in JobObject /\ cm' = cm
  BY DEF Sound, TypeOK, ControllerStep, CreatePod, ObserveExit, LosePod, Kill
<1>2. CASE CreatePod(p)
  <2> DEFINE r == Slot("boot", job.dryRun, job.validEnv, ExitOK, FALSE)
  <2>1. r.pc = "boot"
    BY DEF Slot
  <2>2. pod'[p] = r /\ job' = job /\ \A q \in Pods \ {p} : pod'[q] = pod[q]
    BY <1>1, <1>2 DEF CreatePod
  <2> QED
    BY <1>1, <2>1, <2>2 DEF Recorded, SuccessIsCheckpointed
<1>3. CASE ObserveExit(p)
  <2>1. /\ pod'[p].pc = "none"
        /\ \A q \in Pods \ {p} : pod'[q] = pod[q]
    BY <1>1, <1>3 DEF ObserveExit, NoPod, Slot
  <2>2. /\ ~pod[p].lost /\ pod[p].pc = "exited"
        /\ job.status = "running" /\ job' = JobAfterExit(pod[p].code)
    BY <1>3 DEF ObserveExit, Exclusive
  <2>3. pod[p].dryRun = job.dryRun
    BY <2>2 DEF Sound, ControllerSound, Active
  <2>4. job'.dryRun = job.dryRun /\ (job'.status = "complete" => pod[p].code = ExitOK)
    BY <1>1, <2>2 DEF JobAfterExit, JobAfterFailure, JobObject
  <2> QED
    BY <1>1, <2>1, <2>2, <2>3, <2>4 DEF Recorded, SuccessIsCheckpointed
<1>4. CASE Kill(p)
  <2>1. /\ pod'[p].code = Killed /\ job' = job
        /\ \A q \in Pods \ {p} : pod'[q] = pod[q]
    BY <1>1, <1>4, EndedFacts DEF Kill, Exit
  <2> QED
    BY <1>1, <2>1, ExitTypes DEF Recorded, SuccessIsCheckpointed
<1> QED
  BY <1>2, <1>3, <1>4 DEF ControllerStep, LosePod

LEMMA NextRecorded ==
    ASSUME ~AllowLoss, Sound, Exclusive, Recorded, [Next]_vars
    PROVE  Recorded'
<1>1. cm.progress.last = NumPhases => cm'.progress.last = NumPhases
  <2>1. cm'.progress.last \in 0..NumPhases
    BY NextSound DEF Sound, TypeOK, Progress
  <2> QED
    BY <2>1, NextExclusive, PhasesAssumption DEF Ladder!Next, Ladder!Begin, Ladder!Climb, Ladder!Save, Ladder!vars
<1>2. ASSUME NEW p \in Pods, PodStep(p)
      PROVE  Recorded'
  <2>1. pod'[p].dryRun = pod[p].dryRun
    BY <1>2, PodKeepsMode
  <2> QED
    BY <1>1, <1>2, <2>1, OthersStay, EndsOnLastCheckpoint DEF Recorded, SuccessIsCheckpointed
<1>3. ASSUME \/ Calm
             \/ UNCHANGED vars
             \/ \E dryRun, validEnv \in BOOLEAN : RecreateJob(dryRun, validEnv)
      PROVE  Recorded'
  <2>1. CASE Calm \/ UNCHANGED vars
    BY <2>1 DEF Calm, vars, Recorded, SuccessIsCheckpointed
  <2>2. ASSUME NEW dryRun, NEW validEnv, RecreateJob(dryRun, validEnv)
        PROVE  Recorded'
    BY <2>2 DEF RecreateJob, Recorded, SuccessIsCheckpointed
  <2> QED
    BY <1>3, <2>1, <2>2
<1> QED
  BY <1>2, <1>3, ControllerRecorded DEF Next

\* main.go:134-147: without lost pods a Job that reports success has left the last
\* checkpoint behind, whether or not the write of the final mark went through.
THEOREM SuccessLeavesTheCheckpoint == ~AllowLoss => (Spec => []SuccessIsCheckpointed)
<1> SUFFICES ASSUME ~AllowLoss PROVE Spec => []SuccessIsCheckpointed
  OBVIOUS
<1>1. Init => Sound /\ Exclusive /\ Recorded
  <2>1. Init => Recorded
    BY DEF Init, NoPod, Slot, Recorded, SuccessIsCheckpointed
  <2> QED
    BY <2>1, InitSound, InitExclusive
<1>2. Sound /\ Exclusive /\ Recorded /\ [Next]_vars => (Sound /\ Exclusive /\ Recorded)'
  BY NextSound, NextExclusive, NextRecorded
<1>3. Recorded => SuccessIsCheckpointed
  BY DEF Recorded
<1> QED
  BY <1>1, <1>2, <1>3, PTL DEF Spec

\* README.md:86,111: while only dry runs live, no step of theirs, of the Job controller or of
\* the operator changes the ConfigMap or the cluster: the steps that write are those of a
\* real pod, since a dry run never gets to a save and does not act in its phases.
THEOREM DryRunsReadOnly == Spec => DryRunReadOnly
<1>1. Sound /\ [Next]_vars =>
        [(\A p \in Pods : Live(p) => pod[p].dryRun) => UNCHANGED <<cm, begun, done, kmm>>]_vars
  <2> SUFFICES ASSUME Sound, [Next]_vars, \A p \in Pods : Live(p) => pod[p].dryRun
               PROVE  UNCHANGED <<cm, begun, done, kmm>>
    OBVIOUS
  <2>1. ASSUME NEW p \in Pods, PodStep(p)
        PROVE  UNCHANGED <<cm, begun, done, kmm>>
    <3>1. Live(p)
      BY <2>1 DEF Live, PodStep, Boot, ReadProgress, ReadFails, BeginPhase, Detect, EnableKMM,
                  PhaseSucceeds, PhaseFails, FinishLoop, EnsureGet, EnsureCreate, Update,
                  UpdateReplyLost, ApplyUpdate, SaveFails, Saving
    <3>2. pod[p].dryRun
      BY <3>1
    <3>3. pod[p].pc \notin Saving
      BY <3>2 DEF Sound, DrySound
    <3>4. ~EnableKMM(p) /\ ~EnsureGet(p) /\ ~EnsureCreate(p)
      BY <3>2, <3>3 DEF EnableKMM, EnsureGet, EnsureCreate, Saving
    <3>5. ~Update(p) /\ ~UpdateReplyLost(p)
      BY <3>3 DEF Update, UpdateReplyLost, ApplyUpdate, Saving
    <3>6. CASE BeginPhase(p)
      BY <3>2, <3>6 DEF BeginPhase
    <3>7. CASE PhaseSucceeds(p)
      BY <3>2, <3>7 DEF PhaseSucceeds
    <3>8. CASE \/ Boot(p) \/ ReadProgress(p) \/ ReadFails(p) \/ Detect(p) \/ PhaseFails(p)
               \/ FinishLoop(p) \/ SaveFails(p)
      BY <3>8 DEF Boot, ReadProgress, ReadFails, Detect, PhaseFails, FinishLoop, SaveFails
    <3> QED
      BY <2>1, <3>4, <3>5, <3>6, <3>7, <3>8 DEF PodStep
  <2>2. ASSUME NEW p \in Pods, ControllerStep(p)
        PROVE  UNCHANGED <<cm, begun, done, kmm>>
    BY <2>2 DEF ControllerStep, CreatePod, ObserveExit, LosePod, Kill
  <2>3. ASSUME Calm \/ UNCHANGED vars \/ \E dryRun, validEnv \in BOOLEAN : RecreateJob(dryRun, validEnv)
        PROVE  UNCHANGED <<cm, begun, done, kmm>>
    BY <2>3 DEF Calm, vars, RecreateJob
  <2> QED
    BY <2>1, <2>2, <2>3 DEF Next
<1> QED
  BY <1>1, InitSound, NextSound, PTL DEF Spec, DryRunReadOnly

=============================================================================
