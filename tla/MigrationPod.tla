---------------------------- MODULE MigrationPod -----------------------------
(***************************************************************************)
(* The pod that the phases of Migration run in: the loop of                *)
(* cmd/migrate/main.go with one pod at a time, and the checkpoint as one   *)
(* number.  MigrationJob has the rest of both.                             *)
(***************************************************************************)
EXTENDS Integers

VARIABLES
    phase,       \* the phase at work; 8 when the loop is over
    pc,          \* the call that is made next
    dry,         \* MIGRATION_DRY_RUN
    resuming,    \* ResumingFromCheckpoint
    checkpoint,  \* lastCompletedPhase of the ConfigMap
    begun,       \* phases a pod that is not a dry run ever entered
    done,        \* phases whose function ever returned nil in such a pod
    calm         \* TRUE once nothing outside the tool fails or changes by itself any more

flow == <<phase, pc, dry, resuming, checkpoint, begun, done>>

\* The first call of each phase.
First(k) ==
    CASE k = 1 -> "connectivity"
      [] k = 2 -> "index"
      [] k \in 3..5 -> "acts"
      [] k = 6 -> "list_filesystems"
      [] k = 7 -> "namespace"
      [] OTHER -> "ended"

Ended == pc \in {"ended", "refused"}

Enter(k, dryRun) ==
    /\ phase' = k /\ pc' = First(k)
    /\ begun' = IF dryRun \/ k = 8 THEN begun ELSE begun \cup {k}

Goto(call) ==
    /\ pc' = call
    /\ UNCHANGED <<phase, dry, resuming, checkpoint, begun, done>>

\* The function of a phase returns nil: a dry run enters the next one at once.
ReturnNil ==
    \/ /\ dry
       /\ Enter(phase + 1, TRUE)
       /\ UNCHANGED <<dry, resuming, checkpoint, done>>
    \/ /\ ~dry
       /\ pc' = "save" /\ done' = done \cup {phase}
       /\ UNCHANGED <<phase, dry, resuming, checkpoint, begun>>

\* ... an error: the pod exits with 1, from preflight with 42.
ReturnError == Goto("ended")
Refuse == Goto("refused")

WriteMigrationProgress ==
    /\ pc = "save"
    /\ checkpoint' = phase
    /\ Enter(phase + 1, FALSE)
    /\ UNCHANGED <<dry, resuming, done, calm>>

\* The Update was applied, and its answer never arrived.
AnswerLost ==
    /\ pc = "save" /\ ~calm
    /\ checkpoint' = phase /\ pc' = "ended"
    /\ UNCHANGED <<phase, dry, resuming, begun, done, calm>>

\* The pod is killed, or any call of it fails.
PodFails ==
    /\ ~Ended /\ ~calm
    /\ ReturnError
    /\ UNCHANGED calm

Mut_Resumed(dryRun) == ~dryRun /\ checkpoint > 6  \* the mode is entered too late

Resumed(dryRun) == ~dryRun /\ checkpoint > 0

Mut_StartAt(dryRun) ==  \* a checkpoint of the first phases does not count
    IF dryRun \/ checkpoint < 5 THEN 1 ELSE checkpoint + 1

Mut_StartAtSkips(dryRun) ==  \* a pod that follows a failure leaves out the phase that failed
    IF dryRun THEN 1 ELSE IF checkpoint + 1 \in begun /\ checkpoint < 6 THEN checkpoint + 2
                          ELSE checkpoint + 1

StartAt(dryRun) == IF dryRun THEN 1 ELSE checkpoint + 1

\* The next pod of the Job, or of the Job that replaces it.  A migration that is complete
\* is not begun again.
StartPod(dryRun) ==
    /\ Ended
    /\ calm => ~dryRun
    /\ dryRun \/ checkpoint < 7
    /\ dry' = dryRun
    /\ resuming' = Resumed(dryRun)
    /\ Enter(StartAt(dryRun), dryRun)
    /\ UNCHANGED <<checkpoint, done, calm>>

PodInit ==
    /\ phase = 1 /\ pc = "ended" /\ dry = FALSE /\ resuming = FALSE
    /\ checkpoint = 0 /\ begun = {} /\ done = {} /\ calm = FALSE
=============================================================================
