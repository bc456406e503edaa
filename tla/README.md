# Verification of the Fusion Access migration tool

The `migrate` command (Go, `cmd/migrate`) moves a cluster from Red Hat Fusion Access to Fusion
Data Foundation. It runs in a pod of a Kubernetes Job, in seven phases, each of which tears down,
rewires or installs operators through the Kubernetes API, and keeps its position in a ConfigMap so
that a later pod resumes where an earlier one stopped. This directory holds TLA+ modules of it,
the TLC configurations that check them and TLAPS proofs.

## 1. Inventory

One process, one goroutine: the program itself has no internal concurrency. What makes it hard is
everything around it: it can be killed between any two API calls and is started again from the last
checkpoint; it may run beside a pod that was given up on a lost node; every API call may fail, or
take effect and lose its answer; and between any two of its calls OLM, the Fusion Access operator,
the Spectrum Scale operator, KMM, the garbage collector and the Job controller take steps of their
own on the objects it works on.

| Component (source) | State | Operations | What makes it correct |
|---|---|---|---|
| Job driver: `cmd/migrate`, `internal/state` | the `migration-progress.json` key of the state ConfigMap; in memory: the progress read, the secure-boot flag, the current phase | read checkpoint, run phases, write checkpoint, mark failed, mark completed, exit code | a phase runs only upon all earlier ones; the checkpoint never names a phase that is not done; the secure-boot flag survives restarts; a retried Job gets done; a dry run writes nothing |
| Preflight (phase 1): `internal/cluster/validation.go`, `fdf_version.go` | none, reads the cluster | version, namespace, CSV and health checks | refuses every cluster a later phase cannot handle |
| Preparation of the removal (phase 2): `internal/fusionaccess`, `internal/cluster/webhooks.go`, `internal/spectrumscale/metadata_cleanup.go`, `filesystem_claim.go` | CSV of Fusion Access, webhooks, LocalDisks, Filesystems, FilesystemClaims | scale down the operator, delete webhooks, strip ownerReferences, labels and finalizers, delete claims | the Filesystems outlive the claims that own them; nothing restores what was stripped; no webhook without a server blocks the way |
| Handover of the Scale operator (phases 3, 4): `internal/fusionaccess`, `internal/spectrumscaleoperator`, `internal/spectrumscale/ops.go`, `kmm_module.go` | Subscription and CSV of Fusion Access, Cluster CRs, Deployment of the old operator, selector of the old KMM Module, secrets, FDF Subscription, OperatorGroup, CSVs | delete Fusion Access, pause daemon updates, scale down, patch the selector, copy the secrets, reconcile the FDF Subscription, wait for the CSVs | no daemon is touched and no node loses its kernel module on the way; the secrets arrive; what is waited for is the new operator |
| KMM migration (phase 5): `internal/phases/migrate_kmm.go`, `internal/spectrumscale/kmm_*.go`, `internal/openshiftkmm` | KMM Modules, node counts, KMM Subscription, CSV and OperatorGroup, FA namespace | enable KMM in the Scale Cluster, wait for the daemon upgrade, delete the FA Module, move the KMM Subscription, delete the FA namespace | no node loses its kernel module; KMM is installed when the phase is done; the FA namespace is deleted last |
| FDF CatalogSource (in phase 2): `internal/cluster/catalogsource.go` | CatalogSource and its registry pod | create or update it, wait until it is ready | the image asked for is the one served |
| Finalisation (phase 6): `internal/phases/finalize_storage_configuration.go`, `internal/cluster/storageclass.go` | StorageClasses, health of the Filesystems | create `san-<fs>` and `san-<fs>-vm` for each Filesystem, wait until all Filesystems are healthy | the classes are those of the Filesystems, also when the phase is retried; the wait covers every Filesystem |
| Fusion operator (phase 7): `internal/cluster/fusion_operator.go` | CatalogSource, namespace, OperatorGroup, Subscription, CSV, OdfManager | create what is missing, wait for the CSV, create the OdfManager | what is accepted as being there leads to the operator asked for |
| Shared: `internal/helpers`, `internal/kube`, `internal/constants`, `internal/output` | none | polling, GVRs, client set-up, printing | a poll ends |

The components share no memory; phases communicate through the cluster and through two fields of
`kube.Context`: `SecureBootClusterForKMM` (written in phase 3, used in phase 5, carried over
restarts by the checkpoint) and `ResumingFromCheckpoint` (set by `main`; it makes phase 3 accept a
copied entitlement key, phase 6 a StorageClass that exists, and preflight FDF 4.21).

The hazards, each at its line and with the properties about it, are listed in `PROJECT.json`.

## 2. Modules

| Module | What it is | Composes |
|---|---|---|
| `PhaseLadder` | the abstract specification of the whole migration: a phase is begun when the one before is checkpointed, done when it was begun, checkpointed when it is done, and a checkpoint never goes back | |
| `DaemonHandover` | the abstract specification of phases 3 to 5 as the daemons see them: they leave the old Module one by one, only once the new operator has taken over and the updates are released, and the Module is retired when none is left | |
| `MigrationJob` | the driver, the ConfigMap and the Job controller; a phase is an opaque step | refines `PhaseLadder` (`Ladder == INSTANCE PhaseLadder WITH ...`) |
| `PrepareRemoval` | phase 2 with OLM, the Fusion Access operator and the garbage collector | |
| `ScaleHandover` | phases 3 and 4 with the old and the new Scale operator, OLM and an administrator | two phases and the checkpoint between them; refines `DaemonHandover` from its beginning |
| `MigrateKMM` | phase 5 with the upgrade of the nodes, KMM, OLM and the namespace controller | refines `DaemonHandover` from its middle |
| `MigrationPod` | the loop of `main` with one pod at a time and the checkpoint as a number; what the next five are written with | |
| `ScaleFilesystems` | the Filesystems and what their status tells: read by phases 1 and 6 | |
| `Preflight` | phase 1: nine checks in order, an administrator who changes the cluster between pods | `MigrationPod`, `ScaleFilesystems` |
| `FDFCatalog` | the first call of phase 2, with the registry pod | `MigrationPod` |
| `FinalizeStorage` | phase 6 | `MigrationPod`, `ScaleFilesystems` |
| `FusionOperator` | phase 7, with OLM and somebody else who makes a Subscription for it, a CatalogSource with it or without, or an OperatorGroup | `MigrationPod` |
| `Migration` | the whole walk over all seven phases | `Preflight`, `FDFCatalog`, `FinalizeStorage`, `FusionOperator`; refines `PhaseLadder` |
| `MigrationJobMC`, `PrepareRemovalMC`, `MigrationMC` | symmetry of the pods; a function from objects to claims; class names, statuses, installations and OperatorGroups | |
| `*Proofs` | theorems and their proofs, one module per component and one for each abstract specification | |

The driver is modelled twice. `MigrationJob` has all of it, down to the three calls of a save and
pods beside each other, and phases that are one step; `MigrationPod` has one pod at a time and one
step for a save, which `MigrationJob` justifies (`RunsNextPhase`, `ImplementsLadder`), and leaves
room for the calls of the phases. Both refine `PhaseLadder`.

`PrepareRemoval`, `ScaleHandover` and `MigrateKMM` look into phases 2 to 5 one at a time; in
`Migration` these phases are three steps each, of which `AfterPhase` gives what other phases see. The
rest of `Migration` is call by call. What connects the modules of phases 2 to 5 with the driver is
the step `Restart` (`Again` in `ScaleHandover`): `MigrationJob` shows that a pod that starts
runs the phase after the stored checkpoint, and each phase module has a pod enter its phase anew
from its first call, at any moment. The cluster a phase starts from is what the phases before it
leave behind: the Init of `ScaleHandover` is what preflight lets pass (`OnlySupported` of `Migration`)
and phase 2 leaves, and that of `MigrateKMM` has the old Module matching the storage nodes, as
`NodesKept` says.

`DaemonHandover` is where the modules of phases 3 to 5 meet. It is one specification in two halves:
`ScaleHandover` implements it from `Init`, `MigrateKMM` from `TakenOver` (daemons on the old Module,
their updates held, the new operator in charge). That the first half ends where the second begins is
`HandsOver`; so what an abstract handover promises to the daemons holds over the three phases. In
`ScaleHandover` the daemons of before are the storage nodes with the label of the old image, `matched`
are the nodes the old Module's selector fits, `held` says that every Cluster is paused and `taken` that
the new operator is installed and asked to run; the Module is `lost` if somebody deletes
`ibm-fusion-access`. In `MigrateKMM` a daemon is of before, and its node matched, until the
upgrade of the node is through draining (`stage`); `enabled` ends the hold, and `oldModule` tells
whether the Module is retired.

`PROJECT.json` maps every definition to its lines. In the phase modules `tool.pc`, or `pc`, names the
call the pod makes next; an action is one call that changes the cluster, or one that reads what a later
call uses. Where the code reads and then writes the same object in one go (a Get and an Update that
the API server refuses if the object has changed) this is one action. Whatever returns an error is
`Restart` (in `Migration` `PodFails`, followed by `StartPod`): the phase returns it, `main` marks the failure and exits with 1, and a later pod begins
the phase again; where the error is not a matter of chance (`Refused` in `ScaleHandover`, the ELSE
branches in `MigrateKMM`) it is an action of its own that may happen also when failures are over.

- **`MigrationJob`.** `pod[p]` is a process: `pc` from `boot` (environment) through `read`
  (`ReadMigrationProgress`), `ready` and `running` (the loop in `main`) to the three calls of a
  save (`get`, `create`, `update` of `WriteMigrationProgress`) and `exited`; `progress` is its copy
  of the checkpoint, `saving` says which of the three writers of `state.go` is at work, `fresh`
  whether the ConfigMap it read is still the stored one. `cm` is the ConfigMap, `job` the Job with
  its count of failures. An Update may be refused, fail, or take effect and lose its answer. `begun`
  and `done` record which phases were entered and returned nil, and are what the properties speak of.
- **`PrepareRemoval`.** `meta[o]` is what of ownerReference and label each LocalDisk or Filesystem
  carries; `claim[c]` is `held` by a finalizer, `free`, `deleting` (marked, and still held) or `gone`;
  `webhooks` the kinds whose writes are validated, which are deleted in order. `named` is FALSE
  when the CSV in the Subscription is not there, so that `ScaleDownFAOperatorCSV` has nothing to
  scale down, and `unseen` becomes TRUE when the error of a List passed for an empty list.
  `NextItem` and `VerifyItem` are the write and the poll of one part of one object.
- **`ScaleHandover`.** `fa` is what of Fusion Access' Subscription and installed CSV is left; `upgrade`
  says that OLM came upon an upgrade of it: then the Subscription may name another CSV than the
  installed one, which the deletion by that name leaves where it is (`LeftAfter`). `held` and
  `copied` are the secrets on both sides, `paused` and `grafana` the Clusters that were updated,
  `selector` that of the old KMM Module, `label` the image digest on each node; `wanted`/`oldRuns`
  and `scale`/`replicas`/`newRuns` tell what is asked of an operator from what runs; `fdfSub`,
  `current` and `fdf` are the Subscription, the CSV its status names and the CSV installed, which OLM
  moves one after the other; `current` is "pending" while an upgrade within 4.20 waits for its approval,
  whose CSV cannot be read (`CSVUnread`). `Refused` has one named part for each error that is not a
  matter of chance: `NoWebhook`, `NoDigest`, `NoModule`, `HalfAPair`, `NotEntitled`, `FDFUnread`.
- **`MigrateKMM`.** `stage[n]` is how far the upgrade of a node is; `versions`, `oldMatching`,
  `newMatching` and `newReady` are the reports the tool reads, each as of some earlier moment;
  `tool.want` is the number of nodes counted when the phase began. `sub` and `csv` are the
  namespaces with a Subscription for KMM and with the CSV of one that runs.
- **`Migration`.** `phase` and `pc` are where the pod is, `dry` and `resuming` the two modes it may be in,
  `checkpoint`, `begun` and `done` as in `MigrationJob`. Preflight reads `install`: which of the facts
  it asks for hold (`met`), the namespaces, the version behind every Subscription whose name begins
  with odf-operator, the signing secrets, and of each LocalDisk its state and those of its
  conditions that are True, in order. `index` is the CatalogSource of FDF: the image it names, the one
  served, and the status, which still is that of the old registry pod right after an update.
  `classes` are the StorageClasses of the tool and `taken` names of others; `todo` is what the pod has
  yet to see to, `listed` the Filesystems it found. Of phase 7, `sub` and `catalog` say who made the
  object, and a `catalog` that is "lacking" is somebody else's CatalogSource of that name without the
  operator or its channel, from which OLM resolves nothing (`Serving`); `groups` which OperatorGroups there are, `current` and `installed` tell the CSV that the
  Subscription names from the one that Succeeded. A pod that stops loses `todo`; one that starts is
  `resuming` when there is a checkpoint and it is not a dry run.

## 3. Runs

| Run | Question | Bounds, and why they are enough |
|---|---|---|
| `migration_job` | With one pod at a time, does every crash, failing phase, lost answer and re-created Job leave a migration that goes on where it was, gets done, and has its last checkpoint when the Job reports success? | the seven phases of the code; a backoff limit of 2, so that a Job fails with one, two or three failures and is re-created; the limit of 20 in the manifest adds only more of the same |
| `migration_job_overlap` | What holds of the checkpoint when a pod on a lost node goes on beside its successor? | three phases, so that a pod may be a whole phase or two behind; two pods, which are interchangeable (symmetry); backoff limit 0, the Job being re-created after each failure |
| `prepare_removal` | Does phase 2 keep every Filesystem and release every claim, those last, and never shut down what it still needs? | two claims, one with a LocalDisk and a Filesystem, one with a LocalDisk: two objects of one owner, two kinds, two objects of a kind |
| `scale_handover` | Do phases 3 and 4 leave the daemons alone, bring the secrets over and end with the new operator, as phase 5 takes for granted? Do they fail only for what others did, and wait only for what can come? | two Clusters (one may be paused and the other not), three nodes, of which two run a daemon, one perhaps without its label yet, and the third may have the label of another image |
| `migrate_kmm` | Does phase 5 keep kernel modules in use loaded, delete the namespace last, keep one KMM and wait only for a CSV that can come? | two nodes, one counted and one that may join at any time; KMM's Subscription in either namespace or in a third one |
| `migration` | Over the whole walk: is what preflight refuses untouched and what it lets pass supported, are the classes those of the Filesystems, is a complete migration one with the operator, which is waited for in vain only where somebody else is in the way, does a dry run only look, and does every supported cluster get through? | Filesystems `a` and `a-vm`, of which the second class of the one has the name of the first class of the other, that come to be and fall ill at any moment they are looked at; `san-a` is the name of somebody else's class; nine installations, each lacking at most one of what preflight asks for; two foreign OperatorGroups, one of another name and one of the same name that does not cover the namespace; a CatalogSource and a Subscription of somebody else for the Fusion operator, the CatalogSource with the operator or without; no CatalogSource of FDF, or one with another image |
| `job_fatal_read`, `job_unmarked`, `prepare_list_error`, `handover_no_key`, `kmm_subscription_lost`, `kmm_stale_count` | What a document or comment says, and the code does not do: see section 6 | the constants of the run above, or fewer |

Each module has one type invariant; that of `MigrationJob` is checked as a property, because the
counter of failures that it bounds is compared with the backoff limit, and those of the phases and of
`Migration` (`TypesKeep`) are proved. Deadlock is checked for the Job, where there is always a next step (a Job that is over may
be re-created), and not for the phases and for `Migration`, which end.

What `Migration` leaves out of the interleavings is without consequence for what is read: Filesystems
change only at the calls that look at them (and recover once all is calm), the registry pod moves only
while phase 2 lasts, and others come with objects of the Fusion operator only in phase 7, whose first call finds what
they may have done long before. The installation changes only between pods and before the first
checkpoint: what changes under a preflight that counts, or after it, is outside the model. A dry run
reaches phases 6 and 7 while FDF is still 4.20; after phase 4 its preflight refuses the cluster.

No state constraint is used, and no counter is cut off: retries inside a phase are loops back to the
same state, the failures of a Job are bounded by its limit, and the ConfigMap holds a phase number.

## 4. Fairness

- The pod takes its next step (`WF(ToolStep)`, `WF(PodStep(p))`): it is one goroutine, each of its
  polls has a deadline (`helpers.PollUntil`), and `deploy/migration-job.yaml` sets no
  `activeDeadlineSeconds`. A wait is the action that is enabled when its condition holds; that its
  deadline does not pass first is the assumption of the liveness properties, which speak of the time
  after failures have stopped (`calm`). While `calm` is FALSE `Restart` stands for a deadline too.
  `Migration` does without that assumption: `IndexDeadline`, `RecoveryDeadline` and `CSVWaitFails` are
  steps of the tool that may come before the condition they race with also when all is calm, as long
  as the condition does not hold; the next pod then waits again.
- The Job controller observes an exit and starts the next pod (weak fairness). A finished Job that has
  not completed is applied again, as README.md describes ("Run actual migration as a new Job
  execution"); only `MigrationGetsDone` needs that.
- In `Migration` the next pod starts once all is calm (`MigrationGetsDone` of `MigrationJob` is why it
  does), Filesystems that are there recover, and the registry pod and OLM get to their work.
- OLM, the operators, KMM and the namespace controller get to their work (weak fairness of each).
  `SecretAdded`, `FANamespaceRemoved`, `UpgradeFound`, `UpgradeInstalled`, `FDFUpgradeWaits`, `NodeJoins`,
  `RollOut`, `OperatorRestores`, `CollectGarbage` and every failure have none: they may happen or not.
- No strong fairness is used.

What the liveness properties presuppose is in their formulas: in phase 3 that the keys are there; in
phase 4 that `openshift-storage` has no OperatorGroup of another name and no upgrade within FDF 4.20
waits for its approval; in phase 5 that KMM runs or is
subscribed to in `openshift-kmm`; in `MigrationEnds` that there is a Filesystem, that preflight is behind
or lets the cluster pass, and `Unobstructed`: that in phase 7's namespace no Subscription is somebody
else's and the only OperatorGroup, if there is one, covers it, and that no CatalogSource of the name
`ibm-operator-catalog` lacks the operator. `FusionCanCome` presupposes `Unobstructed` too. Phase 7
accepts each of the three and waits in vain (fusion_operator.go:81-271). Without them the code has behaviours that never get done; they are
among the hazards in `PROJECT.json`.

What the modules assume of code outside this repository: the Scale operator changes a daemon only while
the updates of some Cluster are not paused, and gives a storage node that has no label the
digest of the image in use; a Subscription is resolved only in a namespace with one
OperatorGroup; the API server refuses an Update with an old resourceVersion; a namespace is deleted with
what is in it unless a finalizer holds that.

## 5. Proofs

The theorems hold for every value of the constants under the named assumptions. In each proof the
initial states satisfy an invariant, every action preserves it, and the properties follow. Every
invariant and action property of a passing run is stated by a theorem; so are the four refinements.
`OldModuleUnused` and `CleanedFirst` have theorems and no run of their own: a step that broke the one
would be no `Retire` of `DaemonHandover`, and the garbage collector would make of the other a
violation of `NothingCollected`.

The abstract specifications have theorems of their own, and what they promise is carried over to the
code by the refinement: a proof module takes an instance of the abstract proofs under its refinement
mapping (`Rungs`, `Daemons`), whose hypothesis is that the mapped specification holds.

- **`PhaseLadderProofs`**: for any number of phases, `PhasesOneByOne`: what is checkpointed was done, what
  is done was begun, and at most one phase, the one after the checkpoint, lies in between. `MigrationJob`
  (under `~AllowLoss`) and `Migration` each get `NeverBetweenTwoPhases` from it: no crash, retry or lost
  answer leaves a cluster in the middle of two phases.
- **`DaemonHandoverProofs`**: for any nodes, and from `Init` as well as from `TakenOver`: as long as the old
  Module is not lost it matches every daemon of before, and it is retired with none left
  (`DaemonsAreKept`); none leaves before the takeover and the release, and none comes back to a retired
  Module (`DaemonsLeaveLate`). `DaemonsAreSafe` says so of phases 3 and 4, and of phase 5, from the two
  theorems `HandoverImplemented`; the seam is `HandedOver`.

- **`MigrationJobProofs`** (`PhasesAssumption`, `JobAssumption`): any number of pods and phases, any limit.
  `Sound` is inductive with pods running beside each other or not. A property about `cm` alone is
  not: what a pod holds in memory is about to become the checkpoint, so `Sound` says of every
  working pod that the phases up to its own copy are done, of a saving pod which phase it saves, and of
  an exited one with code 0 that all phases are done. It gives `CheckpointIsSound`,
  `PhasesAreNotSkipped`, `SuccessIsDone`, `StatusIsConsistent`, `TypeCorrect`. `Exclusive` adds what
  holds when no pod is given up while it runs: the memory of the one real pod agrees with `cm`, and
  `done` is at most one phase ahead. It gives `FlagSurvivesRestarts`, `NextPhaseRuns` and
  `JobClimbsTheLadder`: each step of the Job is a step of `PhaseLadder` or changes nothing
  of `begun`, `done` and the checkpoint. These three are stated under `~AllowLoss`, and so is
  `SuccessLeavesTheCheckpoint`: `Recorded` follows the last checkpoint through the pod that exits with
  0 to the Job that reports it. The final mark plays no part; what matters is that a pod whose save
  fails does not exit with 0. `DryRunsReadOnly` needs `Sound` only: a dry run is never in a save, and
  whatever else writes asks for a real pod.
- **`PrepareRemovalProofs`** (`ResourcesAssumption`): any LocalDisks, Filesystems and claims. `Inv` says
  that the operator is gone once the tool strips (`Quiet`), and, when the lists were answered, how
  far the pod is with the objects (`Stripped`) and with the claims (`Released`), and that a claim that
  is gone is referred to by nothing (`Unowned`): `NothingIsCollected`, `PhaseReleases`,
  `ClaimsGoLast`, `NothingIsRestored`. `Open` has what the tool needs from what it shuts down, in
  whatever call the pod before stopped: `NothingStandsInTheWay`.
- **`ScaleHandoverProofs`** (`HandoverAssumption`): any Clusters and nodes. `Inv` has the order of phase 3
  (`HandedInv`: all Clusters are paused when the operator is scaled down, and the
  checkpoint stands between the phases), the chain of what must have happened before the new operator
  can run (`ChainInv`: that it runs only after phase 3 is the reason why nothing is rolled
  out), the digests (`DigestInv`), the secrets (`SecretsInv`: a signing key that was copied came from a
  pair that is still there), what phase 4 has seen to (`InstalledInv`), and that the webhook serves while
  a Cluster is to be paused and OLM keeps what it was given (`ServiceInv`): `NodesAreKept`,
  `NothingIsRolledOut`, `AccessIsRemoved`, `SecretsHaveArrived`, `HandedOver`, `NothingIsDead`,
  `HandoverImplemented`. `AccessIsRemoved` is about the Subscription, and about the installed CSV only if
  OLM has found no upgrade: `HandedInv` has that, without one, the CSV never outlives the
  Subscription that leads to it. For `HandoverImplemented`, `DigestInv` keeps the daemons covered when the selector changes,
  and the new operator takes over with every Cluster paused because it does so after phase 3.
- **`MigrateKMMProofs`** (`NodesAssumption`): any finite set of nodes. `Inv` relates the reports to the nodes
  (`ReportsInv`: late, but never ahead), the position in the phase to what was seen (`PositionInv`), the
  count to the nodes counted (`CountInv`; the upgrade follows from the cardinality of a finite set) and
  the two Subscriptions (`SubInv`), and where a KMM may run with where it is subscribed to (`CSVInv`):
  `OldModuleIsUnused`, `ModuleOutlives`, `NamespaceGoesLast`, `KMMIsKept`, `TheCSVCanCome`,
  `HandoverImplemented`.
- **`MigrationProofs`** (`InstallationsAssumption`, `GroupsAssumption`, `ReportsAssumption`,
  `InheritedAssumption`): any Filesystems, statuses, class names, installations and OperatorGroups. `IInv` has
  one part for each module. `FlowInv` ties the pod to the checkpoint, and says that a preflight of a
  real run only happens at checkpoint 0: `NoRefusalAfterChanges`, `MigrationClimbsTheLadder`. `InstallInv`
  carries what the checks behind the pod have found (`Judged`), because all nine are about one
  cluster only if nothing changes under them, to the first checkpoint and on to phase 4: `PreflightHolds`.
  `IndexInv` knows that an image is served when READY is seen: `IndexIsServed`. `StorageInv` says of every
  class that is no longer in `todo` that it is there or its name is another's (`Served`), which survives
  the pods that follow, since no class is ever deleted: `EveryFilesystemHasClasses`. `FusionInv` relates
  the CSV to those who made CatalogSource and Subscription (`Resolved`): `FusionIsThere`. `Provided` adds
  that each call of phase 7 leaves, or found, what OLM needs where nobody else is in the way
  (`Unobstructed`), and that nobody takes it away (`Piling`): `FusionIsNotAwaitedInVain`. `TypesKeep` and `DryRunsOnlyLook` follow from all of it.

Only model-checked: the liveness properties (`JobSettles`, `MigrationGetsDone`, `MigrationEnds`,
`PhaseGetsDone` of three modules), since TLAPS does not prove liveness under fairness. Their safety
half is proved where the code could come to a dead end: `NothingInTheWay`, `NoDeadEnd`,
`CSVCanCome` and `FusionCanCome` say that at each of these waits what is waited for is there or nothing
of the tool's own making keeps its maker from bringing it, and `NoDeadEnd` that no refusal is the tool's own doing. That the
maker brings it in the end is what TLC shows. The six runs that end in a violation are runs only.

## 6. Where documents and code disagree

Each is a run in which TLC finds a behaviour of the code that contradicts the quoted text.

- `job_fatal_read`: any error of the first read but NotFound exits with 42, also on a resumed
  migration, and the Job fails for good; README.md calls 42 the code of fatal validation failures.
- `job_unmarked`: the final mark may fail with a warning; the status stays `in_progress` for ever,
  since a later pod finds phase 7 done and exits at once.
- `prepare_list_error`: the error of a List passes for an empty list, and the FilesystemClaims are
  deleted while objects still name them as owners.
- `handover_no_key`: preflight does not look for `ibm-entitlement-key`; its absence is found when
  Fusion Access is already removed. (The key is also copied in phase 3 and not, as README.md says,
  immediately before the namespace is deleted.)
- `kmm_subscription_lost`: a pod killed between the deletion of the KMM Subscription and the
  creation of the new one: the next pod takes the missing one for an operator managed elsewhere.
- `kmm_stale_count`: a node that joined makes up for one whose daemon is down, and the wait that
  "confirms" the upgrade ends.

Not shown by a run: README.md:104 says `restartPolicy: OnFailure`, deploy/migration-job.yaml has `Never`,
which is what the model follows (`podFailurePolicy` needs it).

## 7. What is not modelled

- Data that no property tells apart: the values of names, labels and most versions (a version of FDF is
  one of four classes; that the comparison of prefixes takes 4.210 for 4.21 is left to a unit test),
  printing (the list of StorageClasses that phase 6 prints first among it), the choice of API versions
  (`gvr_helpers.go`) and RBAC.
- `internal/helpers`, `internal/kube`, `internal/constants`, `internal/output`: they keep no state. A poll
  is an action that waits for its condition; its deadline is the failure of the phase. The vendored libraries
  are what the tool's calls see of them.
- Several KMM Modules in one namespace, which the code answers with an error.
- What becomes of an installed CSV of Fusion Access that phase 3 leaves behind without its Subscription,
  because an upgrade waited for approval: `AccessRemoved` only says when that cannot be. In phase 2 such
  an upgrade is `named` being FALSE, for which the module has the steps and claims nothing. Upgrades of
  FDF 4.20 are looked at in phase 4 alone, the one that reads the CSV.
- Two Subscriptions for FDF: preflight judges each whose name begins with odf-operator, and phase 4, which
  knows one name, creates that beside another. What OLM makes of the two is not known from this repository.
- A cluster that changes under a preflight that counts, or after it, in what preflight looked at; a
  Filesystem that comes after phase 6 listed them is there in the model, waited for and without classes,
  and `ClassesMatch` does not speak of it.
- Whatever a dry run reads inside phases 2 to 5: it writes nothing there (each write of the code is behind
  `if mc.DryRun`), and it passes these phases in three steps in `Migration`.
- The inside of phases 2 to 5 in one state space with the others. `Migration` takes from them what `AfterPhase`
  states; that the end of phase 2 is a start of `ScaleHandover`, and the end of phase 4 one of `MigrateKMM`,
  is read off their Init and not proved. It would take the union of three modules with one set of
  Clusters, nodes and claims, whose state space is the product of theirs.
- Proofs of liveness, and of what is assumed of OLM, KMM and the operators.
