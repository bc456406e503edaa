----------------------------- MODULE Preflight -------------------------------
(***************************************************************************)
(* Phase 1, internal/phases/preflight.go: the checks of                    *)
(* internal/cluster/validation.go and fdf_version.go, in their order.  The *)
(* first that fails ends the pod with the code for "do not retry".         *)
(***************************************************************************)
EXTENDS MigrationPod, ScaleFilesystems, Sequences

CONSTANT Installations  \* the clusters the tool may be started on

VARIABLE install        \* what of the cluster preflight looks at

Requirements == {"connectivity", "ocp_version", "cluster_health", "scale_cluster"}
Namespaces == {"ibm-spectrum-scale", "ibm-spectrum-scale-operator", "ibm-fusion-access"}
SigningPair == {"key", "pub"}

\* Subscriptions in openshift-storage whose name begins with odf-operator.
OdfSubs == {"odf-operator", "odf-operator-custom"}
OdfVersions == {"none", "unresolved", "4.20", "4.21", "unsupported"}

\* A LocalDisk: phase or state Ready, and those of its conditions Ready, Failed and Degraded
\* that are True, in their order.
Disk == [ready : BOOLEAN, conditions : Seq({"Ready", "Failed", "Degraded"})]

Installation == [met : SUBSET Requirements, namespaces : SUBSET Namespaces,
                 odf : [OdfSubs -> OdfVersions], signing : SUBSET SigningPair,
                 disks : SUBSET Disk]

ASSUME InstallationsAssumption == Installations \subseteq Installation

PreflightInit == install \in Installations

-----------------------------------------------------------------------------

FdfOdfPreflightAllowed(version) ==
    version = "4.20" \/ (version = "4.21" /\ resuming)

Mut_ValidateExistingInstalls ==  \* a Subscription of another name is not looked at
    install.odf["odf-operator"] = "none" \/ FdfOdfPreflightAllowed(install.odf["odf-operator"])

ValidateExistingInstalls ==
    \A s \in OdfSubs : install.odf[s] = "none" \/ FdfOdfPreflightAllowed(install.odf[s])

\* The first condition that says anything decides.
localDiskReady(disk) ==
    \/ disk.ready
    \/ disk.conditions # <<>> /\ Head(disk.conditions) = "Ready"

ValidateLocalDisksReadyIfPresent == \A disk \in install.disks : localDiskReady(disk)

Checks == <<"connectivity", "ocp_version", "existing_installs", "namespaces",
            "cluster_health", "scale_cluster", "filesystems", "local_disks",
            "signing_secrets">>

Passes(check) ==
    CASE check \in Requirements -> check \in install.met
      [] check = "existing_installs" -> ValidateExistingInstalls
      [] check = "namespaces" -> install.namespaces = Namespaces
      [] check = "filesystems" -> AllHealthy
      [] check = "local_disks" -> ValidateLocalDisksReadyIfPresent
      [] check = "signing_secrets" -> install.signing \in {{}, SigningPair}

CheckPasses(i) ==
    /\ pc = Checks[i] /\ Passes(Checks[i])
    /\ IF i < Len(Checks) THEN Goto(Checks[i + 1]) ELSE ReturnNil
    /\ UNCHANGED install

\* ... also because of an error of the API.
CheckRefuses(i) ==
    /\ pc = Checks[i]
    /\ ~Passes(Checks[i]) \/ ~calm
    /\ Refuse
    /\ UNCHANGED install

\* Nobody changes the cluster under a running pod, or behind a preflight that counts.
AdministratorChanges ==
    /\ ~calm /\ Ended /\ checkpoint = 0
    /\ install' \in Installations
=============================================================================
