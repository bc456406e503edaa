----------------------------- MODULE MigrationMC -----------------------------
(* Two Filesystems whose StorageClasses have one name in common; clusters  *)
(* that lack at most one of the things preflight asks for.                 *)
EXTENDS Migration, TLC

MCFilesystems == {"a", "a-vm"}

MCReports == {
    [healthy |-> "absent", mounted |-> "absent", phase |-> "Ready"],
    [healthy |-> "False", mounted |-> "true", phase |-> "absent"]}

MCClassName ==
    <<"a", "general">> :> "san-a" @@ <<"a", "vm">> :> "san-a-vm" @@
    <<"a-vm", "general">> :> "san-a-vm" @@ <<"a-vm", "vm">> :> "san-a-vm-vm"

MCTakable == {{"san-a"}}

MCInherited == {"none", "other"}

MCGroups == {[name |-> "custom", covers |-> TRUE], [name |-> "isf-og", covers |-> FALSE]}

Disks(ready, conditions) == {[ready |-> ready, conditions |-> conditions]}

Fit == [met |-> Requirements, namespaces |-> Namespaces,
        odf |-> [s \in OdfSubs |-> IF s = "odf-operator" THEN "4.20" ELSE "none"],
        signing |-> SigningPair, disks |-> Disks(FALSE, <<"Ready", "Degraded">>)]

MCInstallations ==
    {Fit,
     [Fit EXCEPT !.odf["odf-operator"] = "none", !.signing = {}],
     [Fit EXCEPT !.odf["odf-operator"] = "4.21"],
     [Fit EXCEPT !.odf["odf-operator-custom"] = "4.21"],
     [Fit EXCEPT !.odf["odf-operator"] = "unresolved"],
     [Fit EXCEPT !.met = @ \ {"cluster_health"}],
     [Fit EXCEPT !.namespaces = @ \ {"ibm-fusion-access"}],
     [Fit EXCEPT !.disks = Disks(FALSE, <<"Degraded", "Ready">>)],
     [Fit EXCEPT !.signing = {"key"}]}
=============================================================================
