--------------------------- MODULE PrepareRemoval ---------------------------
(***************************************************************************)
(* Phase 2, phases/prepare_fusion_access_removal.go: the Fusion Access     *)
(* operator is scaled down, its webhooks are deleted, LocalDisks and       *)
(* Filesystems lose the ownerReferences and labels that tie them to their  *)
(* FilesystemClaims, and the claims lose their finalizers and are deleted. *)
(* An object that still refers to a deleted claim is garbage-collected:    *)
(* this is the phase that can lose a file system.                          *)
(*                                                                         *)
(* Around the tool: OLM acts on the zeroed CSV, the operator restores what *)
(* the tool strips while it still runs, the garbage collector follows the  *)
(* claims.  The pod may be killed, and every call may fail; the next pod   *)
(* enters the phase again.  The first call of the phase, for the FDF       *)
(* CatalogSource, touches none of this and is left out.                    *)
(***************************************************************************)
EXTENDS Sequences

CONSTANTS
    LocalDisks, Filesystems, Claims,
    Owner   \* the claim each LocalDisk and Filesystem was made for

Objects == LocalDisks \cup Filesystems

ASSUME ResourcesAssumption ==
    /\ Owner \in [Objects -> Claims]
    /\ LocalDisks \cap Filesystems = {}

VARIABLES
    named,      \* TRUE iff the CSV the Subscription names is in place: FALSE before an
                \* upgrade that waits for its approval
    unseen,     \* TRUE once an error of a List passed for an empty list
    tool,       \* where the pod is in the phase, and what it still has to do there
    csvZero,    \* the CSV asks for no replicas of the operator
    operator,   \* TRUE while a pod of the Fusion Access operator runs
    webhooks,   \* the kinds whose writes a webhook validates, in the order of their deletion
    present,    \* LocalDisks and Filesystems that were not garbage-collected
    meta,       \* what each of them carries
    claim,      \* state of each FilesystemClaim
    calm        \* TRUE once nothing outside the tool fails any more

vars == <<named, unseen, tool, csvZero, operator, webhooks, present, meta, claim, calm>>
cluster == <<named, csvZero, operator, webhooks, present, meta, claim>>

Parts == {"ref", "label"}
Kinds == {"localdisk", "filesystem"}
OfKind(kind) == IF kind = "localdisk" THEN LocalDisks ELSE Filesystems

Hooks == {<<>>, <<"claim">>, <<"filesystem", "claim">>, <<"localdisk", "filesystem", "claim">>}

Steps == {"scaledown", "wait", "webhooks", "list", "item", "verify",
          "claims_list", "finalizers", "delete_list", "delete", "done"}

\* todo: the parts still to strip; now: the one at hand; claims: the rest of a list of claims.
Tool == [pc : Steps, kind : Kinds, todo : SUBSET (Objects \X Parts),
         now : SUBSET (Objects \X Parts), failed : BOOLEAN, claims : SUBSET Claims]

TypeOK ==
    /\ named \in BOOLEAN /\ unseen \in BOOLEAN
    /\ tool \in Tool
    /\ csvZero \in BOOLEAN /\ operator \in BOOLEAN /\ calm \in BOOLEAN
    /\ webhooks \in Hooks
    /\ present \in SUBSET Objects
    /\ meta \in [Objects -> SUBSET Parts]
    /\ claim \in [Claims -> {"held", "free", "deleting", "gone"}]

At(pc, kind) == [pc |-> pc, kind |-> kind, todo |-> {}, now |-> {}, failed |-> FALSE,
                 claims |-> {}]

Start == At("scaledown", "localdisk")

Goto(pc) == tool' = [tool EXCEPT !.pc = pc]

Init ==
    /\ named \in BOOLEAN /\ unseen = FALSE
    /\ tool = Start
    /\ csvZero = FALSE /\ operator = TRUE /\ calm = FALSE
    /\ webhooks = <<"localdisk", "filesystem", "claim">>
    /\ present = Objects
    /\ meta \in [Objects -> SUBSET Parts]
    /\ claim = [c \in Claims |-> "held"]

-----------------------------------------------------------------------------
(* The surroundings *)

OLMScalesDown ==
    /\ csvZero /\ operator
    /\ operator' = FALSE
    /\ UNCHANGED <<named, unseen, tool, csvZero, webhooks, present, meta, claim, calm>>

\* The operator restores what belongs to an object of a claim that is in place.
OperatorRestores(o) ==
    /\ operator /\ ~calm
    /\ o \in present /\ claim[Owner[o]] \in {"held", "free"}
    /\ meta' = [meta EXCEPT ![o] = Parts]
    /\ claim' = [claim EXCEPT ![Owner[o]] = "held"]
    /\ UNCHANGED <<named, unseen, tool, csvZero, operator, webhooks, present, calm>>

\* Kubernetes deletes what refers to an owner that is gone.
CollectGarbage(o) ==
    /\ o \in present /\ "ref" \in meta[o] /\ claim[Owner[o]] = "gone"
    /\ present' = present \ {o}
    /\ UNCHANGED <<named, unseen, tool, csvZero, operator, webhooks, meta, claim, calm>>

\* The pod is killed, or a call fails and the phase returns the error: a later pod, of the
\* same Job or the next, enters the phase again.
Restart ==
    /\ ~calm /\ tool.pc # "done"
    /\ tool' = Start
    /\ UNCHANGED <<unseen, cluster, calm>>

Calm ==
    /\ ~calm /\ calm' = TRUE
    /\ UNCHANGED <<unseen, tool, cluster>>

-----------------------------------------------------------------------------
(* fusionaccess.ScaleDownFAOperatorCSV and cluster.RemoveValidatingWebhooks *)

\* Without the CSV there is nothing to scale down, and nothing to wait for.
ScaleDownFAOperatorCSV ==
    /\ tool.pc = "scaledown"
    /\ csvZero' = (csvZero \/ named)
    /\ Goto(IF named THEN "wait" ELSE "webhooks")
    /\ UNCHANGED <<named, unseen, operator, webhooks, present, meta, claim, calm>>

Mut_ScaledDown == csvZero  \* the replicas asked for, not those there are

ScaledDown == ~operator

waitForDeploymentsScaledDown ==
    /\ tool.pc = "wait" /\ ScaledDown
    /\ Goto("webhooks")
    /\ UNCHANGED <<unseen, cluster, calm>>

Mut_HooksToDelete == {"localdisk", "filesystem"}  \* the generated names are not matched

HooksToDelete == {"localdisk", "filesystem", "claim"}

RemoveValidatingWebhooks ==
    /\ tool.pc = "webhooks"
    /\ IF webhooks # <<>> /\ Head(webhooks) \in HooksToDelete
       THEN webhooks' = Tail(webhooks) /\ UNCHANGED tool
       ELSE Goto("list") /\ UNCHANGED webhooks
    /\ UNCHANGED <<named, unseen, csvZero, operator, present, meta, claim, calm>>

-----------------------------------------------------------------------------
(* spectrumscale.RemoveOwnerRefsAndLabels: processResources for the
   LocalDisks, then for the Filesystems. *)

AfterKind ==
    IF tool.kind = "localdisk" THEN At("list", "filesystem") ELSE At("claims_list", "localdisk")

ListResources ==
    /\ tool.pc = "list"
    /\ tool' = [tool EXCEPT !.pc = "item",
                 !.todo = {w \in (OfKind(tool.kind) \cap present) \X Parts : w[2] \in meta[w[1]]}]
    /\ UNCHANGED <<unseen, cluster, calm>>

\* An error of the List is taken for an empty one.
ListResourcesFails ==
    /\ tool.pc = "list" /\ ~calm
    /\ tool' = AfterKind
    /\ unseen' = TRUE
    /\ UNCHANGED <<cluster, calm>>

\* The references of an object come before its labels.
NextItem(w) ==
    /\ tool.pc = "item"
    /\ w \in tool.todo
    /\ w[2] = "label" => <<w[1], "ref">> \notin tool.todo
    /\ tool' = [tool EXCEPT !.pc = "verify", !.todo = @ \ {w}, !.now = {w}]
    /\ meta' = [meta EXCEPT ![w[1]] = @ \ {w[2]}]
    /\ UNCHANGED <<named, unseen, csvZero, operator, webhooks, present, claim, calm>>

\* Every attempt to change the object conflicts or fails: it is counted, and the loop goes on.
ItemFails(w) ==
    /\ tool.pc = "item" /\ ~calm
    /\ w \in tool.todo
    /\ w[2] = "label" => <<w[1], "ref">> \notin tool.todo
    /\ tool' = [tool EXCEPT !.todo = @ \ {w}, !.failed = TRUE]
    /\ UNCHANGED <<unseen, cluster, calm>>

\* The poll after the change: another controller may have put the part back, and then it
\* is taken off again, until the deadline.
VerifyItem(w) ==
    /\ tool.pc = "verify" /\ w \in tool.now
    /\ IF w[1] \notin present \/ w[2] \notin meta[w[1]]
       THEN tool' = [tool EXCEPT !.pc = "item", !.now = {}]
       ELSE \/ tool' = [tool EXCEPT !.pc = "item", !.now = {}, !.todo = @ \cup {w}]
            \/ ~calm /\ tool' = [tool EXCEPT !.pc = "item", !.now = {}, !.failed = TRUE]
    /\ UNCHANGED <<unseen, cluster, calm>>

Mut_AfterItems == AfterKind  \* failures are only printed

AfterItems == IF tool.failed THEN Start ELSE AfterKind

ItemsDone ==
    /\ tool.pc = "item" /\ tool.todo = {}
    /\ tool' = AfterItems
    /\ UNCHANGED <<unseen, cluster, calm>>

-----------------------------------------------------------------------------
(* RemoveFinalizersFromFilesystemClaims and DeleteFilesystemClaims *)

\* The webhook for claims is served by the operator: without it every write is refused.
Admitted == operator \/ webhooks = <<>>

ListClaims ==
    /\ tool.pc = "claims_list"
    /\ tool' = [tool EXCEPT !.pc = "finalizers",
                            !.claims = {c \in Claims : claim[c] \in {"held", "deleting"}}]
    /\ UNCHANGED <<unseen, cluster, calm>>

RemoveFinalizersFromFilesystemClaims ==
    /\ tool.pc = "finalizers"
    /\ \/ \E c \in tool.claims :
            /\ Admitted
            /\ claim' = [claim EXCEPT ![c] = IF @ = "held" THEN "free" ELSE "gone"]
            /\ tool' = [tool EXCEPT !.claims = @ \ {c}]
       \/ tool.claims = {} /\ Goto("delete_list") /\ UNCHANGED claim
    /\ UNCHANGED <<named, unseen, csvZero, operator, webhooks, present, meta, calm>>

ListClaimsToDelete ==
    /\ tool.pc = "delete_list"
    /\ tool' = [tool EXCEPT !.pc = "delete", !.claims = {c \in Claims : claim[c] # "gone"}]
    /\ UNCHANGED <<unseen, cluster, calm>>

\* A claim with a finalizer is only marked, and nobody waits for it to go.
DeleteFilesystemClaims ==
    /\ tool.pc = "delete"
    /\ \/ \E c \in tool.claims :
            /\ Admitted
            /\ claim' = [claim EXCEPT ![c] = CASE @ = "held" -> "deleting"
                                              [] @ = "free" -> "gone"
                                              [] OTHER -> @]
            /\ tool' = [tool EXCEPT !.claims = @ \ {c}]
       \/ tool.claims = {} /\ Goto("done") /\ UNCHANGED claim
    /\ UNCHANGED <<named, unseen, csvZero, operator, webhooks, present, meta, calm>>

-----------------------------------------------------------------------------

ToolStep ==
    \/ ScaleDownFAOperatorCSV \/ waitForDeploymentsScaledDown \/ RemoveValidatingWebhooks
    \/ ListResources \/ ListResourcesFails
    \/ \E w \in Objects \X Parts : NextItem(w) \/ ItemFails(w) \/ VerifyItem(w)
    \/ ItemsDone
    \/ ListClaims \/ RemoveFinalizersFromFilesystemClaims
    \/ ListClaimsToDelete \/ DeleteFilesystemClaims

Next ==
    \/ ToolStep \/ Restart \/ Calm \/ OLMScalesDown
    \/ \E o \in Objects : OperatorRestores(o) \/ CollectGarbage(o)

Spec == Init /\ [][Next]_vars

\* The polls of the tool have deadlines and OLM acts on the CSV in the end.
Fairness == WF_vars(ToolStep) /\ WF_vars(OLMScalesDown)

FairSpec == Spec /\ Fairness

-----------------------------------------------------------------------------
(* Properties *)

\* metadata_cleanup.go:294-420, filesystem_claim.go: the lists answered and the operator
\* found, no claim is ever deleted that a LocalDisk or a Filesystem still refers to,
\* whatever pods were killed on the way: nothing is collected.
NothingCollected == named /\ ~unseen => present = Objects

\* fusionaccess/ops.go:95-101: the operator is gone before the tool strips anything, so what was
\* stripped is never put back.
NothingRestored ==
    [][named /\ tool.pc \notin {"scaledown", "wait"} =>
          \A o \in Objects : meta'[o] \subseteq meta[o]]_vars

\* metadata_cleanup.go:390-393: when the phase returns nil every object was seen to, and
\* every claim is gone: none is held by a finalizer nobody is left to remove.
DoneMeansReleased ==
    named /\ ~unseen /\ tool.pc = "done" =>
        /\ \A o \in present : meta[o] = {}
        /\ \A c \in Claims : claim[c] = "gone"

\* webhooks.go:52-81, fusionaccess/ops.go:77-94: the tool has not shut down what it still
\* needs: the deployments it waits for are asked to go, and no write to a claim meets a
\* webhook whose server is gone.
NothingInTheWay ==
    /\ tool.pc = "wait" => csvZero
    /\ tool.pc \in {"finalizers", "delete"} => Admitted

\* Once failures stop, a phase that was left off anywhere gets done: no webhook without
\* its server stands in the way, and no controller the tool fights with.
PhaseGetsDone == calm ~> tool.pc = "done"

\* prepare_fusion_access_removal.go:12: the phase "cleans owner refs / labels / finalizers,
\* and deletes filesystem claims", in this order: a claim goes when nothing refers to it.
CleanedBeforeDeleted ==
    named => \A o \in Objects : claim[Owner[o]] = "gone" => "ref" \notin meta[o]

\* The same order, metadata_cleanup.go:294-420, as it does hold: with the lists answered.
CleanedFirst == ~unseen => CleanedBeforeDeleted
=============================================================================
