------------------------ MODULE PrepareRemovalProofs ------------------------
(***************************************************************************)
(* Theorems about PrepareRemoval, for any set of LocalDisks, Filesystems   *)
(* and claims: as long as the operator was found and the lists were        *)
(* answered, nothing is restored, nothing is garbage-collected and the     *)
(* phase leaves nothing behind.                                            *)
(***************************************************************************)
EXTENDS PrepareRemoval, TLAPS

Stripping == Steps \ {"scaledown", "wait"}
Early == {"scaledown", "wait", "webhooks"}
AtClaims == {"claims_list", "finalizers", "delete_list", "delete", "done"}

\* The operator is gone before anything is stripped, and it wants every claim held.
Quiet ==
    named => /\ tool.pc \in Stripping => ~operator
             /\ operator => \A c \in Claims : claim[c] = "held"

\* How far the pod has come with the objects.
Stripped ==
    /\ tool.kind = "filesystem" \/ tool.pc \in AtClaims =>
          \A o \in LocalDisks : meta[o] = {}
    /\ tool.pc \in AtClaims => \A o \in Filesystems : meta[o] = {}
    /\ tool.pc \in {"item", "verify"} /\ ~tool.failed =>
          \A o \in OfKind(tool.kind) : \A part \in meta[o] :
              <<o, part>> \in tool.todo \cup tool.now
    /\ tool.pc \in Early => tool.kind = "localdisk"
    /\ tool.pc \in Early \cup {"list", "item"} => tool.now = {}
    /\ tool.pc = "verify" => \E w \in Objects \X Parts : tool.now = {w}

\* How far it has come with the claims.
Released ==
    /\ tool.pc = "finalizers" =>
          \A c \in Claims \ tool.claims : claim[c] \in {"free", "gone"}
    /\ tool.pc = "delete_list" => \A c \in Claims : claim[c] \in {"free", "gone"}
    /\ tool.pc = "delete" => /\ \A c \in Claims : claim[c] \in {"free", "gone"}
                             /\ \A c \in Claims \ tool.claims : claim[c] = "gone"
    /\ tool.pc = "done" => \A c \in Claims : claim[c] = "gone"

Unowned == \A o \in Objects : claim[Owner[o]] = "gone" => "ref" \notin meta[o]

\* The operator found and the lists answered so far.
Trusted == named /\ ~unseen

Safe == present = Objects /\ Unowned /\ Stripped /\ Released

\* The wait has what it needs to end, and no webhook stands after its server.
Open ==
    /\ tool.pc = "wait" => csvZero
    /\ tool.pc \notin Early => webhooks = <<>>

Inv ==
    /\ TypeOK
    /\ Quiet
    /\ Open
    /\ Trusted => Safe

-----------------------------------------------------------------------------
(* What the updates of the pod's state come to *)

LEMMA AtFacts ==
    ASSUME NEW pc \in Steps, NEW kind \in Kinds
    PROVE  At(pc, kind) \in Tool /\ At(pc, kind).pc = pc /\ At(pc, kind).kind = kind
  BY DEF At, Tool

LEMMA StartFacts ==
    Start \in Tool /\ Start.pc = "scaledown" /\ Start.kind = "localdisk" /\ Start.now = {}
  BY AtFacts DEF Start, At, Steps, Kinds

LEMMA MoveFacts ==
    ASSUME tool \in Tool, NEW pc \in Steps, tool' = [tool EXCEPT !.pc = pc]
    PROVE  /\ tool' \in Tool
           /\ tool'.pc = pc
           /\ tool'.kind = tool.kind /\ tool'.todo = tool.todo /\ tool'.now = tool.now
           /\ tool'.failed = tool.failed /\ tool'.claims = tool.claims
  BY DEF Tool

LEMMA ClaimsFacts ==
    ASSUME tool \in Tool, NEW pc \in Steps, NEW cs \in SUBSET Claims,
           tool' = [tool EXCEPT !.pc = pc, !.claims = cs]
    PROVE  /\ tool' \in Tool
           /\ tool'.pc = pc /\ tool'.claims = cs /\ tool'.kind = tool.kind
<1>1. tool' = [pc |-> pc, kind |-> tool.kind, todo |-> tool.todo, now |-> tool.now,
               failed |-> tool.failed, claims |-> cs]
  BY DEF Tool
<1> QED
  BY <1>1 DEF Tool

LEMMA WorkFacts ==
    ASSUME tool \in Tool, NEW pc \in Steps, NEW todo \in SUBSET (Objects \X Parts),
           NEW now \in SUBSET (Objects \X Parts), NEW failed \in BOOLEAN,
           tool' = [tool EXCEPT !.pc = pc, !.todo = todo, !.now = now, !.failed = failed]
    PROVE  /\ tool' \in Tool
           /\ tool'.pc = pc /\ tool'.kind = tool.kind
           /\ tool'.todo = todo /\ tool'.now = now /\ tool'.failed = failed
<1>1. tool' = [pc |-> pc, kind |-> tool.kind, todo |-> todo, now |-> now,
               failed |-> failed, claims |-> tool.claims]
  BY DEF Tool
<1> QED
  BY <1>1 DEF Tool

LEMMA AfterKindFacts ==
    ASSUME tool \in Tool
    PROVE  /\ AfterKind \in Tool
           /\ AfterKind.pc \in {"list", "claims_list"}
           /\ AfterKind.pc = "list" => tool.kind = "localdisk" /\ AfterKind.kind = "filesystem"
           /\ AfterKind.pc = "claims_list" =>
                 tool.kind = "filesystem" /\ AfterKind.kind = "localdisk"
<1>1. tool.kind \in Kinds
  BY DEF Tool
<1>2. CASE tool.kind = "localdisk"
  BY <1>2, AtFacts DEF AfterKind, Steps, Kinds
<1>3. CASE tool.kind = "filesystem"
  BY <1>3, AtFacts DEF AfterKind, Steps, Kinds
<1> QED
  BY <1>1, <1>2, <1>3 DEF Kinds

\* One claim of the list, or the end of the list.
LEMMA ClaimStepFacts ==
    ASSUME TypeOK, NEW c \in Claims, tool' = [tool EXCEPT !.claims = @ \ {c}]
    PROVE  /\ tool' \in Tool
           /\ tool'.pc = tool.pc /\ tool'.claims = tool.claims \ {c}
           /\ tool'.kind = tool.kind
  BY DEF TypeOK, Tool

LEMMA RemoveFinalizersType ==
    ASSUME TypeOK, RemoveFinalizersFromFilesystemClaims
    PROVE  TypeOK'
<1>1. tool' \in Tool
  <2>1. ASSUME NEW c \in tool.claims, tool' = [tool EXCEPT !.claims = @ \ {c}]
        PROVE  tool' \in Tool
    BY <2>1, ClaimStepFacts DEF TypeOK, Tool
  <2>2. ASSUME Goto("delete_list")
        PROVE  tool' \in Tool
    BY <2>2, MoveFacts DEF Goto, Steps, TypeOK
  <2> QED
    BY <2>1, <2>2 DEF RemoveFinalizersFromFilesystemClaims
<1>2. claim' \in [Claims -> {"held", "free", "deleting", "gone"}]
  BY DEF RemoveFinalizersFromFilesystemClaims, TypeOK
<1> QED
  BY <1>1, <1>2 DEF RemoveFinalizersFromFilesystemClaims, TypeOK

LEMMA DeleteType ==
    ASSUME TypeOK, DeleteFilesystemClaims
    PROVE  TypeOK'
<1>1. tool' \in Tool
  <2>1. ASSUME NEW c \in tool.claims, tool' = [tool EXCEPT !.claims = @ \ {c}]
        PROVE  tool' \in Tool
    BY <2>1, ClaimStepFacts DEF TypeOK, Tool
  <2>2. ASSUME Goto("done")
        PROVE  tool' \in Tool
    BY <2>2, MoveFacts DEF Goto, Steps, TypeOK
  <2> QED
    BY <2>1, <2>2 DEF DeleteFilesystemClaims
<1>2. claim' \in [Claims -> {"held", "free", "deleting", "gone"}]
  BY DEF DeleteFilesystemClaims, TypeOK
<1> QED
  BY <1>1, <1>2 DEF DeleteFilesystemClaims, TypeOK

-----------------------------------------------------------------------------
(* Types *)

LEMMA TypeStep ==
    ASSUME TypeOK, [Next]_vars
    PROVE  TypeOK'
<1> USE DEF TypeOK
<1>1. CASE UNCHANGED vars
  BY <1>1 DEF vars
<1>2. CASE ScaleDownFAOperatorCSV
  <2>1. tool' \in Tool
    BY <1>2, MoveFacts DEF ScaleDownFAOperatorCSV, Goto, Steps
  <2> QED
    BY <1>2, <2>1 DEF ScaleDownFAOperatorCSV
<1>3. CASE waitForDeploymentsScaledDown
  <2>1. tool' \in Tool
    BY <1>3, MoveFacts DEF waitForDeploymentsScaledDown, Goto, Steps
  <2> QED
    BY <1>3, <2>1 DEF waitForDeploymentsScaledDown, cluster
<1>4. CASE RemoveValidatingWebhooks
  <2>1. tool' \in Tool
    BY <1>4, MoveFacts DEF RemoveValidatingWebhooks, Goto, Steps
  <2>2. webhooks' \in Hooks
    <3>1. \A h \in Hooks : h # <<>> => Tail(h) \in Hooks
      <4>1. /\ Tail(<<"claim">>) = <<>> /\ Tail(<<"filesystem", "claim">>) = <<"claim">>
            /\ Tail(<<"localdisk", "filesystem", "claim">>) = <<"filesystem", "claim">>
        OBVIOUS
      <4> QED
        BY <4>1 DEF Hooks
    <3> QED
      BY <1>4, <3>1 DEF RemoveValidatingWebhooks
  <2> QED
    BY <1>4, <2>1, <2>2 DEF RemoveValidatingWebhooks
<1>5. CASE ListResources
  <2> DEFINE todo == {w \in (OfKind(tool.kind) \cap present) \X Parts : w[2] \in meta[w[1]]}
  <2>1. todo \in SUBSET (Objects \X Parts)
    BY DEF OfKind, Objects
  <2>2. tool' \in Tool
    <3>1. tool' = [tool EXCEPT !.pc = "item", !.todo = todo, !.now = tool.now,
                               !.failed = tool.failed]
      BY <1>5 DEF ListResources, Tool
    <3> HIDE DEF todo
    <3> QED
      BY <2>1, <3>1, WorkFacts DEF Tool, Steps
  <2> QED
    BY <1>5, <2>2 DEF ListResources, cluster
<1>6. CASE ListResourcesFails
  BY <1>6, AfterKindFacts DEF ListResourcesFails, cluster
<1>7. ASSUME NEW w \in Objects \X Parts, NextItem(w)
      PROVE  TypeOK'
  <2>1. tool' \in Tool
    <3> DEFINE todo == tool.todo \ {w}
               now == {w}
    <3>1. tool' = [tool EXCEPT !.pc = "verify", !.todo = todo, !.now = now,
                               !.failed = tool.failed]
      BY <1>7 DEF NextItem, Tool
    <3>2. /\ todo \in SUBSET (Objects \X Parts) /\ now \in SUBSET (Objects \X Parts)
          /\ tool.failed \in BOOLEAN /\ "verify" \in Steps
      BY DEF Tool, Steps
    <3> HIDE DEF todo, now
    <3> QED
      BY <3>1, <3>2, WorkFacts
  <2>2. meta' \in [Objects -> SUBSET Parts]
    BY <1>7 DEF NextItem
  <2> QED
    BY <1>7, <2>1, <2>2 DEF NextItem
<1>8. ASSUME NEW w \in Objects \X Parts, ItemFails(w)
      PROVE  TypeOK'
  <2>1. tool' \in Tool
    <3> DEFINE todo == tool.todo \ {w}
    <3>1. tool' = [tool EXCEPT !.pc = "item", !.todo = todo, !.now = tool.now,
                               !.failed = TRUE]
      BY <1>8 DEF ItemFails, Tool
    <3>2. /\ todo \in SUBSET (Objects \X Parts)
          /\ tool.now \in SUBSET (Objects \X Parts) /\ "item" \in Steps
      BY DEF Tool, Steps
    <3> HIDE DEF todo
    <3> QED
      BY <3>1, <3>2, WorkFacts
  <2> QED
    BY <1>8, <2>1 DEF ItemFails, cluster
<1>9. ASSUME NEW w \in Objects \X Parts, VerifyItem(w)
      PROVE  TypeOK'
  <2>1. tool' \in Tool
    <3> DEFINE now == {}
    <3>1. PICK todo \in {tool.todo, tool.todo \cup {w}}, failed \in {tool.failed, TRUE} :
             tool' = [tool EXCEPT !.pc = "item", !.todo = todo, !.now = now, !.failed = failed]
      BY <1>9 DEF VerifyItem, Tool
    <3>2. /\ todo \in SUBSET (Objects \X Parts) /\ now \in SUBSET (Objects \X Parts)
          /\ failed \in BOOLEAN /\ "item" \in Steps
      BY DEF Tool, Steps
    <3> HIDE DEF now
    <3> QED
      BY <3>1, <3>2, WorkFacts
  <2> QED
    BY <1>9, <2>1 DEF VerifyItem, cluster
<1>10. CASE ItemsDone
  <2>1. Start \in Tool
    BY StartFacts
  <2> QED
    BY <1>10, <2>1, AfterKindFacts DEF ItemsDone, AfterItems, cluster
<1>11. CASE ListClaims
  <2> DEFINE cs == {c \in Claims : claim[c] \in {"held", "deleting"}}
  <2>1. cs \in SUBSET Claims /\ "finalizers" \in Steps
    BY DEF Steps
  <2>2. tool' = [tool EXCEPT !.pc = "finalizers", !.claims = cs]
    BY <1>11 DEF ListClaims
  <2> HIDE DEF cs
  <2>3. tool' \in Tool
    BY <2>1, <2>2, ClaimsFacts
  <2> QED
    BY <1>11, <2>3 DEF ListClaims, cluster
<1>12. CASE RemoveFinalizersFromFilesystemClaims
  BY <1>12, RemoveFinalizersType
<1>13. CASE ListClaimsToDelete
  <2> DEFINE cs == {c \in Claims : claim[c] # "gone"}
  <2>1. cs \in SUBSET Claims /\ "delete" \in Steps
    BY DEF Steps
  <2>2. tool' = [tool EXCEPT !.pc = "delete", !.claims = cs]
    BY <1>13 DEF ListClaimsToDelete
  <2> HIDE DEF cs
  <2>3. tool' \in Tool
    BY <2>1, <2>2, ClaimsFacts
  <2> QED
    BY <1>13, <2>3 DEF ListClaimsToDelete, cluster
<1>14. CASE DeleteFilesystemClaims
  BY <1>14, DeleteType
<1>15. CASE Restart
  <2>1. Start \in Tool
    BY StartFacts
  <2> QED
    BY <1>15, <2>1 DEF Restart, cluster
<1>16. CASE Calm
  BY <1>16 DEF Calm, cluster
<1>17. CASE OLMScalesDown
  BY <1>17 DEF OLMScalesDown
<1>18. ASSUME NEW o \in Objects, OperatorRestores(o)
       PROVE  TypeOK'
  BY <1>18, ResourcesAssumption DEF OperatorRestores
<1>19. ASSUME NEW o \in Objects, CollectGarbage(o)
       PROVE  TypeOK'
  BY <1>19 DEF CollectGarbage
<1> QED
  BY <1>1, <1>2, <1>3, <1>4, <1>5, <1>6, <1>7, <1>8, <1>9, <1>10, <1>11, <1>12, <1>13,
     <1>14, <1>15, <1>16, <1>17, <1>18, <1>19 DEF Next, ToolStep

LEMMA InitType ==
    ASSUME Init
    PROVE  TypeOK
<1>1. tool \in Tool
  BY StartFacts DEF Init
<1>2. claim \in [Claims -> {"held", "free", "deleting", "gone"}]
  BY DEF Init
<1>3. webhooks \in Hooks
  BY DEF Init, Hooks
<1> QED
  BY <1>1, <1>2, <1>3 DEF Init, TypeOK

\* Every reachable state has its type, with any objects and claims.
THEOREM TypeCorrect == Spec => []TypeOK
<1>1. Init => TypeOK
  BY InitType
<1>2. TypeOK /\ [Next]_vars => TypeOK'
  BY TypeStep
<1> QED
  BY <1>1, <1>2, PTL DEF Spec

-----------------------------------------------------------------------------
(* The invariant *)

LEMMA QuietStep ==
    ASSUME TypeOK, Quiet, [Next]_vars, named'
    PROVE  Quiet'
<1> USE DEF Quiet, TypeOK, Stripping, Steps
<1>0. named
  BY DEF Next, ToolStep, vars, cluster, ScaleDownFAOperatorCSV, waitForDeploymentsScaledDown,
         RemoveValidatingWebhooks, ListResources, ListResourcesFails, NextItem, ItemFails,
         VerifyItem, ItemsDone, ListClaims, RemoveFinalizersFromFilesystemClaims,
         ListClaimsToDelete, DeleteFilesystemClaims, Restart, Calm, OLMScalesDown,
         OperatorRestores, CollectGarbage
<1>1. CASE UNCHANGED vars
  BY <1>1 DEF vars
<1>2. CASE ScaleDownFAOperatorCSV
  BY <1>0, <1>2, MoveFacts DEF ScaleDownFAOperatorCSV, Goto
<1>3. CASE waitForDeploymentsScaledDown
  BY <1>3 DEF waitForDeploymentsScaledDown, ScaledDown, cluster
<1>4. ASSUME tool.pc \in Stripping, UNCHANGED operator
      PROVE  Quiet'
  BY <1>0, <1>4
<1>5. CASE RemoveValidatingWebhooks \/ ListResources \/ ListResourcesFails \/ ItemsDone
           \/ ListClaims \/ RemoveFinalizersFromFilesystemClaims \/ ListClaimsToDelete
           \/ DeleteFilesystemClaims
  BY <1>4, <1>5
     DEF RemoveValidatingWebhooks, ListResources, ListResourcesFails, ItemsDone, ListClaims,
         RemoveFinalizersFromFilesystemClaims, ListClaimsToDelete, DeleteFilesystemClaims,
         cluster
<1>6. CASE \E w \in Objects \X Parts : NextItem(w) \/ ItemFails(w) \/ VerifyItem(w)
  BY <1>4, <1>6 DEF NextItem, ItemFails, VerifyItem, cluster
<1>7. CASE Restart
  BY <1>7, StartFacts DEF Restart, cluster
<1>8. CASE Calm
  BY <1>8 DEF Calm, cluster
<1>9. CASE OLMScalesDown
  BY <1>9 DEF OLMScalesDown
<1>10. ASSUME NEW o \in Objects, OperatorRestores(o)
       PROVE  Quiet'
  BY <1>0, <1>10, ResourcesAssumption DEF OperatorRestores
<1>11. CASE \E o \in Objects : CollectGarbage(o)
  BY <1>11 DEF CollectGarbage
<1> QED
  BY <1>1, <1>2, <1>3, <1>5, <1>6, <1>7, <1>8, <1>9, <1>10, <1>11 DEF Next, ToolStep

LEMMA HooksGone ==
    ASSUME webhooks \in Hooks, ~(webhooks # <<>> /\ Head(webhooks) \in HooksToDelete)
    PROVE  webhooks = <<>>
BY DEF Hooks, HooksToDelete

LEMMA OpenStep ==
    ASSUME TypeOK, Open, [Next]_vars
    PROVE  Open'
<1>0. tool \in Tool /\ tool.pc \in Steps /\ webhooks \in Hooks
  BY DEF TypeOK, Tool
<1>1. CASE ScaleDownFAOperatorCSV
  <2>1. tool'.pc = (IF named THEN "wait" ELSE "webhooks") /\ (named => csvZero')
    BY <1>0, <1>1, MoveFacts DEF ScaleDownFAOperatorCSV, Goto, Steps
  <2> QED
    BY <2>1 DEF Open, Early
<1>2. CASE waitForDeploymentsScaledDown
  <2>1. tool'.pc = "webhooks"
    BY <1>0, <1>2, MoveFacts DEF waitForDeploymentsScaledDown, Goto, Steps
  <2> QED
    BY <2>1 DEF Open, Early
<1>3. CASE RemoveValidatingWebhooks
  <2>1. CASE webhooks # <<>> /\ Head(webhooks) \in HooksToDelete
    <3>1. tool'.pc = "webhooks"
      BY <1>3, <2>1 DEF RemoveValidatingWebhooks
    <3> QED
      BY <3>1 DEF Open, Early
  <2>2. CASE ~(webhooks # <<>> /\ Head(webhooks) \in HooksToDelete)
    <3>1. tool'.pc = "list" /\ webhooks' = webhooks
      BY <1>0, <1>3, <2>2, MoveFacts DEF RemoveValidatingWebhooks, Goto, Steps
    <3> QED
      BY <1>0, <2>2, <3>1, HooksGone DEF Open
  <2> QED
    BY <2>1, <2>2
<1>4. ASSUME tool.pc \notin Early, tool'.pc # "wait", UNCHANGED webhooks PROVE Open'
  BY <1>4 DEF Open
<1>5. CASE ListResources \/ ListResourcesFails \/ ItemsDone
  <2>1. tool'.pc # "wait"
    BY <1>0, <1>5, StartFacts, AfterKindFacts DEF ListResources, ListResourcesFails, ItemsDone,
       AfterItems, Tool
  <2> QED
    BY <1>4, <1>5, <2>1 DEF ListResources, ListResourcesFails, ItemsDone, cluster, Early
<1>6. ASSUME NEW w \in Objects \X Parts, NextItem(w) \/ ItemFails(w) \/ VerifyItem(w) PROVE Open'
  <2>1. tool'.pc # "wait"
    BY <1>0, <1>6 DEF NextItem, ItemFails, VerifyItem, Tool
  <2> QED
    BY <1>4, <1>6, <2>1 DEF NextItem, ItemFails, VerifyItem, cluster, Early
<1>7. CASE ListClaims \/ RemoveFinalizersFromFilesystemClaims \/ ListClaimsToDelete
           \/ DeleteFilesystemClaims
  <2>1. tool'.pc # "wait"
    BY <1>0, <1>7, MoveFacts DEF ListClaims, RemoveFinalizersFromFilesystemClaims,
       ListClaimsToDelete, DeleteFilesystemClaims, Goto, Steps, Tool
  <2> QED
    BY <1>4, <1>7, <2>1 DEF ListClaims, RemoveFinalizersFromFilesystemClaims,
       ListClaimsToDelete, DeleteFilesystemClaims, cluster, Early
<1>8. CASE Restart
  BY <1>8, StartFacts DEF Restart, Open, Early
<1>9. CASE \/ Calm \/ OLMScalesDown \/ UNCHANGED vars
           \/ \E o \in Objects : OperatorRestores(o) \/ CollectGarbage(o)
  BY <1>9 DEF Calm, OLMScalesDown, OperatorRestores, CollectGarbage, cluster, vars, Open
<1> QED
  BY <1>1, <1>2, <1>3, <1>5, <1>6, <1>7, <1>8, <1>9 DEF Next, ToolStep

LEMMA TrustedBefore ==
    ASSUME [Next]_vars, Trusted', TypeOK
    PROVE  Trusted /\ ~ListResourcesFails
  BY DEF Trusted, TypeOK, Next, ToolStep, vars, cluster, ScaleDownFAOperatorCSV,
         waitForDeploymentsScaledDown, RemoveValidatingWebhooks, ListResources,
         ListResourcesFails, NextItem, ItemFails, VerifyItem, ItemsDone, ListClaims,
         RemoveFinalizersFromFilesystemClaims, ListClaimsToDelete, DeleteFilesystemClaims,
         Restart, Calm, OLMScalesDown, OperatorRestores, CollectGarbage

\* Steps that leave objects and claims alone and bring the pod nowhere it must have earned.
LEMMA SafeFrame ==
    ASSUME Safe, UNCHANGED <<present, meta, claim>>, tool'.pc \in Steps,
           tool'.kind = "localdisk", tool'.now = {},
           tool'.pc \notin AtClaims \cup {"item", "verify"}
    PROVE  Safe'
  BY DEF Safe, Unowned, Stripped, Released, AtClaims, Early, Steps

LEMMA SafeStep ==
    ASSUME Inv, [Next]_vars, Trusted'
    PROVE  Safe'
<1>1. TypeOK /\ Quiet /\ Trusted /\ Safe /\ ~ListResourcesFails
  BY TrustedBefore DEF Inv
<1>2. tool.pc \in Stripping => ~operator
  BY <1>1 DEF Quiet, Trusted
<1>3. tool \in Tool /\ tool.pc \in Steps /\ tool.kind \in Kinds
  BY <1>1 DEF TypeOK, Tool
<1>4. CASE UNCHANGED vars
  BY <1>1, <1>4 DEF vars, Safe, Unowned, Stripped, Released
<1>5. CASE ScaleDownFAOperatorCSV
  <2>1. tool'.pc \in {"wait", "webhooks"} /\ tool'.kind = tool.kind
        /\ tool'.now = tool.now
    BY <1>3, <1>5, MoveFacts DEF ScaleDownFAOperatorCSV, Goto, Steps
  <2> QED
    BY <1>1, <1>5, <2>1 DEF ScaleDownFAOperatorCSV, Safe, Unowned, Stripped, Released, AtClaims, Early
<1>6. CASE waitForDeploymentsScaledDown
  <2>1. tool'.pc = "webhooks" /\ tool'.kind = tool.kind
        /\ tool'.now = tool.now
    BY <1>3, <1>6, MoveFacts DEF waitForDeploymentsScaledDown, Goto, Steps
  <2> QED
    BY <1>1, <1>6, <2>1
       DEF waitForDeploymentsScaledDown, cluster, Safe, Unowned, Stripped, Released, AtClaims, Early
<1>7. CASE RemoveValidatingWebhooks
  <2>1. tool'.pc \in {"webhooks", "list"} /\ tool'.kind = tool.kind
        /\ tool'.now = tool.now
    BY <1>3, <1>7, MoveFacts DEF RemoveValidatingWebhooks, Goto, Steps
  <2> QED
    BY <1>1, <1>7, <2>1
       DEF RemoveValidatingWebhooks, Safe, Unowned, Stripped, Released, AtClaims, Early
<1>8. CASE ListResources
  <2> DEFINE todo == {w \in (OfKind(tool.kind) \cap present) \X Parts : w[2] \in meta[w[1]]}
  <2>1. /\ todo \in SUBSET (Objects \X Parts)
        /\ \A o \in OfKind(tool.kind) : \A part \in meta[o] : <<o, part>> \in todo
    BY <1>1 DEF OfKind, Objects, Safe, TypeOK
  <2>2. tool' = [tool EXCEPT !.pc = "item", !.todo = todo]
    BY <1>8 DEF ListResources
  <2>3. /\ tool'.pc = "item" /\ tool'.kind = tool.kind /\ tool'.todo = todo
        /\ tool'.now = tool.now
    BY <1>3, <2>2 DEF Tool
  <2>4. tool.now = {}
    BY <1>1, <1>8 DEF ListResources, Safe, Stripped, Early
  <2> HIDE DEF todo
  <2> QED
    BY <1>1, <1>8, <2>1, <2>3, <2>4
       DEF ListResources, cluster, Safe, Unowned, Stripped, Released, AtClaims, Early
<1>9. ASSUME NEW w \in Objects \X Parts, NextItem(w)
      PROVE  Safe'
  <2>1. /\ tool'.pc = "verify" /\ tool'.kind = tool.kind /\ tool'.todo = tool.todo \ {w}
        /\ tool'.now = {w} /\ tool'.failed = tool.failed
    BY <1>3, <1>9 DEF NextItem, Tool
  <2>2. \A o \in Objects : meta'[o] \subseteq meta[o]
    BY <1>1, <1>9 DEF NextItem, TypeOK
  <2>3. OfKind(tool.kind) \subseteq Objects
    BY DEF OfKind, Objects
  <2>4. Stripped'
    BY <1>1, <1>9, <2>1, <2>2, <2>3
       DEF NextItem, Safe, Stripped, AtClaims, Early, Objects, OfKind
  <2> QED
    BY <1>1, <1>9, <2>1, <2>2, <2>4 DEF NextItem, Safe, Unowned, Released
<1>10. ASSUME NEW w \in Objects \X Parts, ItemFails(w)
       PROVE  Safe'
  <2>1. /\ tool'.pc = "item" /\ tool'.kind = tool.kind /\ tool'.failed = TRUE
        /\ tool'.now = tool.now
    BY <1>3, <1>10 DEF ItemFails, Tool
  <2> QED
    BY <1>1, <1>10, <2>1
       DEF ItemFails, cluster, Safe, Unowned, Stripped, Released, AtClaims, Early
<1>11. ASSUME NEW w \in Objects \X Parts, VerifyItem(w)
       PROVE  Safe'
  <2>1. tool.now = {w} /\ w[1] \in present
    BY <1>1, <1>11 DEF VerifyItem, Safe, Stripped
  <2> DEFINE Listed ==
        \/ tool'.failed = TRUE
        \/ tool'.failed = tool.failed /\ (w[2] \in meta[w[1]] => w \in tool'.todo)
  <2> DEFINE Outcome ==
        /\ tool'.pc = "item" /\ tool'.kind = tool.kind /\ tool'.now = {}
        /\ tool.todo \subseteq tool'.todo
        /\ Listed
  <2>2. Outcome
    <3>1. CASE w[2] \notin meta[w[1]] /\ tool' = [tool EXCEPT !.pc = "item", !.now = {}]
      BY <1>3, <3>1 DEF Tool
    <3>2. CASE tool' = [tool EXCEPT !.pc = "item", !.now = {}, !.todo = @ \cup {w}]
      BY <1>3, <3>2 DEF Tool
    <3>3. CASE tool' = [tool EXCEPT !.pc = "item", !.now = {}, !.failed = TRUE]
      <4>1. tool' = [pc |-> "item", kind |-> tool.kind, todo |-> tool.todo, now |-> {},
                     failed |-> TRUE, claims |-> tool.claims]
        BY <1>3, <3>3 DEF Tool
      <4>2. /\ tool'.pc = "item" /\ tool'.kind = tool.kind /\ tool'.now = {}
            /\ tool.todo \subseteq tool'.todo
        BY <4>1
      <4>3. tool'.failed = TRUE
        BY <4>1
      <4>4. Listed
        BY <4>3
      <4> HIDE DEF Listed
      <4> QED
        BY <4>2, <4>4
    <3> HIDE DEF Outcome
    <3> QED
      BY <1>11, <2>1, <3>1, <3>2, <3>3 DEF VerifyItem
  <2>4. ASSUME ~tool'.failed, NEW o \in OfKind(tool.kind), NEW part \in meta[o]
        PROVE  <<o, part>> \in tool'.todo
    <3>1. ~tool.failed /\ (w[2] \in meta[w[1]] => w \in tool'.todo)
      BY <2>2, <2>4
    <3>2. <<o, part>> \in tool.todo \/ <<o, part>> = w
      BY <1>1, <1>11, <2>1, <3>1 DEF VerifyItem, Safe, Stripped
    <3> QED
      BY <2>2, <3>1, <3>2
  <2> QED
    BY <1>1, <1>11, <2>1, <2>2, <2>4
       DEF VerifyItem, cluster, Safe, Unowned, Stripped, Released, AtClaims, Early
<1>12. CASE ItemsDone
  <2>1. CASE tool.failed
    BY <1>1, <1>12, <2>1, StartFacts, SafeFrame DEF ItemsDone, AfterItems, cluster, Steps, AtClaims
  <2>2. CASE ~tool.failed
    <3>1. tool' = AfterKind
      BY <1>12, <2>2 DEF ItemsDone, AfterItems
    <3>2. \A o \in OfKind(tool.kind) : meta[o] = {}
      BY <1>1, <1>12, <2>2 DEF ItemsDone, Safe, Stripped
    <3>3. tool'.now = {}
      BY <3>1 DEF AfterKind, At
    <3> QED
      BY <1>1, <1>3, <1>12, <3>1, <3>2, <3>3, AfterKindFacts
         DEF ItemsDone, cluster, Safe, Unowned, Stripped, Released, AtClaims, Early, OfKind
  <2> QED
    BY <2>1, <2>2
<1>13. CASE ListClaims
  <2> DEFINE cs == {c \in Claims : claim[c] \in {"held", "deleting"}}
  <2>1. /\ cs \in SUBSET Claims /\ "finalizers" \in Steps
        /\ \A c \in Claims \ cs : claim[c] \in {"free", "gone"}
    BY <1>1 DEF Steps, TypeOK
  <2>2. tool' = [tool EXCEPT !.pc = "finalizers", !.claims = cs]
    BY <1>13 DEF ListClaims
  <2> HIDE DEF cs
  <2>3. tool'.pc = "finalizers" /\ tool'.claims = cs /\ tool'.kind = tool.kind
    BY <1>3, <2>1, <2>2, ClaimsFacts
  <2> QED
    BY <1>1, <1>13, <2>1, <2>3
       DEF ListClaims, cluster, Safe, Unowned, Stripped, Released, AtClaims, Early
<1>14. CASE RemoveFinalizersFromFilesystemClaims
  <2>1. tool.pc = "finalizers"
    BY <1>14 DEF RemoveFinalizersFromFilesystemClaims
  <2>2. \A o \in Objects : meta[o] = {}
    BY <1>1, <2>1 DEF Safe, Stripped, AtClaims, Early, Objects
  <2>3. ASSUME NEW c \in tool.claims, tool' = [tool EXCEPT !.claims = @ \ {c}],
               claim' = [claim EXCEPT ![c] = IF @ = "held" THEN "free" ELSE "gone"]
        PROVE  Safe'
    <3>1. c \in Claims /\ claim \in [Claims -> {"held", "free", "deleting", "gone"}]
      BY <1>1, <1>3 DEF Tool, TypeOK
    <3>2. tool'.pc = "finalizers" /\ tool'.claims = tool.claims \ {c} /\ tool'.kind = tool.kind
      BY <1>1, <2>1, <2>3, <3>1, ClaimStepFacts
    <3>3. Released'
      BY <1>1, <2>1, <2>3, <3>1, <3>2 DEF Safe, Released
    <3> QED
      BY <1>1, <1>14, <2>1, <2>2, <3>2, <3>3
         DEF RemoveFinalizersFromFilesystemClaims, Safe, Unowned, Stripped, AtClaims, Early
  <2>4. ASSUME tool.claims = {}, Goto("delete_list"), UNCHANGED claim
        PROVE  Safe'
    <3>1. tool'.pc = "delete_list" /\ tool'.kind = tool.kind
      BY <1>3, <2>4, MoveFacts DEF Goto, Steps
    <3> QED
      BY <1>1, <1>14, <2>1, <2>4, <3>1
         DEF RemoveFinalizersFromFilesystemClaims, Safe, Unowned, Stripped, Released, AtClaims, Early
  <2> QED
    BY <1>14, <2>3, <2>4 DEF RemoveFinalizersFromFilesystemClaims
<1>15. CASE ListClaimsToDelete
  <2> DEFINE cs == {c \in Claims : claim[c] # "gone"}
  <2>1. /\ cs \in SUBSET Claims /\ "delete" \in Steps
        /\ \A c \in Claims \ cs : claim[c] = "gone"
    BY DEF Steps
  <2>2. tool' = [tool EXCEPT !.pc = "delete", !.claims = cs]
    BY <1>15 DEF ListClaimsToDelete
  <2> HIDE DEF cs
  <2>3. tool'.pc = "delete" /\ tool'.claims = cs /\ tool'.kind = tool.kind
    BY <1>3, <2>1, <2>2, ClaimsFacts
  <2> QED
    BY <1>1, <1>15, <2>1, <2>3
       DEF ListClaimsToDelete, cluster, Safe, Unowned, Stripped, Released, AtClaims, Early
<1>16. CASE DeleteFilesystemClaims
  <2>1. tool.pc = "delete"
    BY <1>16 DEF DeleteFilesystemClaims
  <2>2. \A o \in Objects : meta[o] = {}
    BY <1>1, <2>1 DEF Safe, Stripped, AtClaims, Early, Objects
  <2>3. ASSUME NEW c \in tool.claims, tool' = [tool EXCEPT !.claims = @ \ {c}],
               claim' = [claim EXCEPT ![c] = CASE @ = "held" -> "deleting"
                                               [] @ = "free" -> "gone"
                                               [] OTHER -> @]
        PROVE  Safe'
    <3>1. c \in Claims /\ claim[c] \in {"free", "gone"}
      BY <1>1, <1>3, <2>1 DEF Tool, Safe, Released
    <3>2. claim' = [claim EXCEPT ![c] = "gone"]
      BY <1>1, <2>3, <3>1 DEF TypeOK
    <3>3. tool'.pc = "delete" /\ tool'.claims = tool.claims \ {c} /\ tool'.kind = tool.kind
      BY <1>1, <2>1, <2>3, <3>1, ClaimStepFacts
    <3>4. Released'
      BY <1>1, <2>1, <3>1, <3>2, <3>3 DEF Safe, Released, TypeOK
    <3> QED
      BY <1>1, <1>16, <2>1, <2>2, <3>3, <3>4
         DEF DeleteFilesystemClaims, Safe, Unowned, Stripped, AtClaims, Early
  <2>4. ASSUME tool.claims = {}, Goto("done"), UNCHANGED claim
        PROVE  Safe'
    <3>1. tool'.pc = "done" /\ tool'.kind = tool.kind
      BY <1>3, <2>4, MoveFacts DEF Goto, Steps
    <3> QED
      BY <1>1, <1>16, <2>1, <2>4, <3>1
         DEF DeleteFilesystemClaims, Safe, Unowned, Stripped, Released, AtClaims, Early
  <2> QED
    BY <1>16, <2>3, <2>4 DEF DeleteFilesystemClaims
<1>17. CASE Restart
  BY <1>1, <1>17, StartFacts, SafeFrame DEF Restart, cluster, Steps, AtClaims
<1>18. CASE Calm \/ OLMScalesDown
  BY <1>1, <1>18 DEF Calm, OLMScalesDown, cluster, Safe, Unowned, Stripped, Released
<1>19. ASSUME NEW o \in Objects, OperatorRestores(o)
       PROVE  Safe'
  <2>1. tool.pc \in {"scaledown", "wait"} /\ \A c \in Claims : claim[c] = "held"
    BY <1>1, <1>2, <1>3, <1>19 DEF OperatorRestores, Stripping, Quiet, Trusted
  <2>2. claim' = claim
    BY <1>1, <1>19, <2>1, ResourcesAssumption DEF OperatorRestores, TypeOK
  <2>3. tool.kind = "localdisk"
    BY <1>1, <2>1 DEF Safe, Stripped, Early
  <2> QED
    BY <1>1, <1>19, <2>1, <2>2, <2>3
       DEF OperatorRestores, Safe, Unowned, Stripped, Released, AtClaims, Early
<1>20. ASSUME NEW o \in Objects, CollectGarbage(o)
       PROVE  Safe'
  BY <1>1, <1>20 DEF CollectGarbage, Safe, Unowned
<1> QED
  BY <1>1, <1>4, <1>5, <1>6, <1>7, <1>8, <1>9, <1>10, <1>11, <1>12, <1>13, <1>14, <1>15,
     <1>16, <1>17, <1>18, <1>19, <1>20 DEF Next, ToolStep

\* The inductive invariant.
THEOREM Invariant == Spec => []Inv
<1>1. Init => Inv
  <2> SUFFICES ASSUME Init PROVE Inv
    OBVIOUS
  <2>1. TypeOK
    BY InitType
  <2>2. tool.pc = "scaledown" /\ tool.kind = "localdisk" /\ tool.now = {}
    BY StartFacts DEF Init
  <2>3. Quiet
    BY <2>2 DEF Init, Quiet, Stripping
  <2>4. Safe
    BY <2>2, ResourcesAssumption
       DEF Init, Safe, Unowned, Stripped, Released, AtClaims, Early
  <2>5. Open
    BY <2>2 DEF Open, Early
  <2> QED
    BY <2>1, <2>3, <2>4, <2>5 DEF Inv
<1>2. Inv /\ [Next]_vars => Inv'
  <2> SUFFICES ASSUME Inv, [Next]_vars PROVE Inv'
    OBVIOUS
  <2>1. TypeOK'
    BY TypeStep DEF Inv
  <2>2. Quiet'
    BY QuietStep DEF Inv, Quiet
  <2>3. Trusted' => Safe'
    BY SafeStep
  <2>4. Open'
    BY OpenStep DEF Inv
  <2> QED
    BY <2>1, <2>2, <2>3, <2>4 DEF Inv
<1> QED
  BY <1>1, <1>2, PTL DEF Spec

\* With the operator found and the lists answered, no LocalDisk and no Filesystem is ever
\* garbage-collected.
THEOREM NothingIsCollected == Spec => []NothingCollected
<1>1. Inv => NothingCollected
  BY DEF Inv, Trusted, Safe, NothingCollected
<1> QED
  BY <1>1, Invariant, PTL

\* ... and when the phase is done, nothing is left that refers to a claim, and no claim.
THEOREM PhaseReleases == Spec => []DoneMeansReleased
<1>1. Inv => DoneMeansReleased
  BY DEF Inv, Trusted, Safe, Stripped, Released, AtClaims, Objects, DoneMeansReleased, TypeOK
<1> QED
  BY <1>1, Invariant, PTL

\* The wait for the operator can end, and every write to a claim is admitted, however often
\* the phase was entered and left (webhooks.go:52-81).
THEOREM NothingStandsInTheWay == Spec => []NothingInTheWay
<1>1. Inv => NothingInTheWay
  BY DEF Inv, Open, Early, Admitted, NothingInTheWay
<1> QED
  BY <1>1, Invariant, PTL

\* With the lists answered a claim is gone only when nothing refers to it any more
\* (metadata_cleanup.go:294-420).
THEOREM ClaimsGoLast == Spec => []CleanedFirst
<1>1. Inv => CleanedFirst
  BY DEF Inv, Trusted, Safe, Unowned, CleanedFirst, CleanedBeforeDeleted
<1> QED
  BY <1>1, Invariant, PTL

\* With the operator found, nothing that the phase strips is ever put back.
THEOREM NothingIsRestored == Spec => NothingRestored
<1> DEFINE Shrinks == \A o \in Objects : meta'[o] \subseteq meta[o]
           Kept == named /\ tool.pc \notin {"scaledown", "wait"} => Shrinks
<1>1. Inv /\ [Next]_vars => Kept
  <2> SUFFICES ASSUME Inv, [Next]_vars, named, tool.pc \notin {"scaledown", "wait"}
               PROVE  Shrinks
    OBVIOUS
  <2>1. ~operator /\ TypeOK
    BY DEF Inv, Quiet, Stripping, TypeOK, Tool
  <2>2. CASE \E w \in Objects \X Parts : NextItem(w)
    BY <2>1, <2>2 DEF NextItem, TypeOK
  <2>3. CASE UNCHANGED meta
    BY <2>3
  <2> QED
    BY <2>1, <2>2, <2>3
       DEF Next, ToolStep, vars, cluster, ScaleDownFAOperatorCSV, waitForDeploymentsScaledDown,
           RemoveValidatingWebhooks, ListResources, ListResourcesFails, ItemFails,
           VerifyItem, ItemsDone, ListClaims, RemoveFinalizersFromFilesystemClaims,
           ListClaimsToDelete, DeleteFilesystemClaims, Restart, Calm, OLMScalesDown,
           OperatorRestores, CollectGarbage
<1> QED
  BY <1>1, Invariant, PTL DEF Spec, NothingRestored
=============================================================================
