---- MODULE ComponentLifecycle_proofs ----
(* What a deploy never meets and a teardown never does, for any numbers of deploys, failing calls and kills:
   the custom resource of a deploy without errors has no stale owner and no foreign database next to it, and
   the operator goes last. All three rest on what a goroutine has swept when it gets to a resource. On them rests
   what a command without errors has achieved when it reports success: a deploy its own custom resources, workloads
   and password, a teardown that nothing is left. *)
EXTENDS ComponentLifecycle, SequenceTheorems, TLAPS

DeploySteps == {"operator", "centralStart", "centralTeardown", "secret", "centralCR", "centralReady",
                "centralPause", "sensorStart", "sensorTeardown", "crs", "sensorCR", "sensorReady",
                "sensorPause", "record"}
TeardownSteps == {"join", "operatorTeardown", "forget"}
Sweeping == TeardownSteps \cup {"centralTeardown", "sensorTeardown"}

TypeInv == TypeOK /\ faults \in Seq(0 .. MaxDeploys)

\* Which steps belong to which command, when there are goroutines, and where they stand.
Control ==
    /\ main \in DeploySteps => cmd = "deploy"
    /\ main \in TeardownSteps => cmd = "teardown"
    /\ main \notin Sweeping => \A k \in Kinds : pc[k] = "off"
    /\ main = "operatorTeardown" /\ comps = "All" => \A k \in Kinds : pc[k] = "done"
    /\ \A k \in Kinds : pc[k] \in {"resource", "owned"} => at[k] >= 1
    /\ \A k \in Kinds : pc[k] = "owned" => at[k] = 2

\* No call of the running command has failed, its deadline included.
Unharmed == ctx = "live" /\ Clean(IF cmd = "deploy" THEN deploy ELSE 0)

\* Nothing is left of what a custom resource of kind k would stumble over.
NoVolume(k) == obj[Namespace(k)]["scanner-v4-db"].kind # k
NoDatabase(k) == k = "Central" => obj[Namespace(k)]["central-db"] = NoObject

\* A goroutine that got on without errors has left nothing behind: first the custom resource went, then one
\* resource after the other.
Swept(k) == Unharmed =>
    /\ pc[k] \in {"resource", "owned", "done"} => cr[k] = NoCR
    /\ pc[k] = "done" \/ (pc[k] \in {"resource", "owned"} /\ at[k] > 1) => NoDatabase(k)
    /\ pc[k] = "done" \/ (pc[k] \in {"resource", "owned"} /\ at[k] > 2) => NoVolume(k)

\* That is how it stays until the custom resource is applied.
Cleared(k) == /\ main \in (IF k = "Central" THEN {"secret", "centralCR"} ELSE {"crs", "sensorCR"})
              /\ Unharmed
              => cr[k] = NoCR /\ NoDatabase(k) /\ NoVolume(k)

IndInv == /\ TypeInv /\ Control
          /\ \A k \in Kinds : Swept(k) /\ Cleared(k)
          /\ NoStaleOwner /\ FreshDatabase

----------------------------------------------------------------------------
(* Types *)

\* The bounds are numbers.
LEMMA Bounds == MaxDeploys \in Nat /\ MaxFaults \in Nat
BY ConstantsAssumption

\* Two namespaces or one, each component has one of them.
LEMMA NamespaceOfKind == \A k \in Kinds : Namespace(k) \in Namespaces
BY DEF Namespaces

\* The parts of the type invariant.
Phases == {"absent", "present", "deleting"}
CRs == [phase : Phases, uid : 0 .. MaxDeploys, paused : {"yes", "no"}, reconciled : {"yes", "no"}]
Labels == {"off", "namespace", "exists", "pause", "retrieve", "unpause", "delete", "deleteWait", "resource",
           "owned", "done"}
ClusterType == /\ operator \in {"up", "down"} /\ cr \in [Kinds -> CRs]
               /\ obj \in [Namespaces -> [Names -> Objects]] /\ manifest \in 0 .. MaxDeploys
CommandType == /\ main \in DeploySteps \cup TeardownSteps \cup {"idle"}
               /\ cmd \in {"deploy", "teardown"} /\ comps \in Components
               /\ deploy \in 0 .. MaxDeploys /\ password \in 0 .. MaxDeploys
               /\ ctx \in {"live", "expired"} /\ result \in {"ok", "failed", "running"}
ThreadType == /\ pc \in [Kinds -> Labels]
              /\ at \in [Kinds -> 0 .. 3] /\ \A k \in Kinds : at[k] <= Len(ResourcesToDelete(k))
              /\ outcome \in [Kinds -> {"ok", "failed"}]
BudgetType == /\ Len(faults) + kills <= MaxFaults /\ kills \in Nat /\ shared \in BOOLEAN
              /\ faults \in Seq(0 .. MaxDeploys)

\* Before the first command.
LEMMA TypeInit == Init => TypeInv
<1> SUFFICES ASSUME Init PROVE TypeInv
  OBVIOUS
<1> USE Bounds
<1>1. NoCR \in [phase : {"absent", "present", "deleting"}, uid : 0 .. MaxDeploys,
                paused : {"yes", "no"}, reconciled : {"yes", "no"}]
  BY DEF NoCR
<1>2. NoObject \in Objects
  BY DEF NoObject, Objects
<1>3. faults = << >> /\ Len(faults) = 0 /\ faults \in Seq(0 .. MaxDeploys) /\ DOMAIN faults = {}
  BY DEF Init
<1> QED BY <1>1, <1>2, <1>3 DEF Init, TypeInv, TypeOK, Components, ResourcesToDelete, Kinds

\* The parts make up the type invariant, before and after a step.
LEMMA TypeParts == /\ TypeInv <=> ClusterType /\ CommandType /\ ThreadType /\ BudgetType
                   /\ TypeInv' <=> (ClusterType /\ CommandType /\ ThreadType /\ BudgetType)'
<1>1. faults \in Seq(0 .. MaxDeploys) => \A i \in DOMAIN faults : faults[i] \in 0 .. MaxDeploys
  BY LenProperties, ElementOfSeq
<1>2. faults' \in Seq(0 .. MaxDeploys) => \A i \in DOMAIN faults' : faults'[i] \in 0 .. MaxDeploys
  BY LenProperties, ElementOfSeq
<1>3. TypeInv <=> ClusterType /\ CommandType /\ ThreadType /\ BudgetType
  BY <1>1 DEF TypeInv, TypeOK, ClusterType, CommandType, ThreadType, BudgetType, Phases, CRs, Labels,
              DeploySteps, TeardownSteps
<1>4. TypeInv' <=> (ClusterType /\ CommandType /\ ThreadType /\ BudgetType)'
  BY <1>2 DEF TypeInv, TypeOK, ClusterType, CommandType, ThreadType, BudgetType, Phases, CRs, Labels,
              DeploySteps, TeardownSteps
<1> QED BY <1>3, <1>4

\* A failed call is counted (Fault), one that works or meets the deadline is not.
LEMMA CallsKeepBudget ==
    ASSUME BudgetType, CommandType, UNCHANGED <<kills, shared>>, CallWorks \/ CallFails \/ Fault \/ UNCHANGED faults
    PROVE  BudgetType'
<1>1. (IF cmd = "deploy" THEN deploy ELSE 0) \in 0 .. MaxDeploys
  BY Bounds DEF CommandType
<1>2. CASE UNCHANGED faults
  BY <1>2 DEF BudgetType
<1>3. CASE Fault
  <2>1. faults' \in Seq(0 .. MaxDeploys) /\ Len(faults') = Len(faults) + 1
    BY <1>1, <1>3, AppendProperties DEF BudgetType, Fault
  <2> QED BY <1>3, <2>1, Bounds, LenProperties DEF BudgetType, Fault
<1> QED BY <1>2, <1>3 DEF CallWorks, CallFails

\* A goroutine goes to another step, to a resource that there is, or ends.
LEMMA MovesKeepThreads ==
    ASSUME ThreadType, NEW k \in Kinds,
           \/ \E label \in Labels : GoTo(k, label)
           \/ GoToResource(k, 1) \/ NextResource(k)
           \/ \E how \in {"ok", "failed"} : End(k, how)
    PROVE  ThreadType'
<1>1. \A j \in Kinds : Len(ResourcesToDelete(j)) \in {2, 3}
  BY DEF Kinds, ResourcesToDelete
<1>2. CASE \E label \in Labels : GoTo(k, label)
  BY <1>2 DEF ThreadType, GoTo
<1>3. CASE \E how \in {"ok", "failed"} : End(k, how)
  BY <1>1, <1>3 DEF ThreadType, End, Labels
<1>4. ASSUME NEW i \in 0 .. 3, i <= Len(ResourcesToDelete(k)), GoToResource(k, i) PROVE ThreadType'
  BY <1>1, <1>4 DEF ThreadType, GoToResource, Labels
<1>5. CASE GoToResource(k, 1)
  BY <1>1, <1>4, <1>5
<1>6. CASE NextResource(k)
  <2>1. at[k] # Len(ResourcesToDelete(k)) => at[k] + 1 \in 0 .. 3 /\ at[k] + 1 <= Len(ResourcesToDelete(k))
    <3>1. at[k] \in 0 .. 3 /\ at[k] <= Len(ResourcesToDelete(k)) /\ Len(ResourcesToDelete(k)) \in {2, 3}
      BY <1>1 DEF ThreadType
    <3>2. \A i \in 0 .. 3, n \in {2, 3} : i <= n /\ i # n => i + 1 \in 0 .. 3 /\ i + 1 <= n
      OBVIOUS
    <3> QED BY <3>1, <3>2
  <2> QED BY <1>3, <1>4, <1>6, <2>1 DEF NextResource
<1> QED BY <1>2, <1>3, <1>5, <1>6

\* Starting and stopping goroutines.
LEMMA ThreadsStartAndStop ==
    ASSUME ThreadType, StopThreads \/ \E K \in SUBSET Kinds : StartThreads(K)
    PROVE  ThreadType'
<1>1. \A j \in Kinds : Len(ResourcesToDelete(j)) \in {2, 3}
  BY DEF Kinds, ResourcesToDelete
<1> QED BY <1>1 DEF ThreadType, StartThreads, StopThreads, Labels

\* What is put into the cluster has its type.
LEMMA ClusterConstants ==
    /\ NoCR \in CRs /\ NoObject \in Objects
    /\ CommandType => NewCR \in CRs /\ \A k \in Kinds : Mine(k) \in Objects
    /\ ClusterType => \A k \in Kinds : Owned(k) \in Objects
BY Bounds DEF NoCR, NewCR, CRs, Phases, NoObject, Objects, Mine, Owned, CommandType, ClusterType

\* Teardown of a component keeps the types.
LEMMA TypeTeardown ==
    ASSUME TypeInv, NEW k \in Kinds, Teardown(k)
    PROVE  TypeInv'
<1>1. ClusterType /\ CommandType /\ ThreadType /\ BudgetType
  BY TypeParts
<1>2. UNCHANGED command /\ CommandType'
  BY <1>1 DEF Teardown, CheckNamespace, DoesResourceExist, AddPauseReconcileAnnotation, RetrieveCR,
              RemovePauseReconcileAnnotation, DeleteCR, DeleteCRWait, CheckOwner, DeleteResource, command,
              CommandType
<1>3. BudgetType'
  <2>1. UNCHANGED <<kills, shared>> /\ (CallWorks \/ CallFails \/ Fault \/ UNCHANGED faults)
    BY DEF Teardown, CheckNamespace, DoesResourceExist, AddPauseReconcileAnnotation, RetrieveCR,
              RemovePauseReconcileAnnotation, DeleteCR, DeleteCRWait, CheckOwner, DeleteResource
  <2> QED BY <1>1, <2>1, CallsKeepBudget
<1>4. ThreadType'
  <2>1. \/ \E label \in Labels : GoTo(k, label)
        \/ GoToResource(k, 1) \/ NextResource(k)
        \/ \E how \in {"ok", "failed"} : End(k, how)
    BY DEF Teardown, CheckNamespace, DoesResourceExist, AddPauseReconcileAnnotation, RetrieveCR,
              RemovePauseReconcileAnnotation, DeleteCR, DeleteCRWait, CheckOwner, DeleteResource, Labels
  <2> QED BY <1>1, <2>1, MovesKeepThreads
<1>5. ClusterType'
  <2>1. UNCHANGED shared /\ Namespaces' = Namespaces
    BY DEF Teardown, CheckNamespace, DoesResourceExist, AddPauseReconcileAnnotation, RetrieveCR,
              RemovePauseReconcileAnnotation, DeleteCR, DeleteCRWait, CheckOwner, DeleteResource, Namespaces,
              Namespace
  <2>2. UNCHANGED <<operator, manifest>>
    BY DEF Teardown, CheckNamespace, DoesResourceExist, AddPauseReconcileAnnotation, RetrieveCR,
              RemovePauseReconcileAnnotation, DeleteCR, DeleteCRWait, CheckOwner, DeleteResource, cluster
  <2>3. \/ UNCHANGED cr
        \/ cr' = [cr EXCEPT ![k].paused = "yes"] \/ cr' = [cr EXCEPT ![k].paused = "no"]
        \/ cr' = [cr EXCEPT ![k] = Deleted(@)]
    BY DEF Teardown, CheckNamespace, DoesResourceExist, AddPauseReconcileAnnotation, RetrieveCR,
              RemovePauseReconcileAnnotation, DeleteCR, DeleteCRWait, CheckOwner, DeleteResource, cluster
  <2>4. cr' \in [Kinds -> CRs]
    BY <1>1, <2>3, ClusterConstants DEF ClusterType, CRs, Phases, Deleted
  <2>5. UNCHANGED obj \/ \E n : obj' = [obj EXCEPT ![Namespace(k)][n] = NoObject]
    BY DEF Teardown, CheckNamespace, DoesResourceExist, AddPauseReconcileAnnotation, RetrieveCR,
              RemovePauseReconcileAnnotation, DeleteCR, DeleteCRWait, CheckOwner, DeleteResource, cluster
  <2>6. obj' \in [Namespaces -> [Names -> Objects]]
    BY <1>1, <2>5, ClusterConstants DEF ClusterType
  <2> QED BY <1>1, <2>1, <2>2, <2>4, <2>6 DEF ClusterType
<1> QED BY <1>2, <1>3, <1>4, <1>5, TypeParts

\* Every other step keeps the types.
LEMMA TypeNext == TypeInv /\ [Next]_vars => TypeInv'
<1> SUFFICES ASSUME TypeInv, [Next]_vars PROVE TypeInv'
  OBVIOUS
<1>1. ClusterType /\ CommandType /\ ThreadType /\ BudgetType
  BY TypeParts
<1>2. ASSUME UNCHANGED shared PROVE Namespaces' = Namespaces
  BY <1>2 DEF Namespaces, Namespace
<1>3. ASSUME UNCHANGED <<cluster, shared>> PROVE ClusterType'
  BY <1>1, <1>2, <1>3 DEF ClusterType, cluster
<1>4. ASSUME UNCHANGED threads PROVE ThreadType'
  BY <1>1, <1>4 DEF ThreadType, threads
<1>5. ASSUME NEW label \in DeploySteps \cup TeardownSteps, Step(label) PROVE CommandType'
  BY <1>1, <1>5 DEF CommandType, Step
<1>6. ASSUME NEW how \in {"ok", "failed"}, Finish(how) PROVE CommandType' /\ ThreadType'
  BY <1>1, <1>6, Bounds, ThreadsStartAndStop DEF CommandType, Finish
<1>7. ASSUME UNCHANGED <<faults, kills, shared>> PROVE BudgetType'
  BY <1>1, <1>7 DEF BudgetType
<1>8. ASSUME UNCHANGED <<kills, shared>>, CallWorks \/ CallFails \/ UNCHANGED faults PROVE BudgetType'
  BY <1>1, <1>8, CallsKeepBudget
<1>9. CASE Start
  <2>1. ClusterType' /\ BudgetType'
    BY <1>9, <1>3, <1>7 DEF Start, StartTeardown, StartDeploy
  <2>2. CommandType'
    BY <1>1, <1>9, Bounds DEF Start, StartTeardown, StartDeploy, CommandType, ClusterType, DeploySteps,
                              TeardownSteps
  <2>3. ThreadType'
    <3>1. \A c : Includes(c) \in SUBSET Kinds
      BY DEF Includes, Kinds
    <3> QED BY <1>1, <1>4, <1>9, <3>1, ThreadsStartAndStop DEF Start, StartTeardown, StartDeploy
  <2> QED BY <2>1, <2>2, <2>3, TypeParts
<1>10. CASE Killed
  <2>1. ClusterType' /\ CommandType' /\ ThreadType'
    BY <1>10, <1>3, <1>6 DEF Killed
  <2>2. BudgetType'
    BY <1>1, <1>10, Bounds, LenProperties DEF Killed, BudgetType
  <2> QED BY <2>1, <2>2, TypeParts
<1>11. CASE ContextExpires
  <2>1. ClusterType' /\ BudgetType' /\ ThreadType'
    BY <1>11, <1>3, <1>4, <1>7 DEF ContextExpires
  <2>2. CommandType'
    BY <1>1, <1>11 DEF ContextExpires, CommandType
  <2> QED BY <2>1, <2>2, TypeParts
<1>12. CASE TeardownJoins \/ TeardownOperator \/ ForgetManifest
  <2>1. CommandType' /\ ThreadType'
    BY <1>12, <1>4, <1>5, <1>6 DEF TeardownJoins, TeardownOperator, ForgetManifest, DeploySteps, TeardownSteps
  <2>2. BudgetType'
    BY <1>12, <1>8 DEF TeardownJoins, TeardownOperator, ForgetManifest
  <2>3. ClusterType'
    BY <1>1, <1>2, <1>12, Bounds DEF TeardownJoins, TeardownOperator, ForgetManifest, ClusterType, cluster
  <2> QED BY <2>1, <2>2, <2>3, TypeParts
<1>13. CASE DeployOperator \/ RecordManifest
  <2>1. CommandType' /\ ThreadType'
    BY <1>13, <1>4, <1>5, <1>6 DEF DeployOperator, RecordManifest, AfterOperator, DeploySteps
  <2>2. BudgetType'
    BY <1>13, <1>8 DEF DeployOperator, RecordManifest
  <2>3. ClusterType'
    BY <1>1, <1>2, <1>13 DEF DeployOperator, RecordManifest, ClusterType, CommandType
  <2> QED BY <2>1, <2>2, <2>3, TypeParts
<1>14. ASSUME NEW from, NEW to \in DeploySteps, NEW k \in Kinds,
              StartComponent(from, to, k) \/ ComponentTornDown(from, to, k)
       PROVE  TypeInv'
  <2>1. CommandType' /\ ClusterType' /\ BudgetType'
    BY <1>14, <1>3, <1>5, <1>7 DEF StartComponent, ComponentTornDown
  <2>2. ThreadType'
    BY <1>1, <1>14, ThreadsStartAndStop DEF StartComponent, ComponentTornDown
  <2> QED BY <2>1, <2>2, TypeParts
<1>15. CASE CreateAdminPasswordSecret \/ GenerateAndApplyCRS
  <2>1. CommandType' /\ ThreadType'
    BY <1>15, <1>4, <1>5, <1>6 DEF CreateAdminPasswordSecret, GenerateAndApplyCRS, DeploySteps
  <2>2. BudgetType'
    BY <1>15, <1>8 DEF CreateAdminPasswordSecret, GenerateAndApplyCRS
  <2>3. /\ [kind |-> "Central", uid |-> password] \in Objects
        /\ Mine("SecuredCluster") \in Objects
    BY <1>1 DEF Objects, Mine, Kinds, CommandType
  <2>4. ClusterType'
    BY <1>1, <1>2, <1>15, <2>3 DEF CreateAdminPasswordSecret, GenerateAndApplyCRS, ClusterType
  <2> QED BY <2>1, <2>2, <2>4, TypeParts
<1>16. ASSUME NEW from, NEW to \in DeploySteps, NEW k \in Kinds,
              ApplyCR(from, to, k) \/ WaitForComponentReady(from, to, k) \/ PauseReconciliation(from, to, k)
       PROVE  TypeInv'
  <2>1. CommandType' /\ ThreadType'
    BY <1>16, <1>4, <1>5, <1>6 DEF ApplyCR, WaitForComponentReady, PauseReconciliation, threads
  <2>2. BudgetType'
    BY <1>16, <1>8 DEF ApplyCR, WaitForComponentReady, PauseReconciliation
  <2>3. \/ UNCHANGED cr
        \/ cr' = [cr EXCEPT ![k] = IF @ = NoCR THEN NewCR ELSE @]
        \/ cr' = [cr EXCEPT ![k].paused = "yes"]
    BY <1>16 DEF ApplyCR, WaitForComponentReady, PauseReconciliation, cluster
  <2>4. cr' \in [Kinds -> CRs]
    BY <1>1, <2>3, ClusterConstants DEF ClusterType, CRs
  <2>5. ClusterType'
    BY <1>1, <1>2, <1>16, <2>4 DEF ApplyCR, WaitForComponentReady, PauseReconciliation, ClusterType, cluster
  <2> QED BY <2>1, <2>2, <2>5, TypeParts
<1>17. CASE DeployCentral
  <2>1. AfterCentral \in DeploySteps
    BY DEF AfterCentral, DeploySteps
  <2> QED BY <1>14, <1>15, <1>16, <1>17, <2>1 DEF DeployCentral, DeploySteps, Kinds
<1>18. CASE DeploySecuredCluster
  BY <1>14, <1>15, <1>16, <1>18 DEF DeploySecuredCluster, DeploySteps, Kinds
<1>19. ASSUME NEW k \in Kinds, OperatorReconciles(k) \/ OperatorFinalizes(k) PROVE TypeInv'
  <2>1. CommandType' /\ ThreadType' /\ BudgetType'
    BY <1>1, <1>4, <1>7, <1>19 DEF OperatorReconciles, OperatorFinalizes, CommandType, command
  <2>2. cr' \in [Kinds -> CRs]
    <3>1. cr' = [cr EXCEPT ![k].reconciled = "yes"] \/ cr' = [cr EXCEPT ![k] = NoCR]
      BY <1>19 DEF OperatorReconciles, OperatorFinalizes
    <3> QED BY <1>1, <3>1, ClusterConstants DEF ClusterType, CRs
  <2>3. obj' \in [Namespaces -> [Names -> Objects]]
    <3>1. obj \in [Namespaces -> [Names -> Objects]] /\ Namespace(k) \in Namespaces
      BY <1>1, NamespaceOfKind DEF ClusterType
    <3>2. CASE OperatorReconciles(k)
      <4>1. [n \in Names |-> IF n \in Managed(k) /\ obj[Namespace(k)][n] = NoObject THEN Owned(k)
                             ELSE obj[Namespace(k)][n]] \in [Names -> Objects]
        BY <1>1, <3>1, ClusterConstants
      <4> QED BY <3>1, <3>2, <4>1 DEF OperatorReconciles
    <3>3. CASE OperatorFinalizes(k)
      BY <3>1, <3>3, ClusterConstants DEF OperatorFinalizes
    <3> QED BY <1>19, <3>2, <3>3
  <2>4. ClusterType'
    BY <1>1, <1>2, <1>19, <2>2, <2>3 DEF OperatorReconciles, OperatorFinalizes, ClusterType
  <2> QED BY <2>1, <2>4, TypeParts
<1>20. ASSUME NEW ns \in Namespaces, NEW n \in Names, GarbageCollected(ns, n) PROVE TypeInv'
  <2>1. CommandType' /\ ThreadType' /\ BudgetType'
    BY <1>1, <1>4, <1>7, <1>20 DEF GarbageCollected, CommandType, command
  <2>2. ClusterType'
    BY <1>1, <1>2, <1>20, ClusterConstants DEF GarbageCollected, ClusterType
  <2> QED BY <2>1, <2>2, TypeParts
<1>21. CASE UNCHANGED vars
  BY <1>1, <1>3, <1>4, <1>7, <1>21, TypeParts DEF vars, cluster, threads, CommandType
<1> QED
  BY <1>9, <1>10, <1>11, <1>12, <1>13, <1>17, <1>18, <1>19, <1>20, <1>21, TypeTeardown
     DEF Next, RoxieStep, ClusterStep

\* Every variable keeps its type, for any numbers of deploys, failing calls and kills.
THEOREM TypeCorrect == Spec => []TypeOK
<1>1. Spec => []TypeInv
  BY TypeInit, TypeNext, PTL DEF Spec
<1>2. TypeInv => TypeOK
  BY DEF TypeInv
<1> QED BY <1>1, <1>2, PTL

----------------------------------------------------------------------------
(* Which steps belong to which command *)

\* Goroutines move only while a command waits for them.
LEMMA ThreadsWhileSweeping ==
    ASSUME Control, NEW k \in Kinds, Teardown(k)
    PROVE  main \in Sweeping /\ pc[k] # "done"
BY DEF Teardown, CheckNamespace, DoesResourceExist, AddPauseReconcileAnnotation, RetrieveCR,
       RemovePauseReconcileAnnotation, DeleteCR, DeleteCRWait, CheckOwner, DeleteResource, Control

\* A goroutine looks at the owner of the second resource only.
LEMMA CheckedIsSecond ==
    ASSUME NEW k \in Kinds, NEW i \in 1 .. Len(ResourcesToDelete(k))
    PROVE  /\ ResourcesToDelete(k)[i] \in Names
           /\ ResourcesToDelete(k)[i] \in OwnerChecked <=> i = 2
           /\ ResourcesToDelete(k)[i] = "scanner-v4-db" <=> i = 2
           /\ k = "Central" => (ResourcesToDelete(k)[i] = "central-db" <=> i = 1)
BY DEF Kinds, ResourcesToDelete, OwnerChecked, Names

\* A goroutine at a resource is at one of the list.
LEMMA AtAResource ==
    ASSUME TypeInv, Control, NEW k \in Kinds, pc[k] \in {"resource", "owned"}
    PROVE  at[k] \in 1 .. Len(ResourcesToDelete(k)) /\ at[k] \in 1 .. 3
<1>1. Len(ResourcesToDelete(k)) \in {2, 3}
  BY DEF Kinds, ResourcesToDelete
<1>2. at[k] \in 0 .. 3 /\ at[k] <= Len(ResourcesToDelete(k)) /\ at[k] >= 1
  BY DEF TypeInv, TypeOK, Control
<1>3. \A i \in 0 .. 3, n \in {2, 3} : i <= n /\ i >= 1 => i \in 1 .. n /\ i \in 1 .. 3
  OBVIOUS
<1> QED BY <1>1, <1>2, <1>3

\* A goroutine's step leaves the command's steps as they are.
LEMMA ControlTeardown ==
    ASSUME TypeInv, Control, NEW k \in Kinds, Teardown(k)
    PROVE  Control'
<1>1. /\ main \in Sweeping /\ UNCHANGED <<main, cmd, comps>> /\ pc[k] # "done"
      /\ pc \in [Kinds -> Labels] /\ at \in [Kinds -> 0 .. 3]
  BY ThreadsWhileSweeping, TypeParts
     DEF Teardown, CheckNamespace, DoesResourceExist, AddPauseReconcileAnnotation, RetrieveCR,
         RemovePauseReconcileAnnotation, DeleteCR, DeleteCRWait, CheckOwner, DeleteResource, command, ThreadType
<1>2. ~(main = "operatorTeardown" /\ comps = "All")
  BY <1>1 DEF Control
<1>3. \A j \in Kinds \ {k} : pc'[j] = pc[j] /\ at'[j] = at[j]
  BY <1>1 DEF Teardown, CheckNamespace, DoesResourceExist, AddPauseReconcileAnnotation, RetrieveCR,
         RemovePauseReconcileAnnotation, DeleteCR, DeleteCRWait, CheckOwner, DeleteResource,
         GoTo, GoToResource, End, NextResource
<1>4. /\ pc'[k] \in {"resource", "owned"} => at'[k] >= 1
      /\ pc'[k] = "owned" => at'[k] = 2
  <2>1. CASE \/ CheckNamespace(k) \/ DoesResourceExist(k) \/ AddPauseReconcileAnnotation(k) \/ RetrieveCR(k)
             \/ RemovePauseReconcileAnnotation(k) \/ DeleteCR(k) \/ DeleteCRWait(k)
    BY <1>1, <2>1 DEF CheckNamespace, DoesResourceExist, AddPauseReconcileAnnotation, RetrieveCR,
         RemovePauseReconcileAnnotation, DeleteCR, DeleteCRWait, GoTo, GoToResource, End
  <2>2. ASSUME pc[k] \in {"resource", "owned"}, NextResource(k) PROVE <1>4!1 /\ <1>4!2
    <3>1. at[k] \in 1 .. 3
      BY <2>2, AtAResource
    <3> QED BY <1>1, <2>2, <3>1 DEF NextResource, GoToResource, End
  <2>3. CASE CheckOwner(k)
    <3>1. pc[k] = "resource" /\ at[k] = 2
      BY <2>3, AtAResource, CheckedIsSecond DEF CheckOwner
    <3>2. GoTo(k, "owned") \/ NextResource(k)
      BY <2>3 DEF CheckOwner
    <3> QED BY <1>1, <2>2, <3>1, <3>2 DEF GoTo
  <2>4. CASE DeleteResource(k)
    BY <1>1, <2>2, <2>4 DEF DeleteResource, End
  <2> QED BY <2>1, <2>3, <2>4 DEF Teardown
<1> QED BY <1>1, <1>2, <1>3, <1>4 DEF Control, Sweeping, TeardownSteps, DeploySteps

\* A command that starts, goes on or ends keeps to its own steps.
LEMMA ControlNext == TypeInv /\ Control /\ [Next]_vars => Control'
<1> SUFFICES ASSUME TypeInv, Control, [Next]_vars PROVE Control'
  OBVIOUS
<1> USE DEF Sweeping, DeploySteps, TeardownSteps
<1>1. ASSUME NEW how, Finish(how) PROVE Control'
  BY <1>1 DEF Control, Finish, StopThreads
<1>2. ASSUME UNCHANGED <<main, cmd, comps, pc, at>> PROVE Control'
  BY <1>2 DEF Control
<1>3. ASSUME main \notin Sweeping, cmd = "deploy", UNCHANGED threads,
             NEW label \in DeploySteps \ Sweeping, Step(label)
      PROVE  Control'
  BY <1>3 DEF Control, threads, Step
<1>4. CASE Start
  BY <1>4 DEF Start, StartDeploy, StartTeardown, StartThreads, Control, threads
<1>5. CASE Killed \/ ForgetManifest \/ RecordManifest
  BY <1>1, <1>5 DEF Killed, ForgetManifest, RecordManifest
<1>6. CASE ContextExpires \/ ClusterStep \/ UNCHANGED vars
  BY <1>2, <1>6 DEF ContextExpires, ClusterStep, OperatorReconciles, OperatorFinalizes, GarbageCollected,
                    command, threads, vars
<1>7. CASE TeardownJoins
  <2>1. ASSUME comps = "All", Joined, Step("operatorTeardown"), UNCHANGED threads, main = "join" PROVE Control'
    BY <2>1 DEF Control, Joined, Includes, Kinds, Step, threads
  <2>2. ASSUME Step("forget"), UNCHANGED threads, main = "join" PROVE Control'
    BY <2>2 DEF Control, Step, threads
  <2> QED BY <1>1, <1>7, <2>1, <2>2 DEF TeardownJoins
<1>8. CASE TeardownOperator
  <2>1. ASSUME Step("forget"), UNCHANGED threads, main = "operatorTeardown" PROVE Control'
    BY <2>1 DEF Control, Step, threads
  <2> QED BY <1>1, <1>8, <2>1 DEF TeardownOperator
<1>9. CASE DeployOperator
  <2>1. ASSUME Step(AfterOperator), UNCHANGED threads, main = "operator" PROVE Control'
    BY <1>3, <2>1 DEF Control, AfterOperator
  <2> QED BY <1>1, <1>9, <2>1 DEF DeployOperator
<1>10. ASSUME NEW from \in {"centralStart", "sensorStart"}, NEW to \in {"centralTeardown", "sensorTeardown"},
              NEW k \in Kinds, StartComponent(from, to, k)
       PROVE  Control'
  BY <1>10 DEF Control, StartComponent, Step, StartThreads
<1>11. ASSUME NEW from \in {"centralTeardown", "sensorTeardown"}, NEW to \in {"secret", "crs"}, NEW k \in Kinds,
              ComponentTornDown(from, to, k)
       PROVE  Control'
  BY <1>11 DEF Control, ComponentTornDown, Step, StopThreads
<1>12. CASE CreateAdminPasswordSecret \/ GenerateAndApplyCRS
  <2>1. main \notin Sweeping /\ cmd = "deploy"
    BY <1>12 DEF CreateAdminPasswordSecret, GenerateAndApplyCRS, Control
  <2> QED BY <1>1, <1>3, <1>12, <2>1 DEF CreateAdminPasswordSecret, GenerateAndApplyCRS
<1>13. ASSUME NEW from \in DeploySteps \ Sweeping, NEW to \in DeploySteps \ Sweeping, NEW k \in Kinds,
              ApplyCR(from, to, k) \/ WaitForComponentReady(from, to, k) \/ PauseReconciliation(from, to, k)
       PROVE  Control'
  <2>1. main \notin Sweeping /\ cmd = "deploy"
    BY <1>13 DEF ApplyCR, WaitForComponentReady, PauseReconciliation, Control
  <2> QED BY <1>1, <1>3, <1>13, <2>1 DEF ApplyCR, WaitForComponentReady, PauseReconciliation
<1>14. CASE DeployCentral
  <2>1. AfterCentral \in DeploySteps \ Sweeping
    BY DEF AfterCentral
  <2> QED BY <1>10, <1>11, <1>12, <1>13, <1>14, <2>1 DEF DeployCentral, Kinds
<1>15. CASE DeploySecuredCluster
  BY <1>10, <1>11, <1>12, <1>13, <1>15 DEF DeploySecuredCluster, Kinds
<1> QED
  BY <1>4, <1>5, <1>6, <1>7, <1>8, <1>9, <1>14, <1>15, ControlTeardown DEF Next, RoxieStep

----------------------------------------------------------------------------
(* Failed calls *)

\* What has failed stays on record.
LEMMA FaultsStay ==
    ASSUME TypeInv, [Next]_vars
    PROVE  \A d : Clean(d)' => Clean(d)
<1>1. UNCHANGED faults \/ Fault
  BY DEF Next, Start, StartDeploy, StartTeardown, Killed, ContextExpires, RoxieStep, TeardownJoins,
         TeardownOperator, ForgetManifest, DeployOperator, DeployCentral, DeploySecuredCluster, RecordManifest,
         StartComponent, ComponentTornDown, CreateAdminPasswordSecret, GenerateAndApplyCRS, ApplyCR,
         WaitForComponentReady, PauseReconciliation, ClusterStep, OperatorReconciles, OperatorFinalizes,
         GarbageCollected, Teardown, CheckNamespace, DoesResourceExist, AddPauseReconcileAnnotation, RetrieveCR,
         RemovePauseReconcileAnnotation, DeleteCR, DeleteCRWait, CheckOwner, DeleteResource, CallWorks,
         CallFails, vars
<1>2. CASE UNCHANGED faults
  BY <1>2 DEF Clean
<1>3. CASE Fault
  <2>1. \A i \in DOMAIN faults : i \in DOMAIN faults' /\ faults'[i] = faults[i]
    <3> DEFINE e == IF cmd = "deploy" THEN deploy ELSE 0
    <3>1. e \in 0 .. MaxDeploys
      BY Bounds DEF TypeInv, TypeOK
    <3>2. faults' = Append(faults, e) /\ faults \in Seq(0 .. MaxDeploys)
      BY <1>3 DEF Fault, TypeInv
    <3> HIDE DEF e
    <3> QED BY <3>1, <3>2, AppendProperties, LenProperties
  <2> QED BY <2>1 DEF Clean
<1> QED BY <1>1, <1>2, <1>3

\* After a failed call a command is no longer unharmed.
LEMMA FaultHarms ==
    ASSUME TypeInv, UNCHANGED <<cmd, deploy, ctx>>, Unharmed'
    PROVE  ~Fault /\ ~CallFails
<1> SUFFICES ASSUME Fault PROVE FALSE
  BY DEF CallFails, Unharmed
<1> DEFINE e == IF cmd = "deploy" THEN deploy ELSE 0
<1>1. e \in 0 .. MaxDeploys
  BY Bounds DEF TypeInv, TypeOK
<1>2. faults' = Append(faults, e) /\ faults \in Seq(0 .. MaxDeploys)
  BY DEF Fault, TypeInv
<1>3. Len(faults') \in DOMAIN faults' /\ faults'[Len(faults')] = e
  <2> HIDE DEF e
  <2> QED BY <1>1, <1>2, AppendProperties, LenProperties
<1> QED BY <1>3 DEF Unharmed, Clean

\* A command that is unharmed after a step was so before.
LEMMA HarmStays ==
    ASSUME TypeInv, [Next]_vars, UNCHANGED <<cmd, deploy>>, ctx' = "live" => ctx = "live", Unharmed'
    PROVE  Unharmed
BY FaultsStay DEF Unharmed

----------------------------------------------------------------------------
(* What goroutines leave behind *)

\* Objects disappear at most.
Shrinks == \A ns \in Namespaces, n \in Names : obj'[ns][n] \in {obj[ns][n], NoObject}

\* Where objects disappear at most, what is gone stays so.
LEMMA GoneStaysGone ==
    ASSUME Shrinks, UNCHANGED shared, NEW k \in Kinds
    PROVE  (NoVolume(k) => NoVolume(k)') /\ (NoDatabase(k) => NoDatabase(k)')
<1>1. Namespace(k)' = Namespace(k) /\ Namespace(k) \in Namespaces
  BY NamespaceOfKind DEF Namespace
<1>2. NoObject.kind # k
  BY DEF NoObject, Kinds
<1>3. {"scanner-v4-db", "central-db"} \subseteq Names
  BY DEF Names
<1> QED BY <1>1, <1>2, <1>3 DEF Shrinks, NoVolume, NoDatabase

\* Where objects disappear at most and custom resources are not made, no deploy meets leftovers.
LEMMA NoNewLeftovers ==
    ASSUME TypeInv, NoStaleOwner, FreshDatabase, [Next]_vars, Shrinks, UNCHANGED shared,
           \A k \in Kinds : cr'[k].phase = "present" => cr[k].phase = "present" /\ cr'[k].uid = cr[k].uid
    PROVE  NoStaleOwner' /\ FreshDatabase'
<1>1. \A k \in Kinds : Namespace(k)' = Namespace(k) /\ Namespace(k) \in Namespaces
  BY NamespaceOfKind DEF Namespace
<1>2. \A k \in Kinds : NoObject.kind # k
  BY DEF NoObject, Kinds
<1>3. {"scanner-v4-db", "central-db"} \subseteq Names /\ "Central" \in Kinds
  BY DEF Names, Kinds
<1>4. \A k \in Kinds : Clean(cr[k].uid)' /\ cr'[k].phase = "present" => Clean(cr[k].uid)
  <2> SUFFICES ASSUME NEW k \in Kinds, Clean(cr[k].uid)', cr'[k].phase = "present" PROVE Clean(cr[k].uid)
    OBVIOUS
  <2>1. \A i \in DOMAIN faults' : faults'[i] # cr[k].uid
    BY DEF Clean
  <2> DEFINE u == cr[k].uid
  <2>2. \A d : (\A i \in DOMAIN faults' : faults'[i] # d) => Clean(d)
    BY FaultsStay DEF Clean
  <2> QED BY <2>1, <2>2
<1>5. NoStaleOwner'
  BY <1>1, <1>2, <1>3, <1>4 DEF NoStaleOwner, StaleOwner, Shrinks
<1>6. FreshDatabase'
  BY <1>1, <1>3, <1>4 DEF FreshDatabase, Shrinks
<1> QED BY <1>5, <1>6

\* A goroutine only deletes.
LEMMA TeardownShrinks ==
    ASSUME TypeInv, NEW k \in Kinds, Teardown(k)
    PROVE  /\ Shrinks /\ UNCHANGED <<shared, main, cmd, deploy, ctx>>
           /\ \A j \in Kinds : /\ cr'[j].phase = "present" => cr[j].phase = "present" /\ cr'[j].uid = cr[j].uid
                               /\ j # k => cr'[j] = cr[j]
           /\ \A j \in Kinds : j # k => pc'[j] = pc[j] /\ at'[j] = at[j]
<1>1. obj \in [Namespaces -> [Names -> Objects]] /\ cr \in [Kinds -> CRs] /\ pc \in [Kinds -> Labels]
      /\ at \in [Kinds -> 0 .. 3] /\ Namespace(k) \in Namespaces
  BY TypeParts, NamespaceOfKind DEF ClusterType, ThreadType
<1>2. UNCHANGED obj \/ \E n : obj' = [obj EXCEPT ![Namespace(k)][n] = NoObject]
  BY DEF Teardown, CheckNamespace, DoesResourceExist, AddPauseReconcileAnnotation, RetrieveCR,
         RemovePauseReconcileAnnotation, DeleteCR, DeleteCRWait, CheckOwner, DeleteResource, cluster
<1>3. Shrinks
  BY <1>1, <1>2 DEF Shrinks
<1>4. UNCHANGED <<shared, main, cmd, deploy, ctx>>
  BY DEF Teardown, CheckNamespace, DoesResourceExist, AddPauseReconcileAnnotation, RetrieveCR,
         RemovePauseReconcileAnnotation, DeleteCR, DeleteCRWait, CheckOwner, DeleteResource, command
<1>5. \/ UNCHANGED cr
      \/ cr' = [cr EXCEPT ![k].paused = "yes"] \/ cr' = [cr EXCEPT ![k].paused = "no"]
      \/ cr' = [cr EXCEPT ![k] = Deleted(@)]
  BY DEF Teardown, CheckNamespace, DoesResourceExist, AddPauseReconcileAnnotation, RetrieveCR,
         RemovePauseReconcileAnnotation, DeleteCR, DeleteCRWait, CheckOwner, DeleteResource, cluster
<1>6. Deleted(cr[k]).phase # "present"
  BY <1>1 DEF Deleted, NoCR, CRs
<1>7. \A j \in Kinds : /\ cr'[j].phase = "present" => cr[j].phase = "present" /\ cr'[j].uid = cr[j].uid
                       /\ j # k => cr'[j] = cr[j]
  BY <1>1, <1>5, <1>6 DEF CRs
<1>8. \A j \in Kinds : j # k => pc'[j] = pc[j] /\ at'[j] = at[j]
  BY <1>1 DEF Teardown, CheckNamespace, DoesResourceExist, AddPauseReconcileAnnotation, RetrieveCR,
         RemovePauseReconcileAnnotation, DeleteCR, DeleteCRWait, CheckOwner, DeleteResource,
         GoTo, GoToResource, End, NextResource
<1> QED BY <1>3, <1>4, <1>7, <1>8

\* A goroutine that gets on without errors leaves behind what it should.
LEMMA SweptByItself ==
    ASSUME TypeInv, Control, NEW k \in Kinds, Swept(k), Teardown(k), Unharmed', Unharmed
    PROVE  Swept(k)'
<1> DEFINE Gone(p, a) == /\ p \in {"resource", "owned", "done"} => cr'[k] = NoCR
                         /\ p = "done" \/ (p \in {"resource", "owned"} /\ a > 1) => NoDatabase(k)'
                         /\ p = "done" \/ (p \in {"resource", "owned"} /\ a > 2) => NoVolume(k)'
<1>1. SUFFICES Gone(pc'[k], at'[k])
  BY DEF Swept
<1>2. ~Fault /\ ~CallFails
  BY FaultHarms, TeardownShrinks
<1>3. /\ pc \in [Kinds -> Labels] /\ at \in [Kinds -> 0 .. 3]
      /\ obj \in [Namespaces -> [Names -> Objects]] /\ Namespace(k) \in Namespaces
      /\ Namespace(k)' = Namespace(k)
  BY TypeParts, NamespaceOfKind, TeardownShrinks DEF ClusterType, ThreadType, Namespace
<1>4. (NoVolume(k) => NoVolume(k)') /\ (NoDatabase(k) => NoDatabase(k)')
  BY GoneStaysGone, TeardownShrinks
<1>5. CASE CheckNamespace(k)
  <2>1. CASE IsEmpty(k) /\ End(k, "ok")
    <3>1. cr'[k] = NoCR /\ UNCHANGED <<obj, shared>>
      BY <1>5, <2>1 DEF CheckNamespace, IsEmpty, cluster
    <3>2. NoVolume(k) /\ NoDatabase(k)
      BY <2>1 DEF IsEmpty, NoVolume, NoDatabase, Names, NoObject, Kinds
    <3> QED BY <1>4, <3>1, <3>2
  <2>2. CASE GoTo(k, "exists")
    BY <1>3, <2>2 DEF GoTo
  <2> QED BY <1>2, <1>5, <2>1, <2>2 DEF CheckNamespace
<1>6. CASE DoesResourceExist(k) \/ AddPauseReconcileAnnotation(k) \/ RemovePauseReconcileAnnotation(k) \/ DeleteCR(k)
  BY <1>2, <1>3, <1>6 DEF DoesResourceExist, AddPauseReconcileAnnotation, RemovePauseReconcileAnnotation, DeleteCR,
                          GoTo
<1>7. CASE RetrieveCR(k) \/ DeleteCRWait(k)
  <2>1. GoTo(k, "unpause") \/ (cr'[k] = NoCR /\ GoToResource(k, 1))
    BY <1>2, <1>7 DEF RetrieveCR, DeleteCRWait, cluster
  <2> QED BY <1>3, <2>1 DEF GoTo, GoToResource
<1>8. ASSUME pc[k] \in {"resource", "owned"}, cr'[k] = cr[k], NextResource(k),
             at[k] >= 1 => NoDatabase(k)', at[k] >= 2 => NoVolume(k)'
      PROVE  Gone(pc'[k], at'[k])
  <2>1. cr'[k] = NoCR /\ at[k] \in 1 .. 3
    BY <1>8, AtAResource DEF Swept
  <2>2. CASE GoToResource(k, at[k] + 1)
    BY <1>3, <1>8, <2>1, <2>2 DEF GoToResource
  <2>3. CASE at[k] = Len(ResourcesToDelete(k)) /\ End(k, "ok")
    <3>1. at[k] >= 2
      BY <2>3 DEF Kinds, ResourcesToDelete
    <3> QED BY <1>8, <2>1, <3>1
  <2> QED BY <1>8, <2>2, <2>3 DEF NextResource
<1>9. CASE CheckOwner(k)
  <2>1. pc[k] = "resource" /\ at[k] = 2 /\ UNCHANGED <<cr, obj, shared>>
    BY <1>9, AtAResource, CheckedIsSecond DEF CheckOwner, cluster
  <2>2. NoDatabase(k)'
    BY <1>4, <2>1 DEF Swept
  <2>3. CASE GoTo(k, "owned")
    BY <1>3, <1>4, <2>1, <2>2, <2>3 DEF GoTo, Swept
  <2>4. CASE ~IsOwnedBy(k, ResourcesToDelete(k)[at[k]]) /\ NextResource(k)
    <3>1. NoVolume(k)
      BY <2>1, <2>4, AtAResource, CheckedIsSecond DEF IsOwnedBy, NoVolume
    <3> QED BY <1>4, <1>8, <2>1, <2>2, <2>4, <3>1
  <2> QED BY <1>2, <1>9, <2>3, <2>4 DEF CheckOwner
<1>10. CASE DeleteResource(k)
  <2> DEFINE n == ResourcesToDelete(k)[at[k]]
  <2>1. pc[k] \in {"resource", "owned"} /\ UNCHANGED cr /\ NextResource(k)
        /\ obj' = [obj EXCEPT ![Namespace(k)][n] = NoObject]
    BY <1>2, <1>10 DEF DeleteResource
  <2>2. at[k] \in 1 .. 3 /\ n \in Names
        /\ (n = "scanner-v4-db" <=> at[k] = 2) /\ (k = "Central" => (n = "central-db" <=> at[k] = 1))
    BY <2>1, AtAResource, CheckedIsSecond
  <2>3. obj'[Namespace(k)][n] = NoObject
    BY <1>3, <2>1, <2>2
  <2>4. at[k] >= 1 => NoDatabase(k)'
    <3>1. CASE at[k] = 1
      BY <1>3, <2>2, <2>3, <3>1 DEF NoDatabase
    <3>2. CASE at[k] > 1
      BY <1>4, <2>1, <3>2 DEF Swept
    <3> QED BY <2>2, <3>1, <3>2
  <2>5. at[k] >= 2 => NoVolume(k)'
    <3>1. CASE at[k] = 2
      BY <1>3, <2>2, <2>3, <3>1 DEF NoVolume, NoObject, Kinds
    <3>2. CASE at[k] > 2
      BY <1>4, <2>1, <3>2 DEF Swept
    <3> QED BY <2>2, <3>1, <3>2
  <2> QED BY <1>8, <2>1, <2>4, <2>5
<1> QED BY <1>5, <1>6, <1>7, <1>9, <1>10 DEF Teardown

\* One goroutine does not spoil what the other has swept.
LEMMA IndInvTeardown ==
    ASSUME IndInv, [Next]_vars, NEW k \in Kinds, Teardown(k)
    PROVE  \A j \in Kinds : Swept(j)' /\ Cleared(j)'
<1> USE DEF IndInv
<1>1. main' = main /\ main \in Sweeping
  BY TeardownShrinks, ThreadsWhileSweeping
<1>2. \A j \in Kinds : Cleared(j)'
  BY <1>1 DEF Cleared, Sweeping, TeardownSteps
<1>3. ASSUME NEW j \in Kinds, Unharmed' PROVE Swept(j)'
  <2>1. Unharmed
    BY <1>3, HarmStays, TeardownShrinks
  <2>2. CASE j = k
    BY <1>3, <2>1, <2>2, SweptByItself
  <2>3. CASE j # k
    BY <2>1, <2>3, TeardownShrinks, GoneStaysGone DEF Swept
  <2> QED BY <2>2, <2>3
<1>4. \A j \in Kinds : Swept(j)'
  BY <1>3 DEF Swept
<1> QED BY <1>2, <1>4

----------------------------------------------------------------------------
(* The other steps *)

\* While no goroutine is at a resource there is nothing to be said of them.
LEMMA NothingSwept ==
    ASSUME \A k \in Kinds : pc'[k] \in {"off", "namespace"}
    PROVE  \A k \in Kinds : Swept(k)'
BY DEF Swept

\* A step that leaves the cluster alone and starts or ends no deploy's component.
LEMMA ClusterUntouched ==
    ASSUME IndInv, [Next]_vars, UNCHANGED <<cr, obj, shared>>
    PROVE  NoStaleOwner' /\ FreshDatabase'
BY NoNewLeftovers DEF IndInv, Shrinks

\* No step makes a deploy meet leftovers.
LEMMA LeftoversNext ==
    ASSUME IndInv, [Next]_vars
    PROVE  NoStaleOwner' /\ FreshDatabase'
<1> USE DEF IndInv
<1>1. ASSUME UNCHANGED <<cr, obj, shared>> PROVE NoStaleOwner' /\ FreshDatabase'
  BY <1>1, ClusterUntouched
<1>2. ASSUME NEW k \in Kinds, Teardown(k) PROVE NoStaleOwner' /\ FreshDatabase'
  BY <1>2, TeardownShrinks, NoNewLeftovers
<1>3. CASE Start \/ Killed \/ ContextExpires \/ TeardownJoins \/ TeardownOperator \/ ForgetManifest
           \/ DeployOperator \/ RecordManifest \/ UNCHANGED vars
  BY <1>1, <1>3 DEF Start, StartDeploy, StartTeardown, Killed, ContextExpires, TeardownJoins, TeardownOperator,
         ForgetManifest, DeployOperator, RecordManifest, vars, cluster
<1>4. ASSUME NEW from, NEW to, NEW k, StartComponent(from, to, k) \/ ComponentTornDown(from, to, k)
                                      \/ WaitForComponentReady(from, to, k)
      PROVE  NoStaleOwner' /\ FreshDatabase'
  BY <1>1, <1>4 DEF StartComponent, ComponentTornDown, WaitForComponentReady, cluster
<1>5. /\ obj \in [Namespaces -> [Names -> Objects]] /\ cr \in [Kinds -> CRs]
      /\ \A k \in Kinds : Namespace(k) \in Namespaces
  BY TypeParts, NamespaceOfKind DEF ClusterType
<1>6. ASSUME NEW ns \in Namespaces, NEW n \in {"admin-password", "cluster-registration-secret"}, NEW o,
             obj' = [obj EXCEPT ![ns][n] = o], UNCHANGED <<cr, shared>>
      PROVE  NoStaleOwner' /\ FreshDatabase'
  <2>1. \A k \in Kinds, m \in {"scanner-v4-db", "central-db"} : obj'[Namespace(k)][m] = obj[Namespace(k)][m]
    BY <1>5, <1>6 DEF Names
  <2>2. \A k \in Kinds : Namespace(k)' = Namespace(k)
    BY <1>6 DEF Namespace
  <2>3. \A k \in Kinds : Clean(cr[k].uid)' => Clean(cr[k].uid)
    BY <1>6, FaultsStay DEF Clean
  <2>4. NoStaleOwner'
    BY <1>6, <2>1, <2>2, <2>3 DEF NoStaleOwner, StaleOwner
  <2>5. FreshDatabase'
    BY <1>6, <2>1, <2>2, <2>3 DEF FreshDatabase, Kinds
  <2> QED BY <2>4, <2>5
<1>7. CASE CreateAdminPasswordSecret \/ GenerateAndApplyCRS
  <2>1. CASE UNCHANGED <<cr, obj, shared>>
    BY <1>1, <2>1
  <2>2. CASE obj' # obj
    BY <1>5, <1>6, <1>7, <2>2 DEF CreateAdminPasswordSecret, GenerateAndApplyCRS, Kinds
  <2> QED BY <1>7, <2>1, <2>2 DEF CreateAdminPasswordSecret, GenerateAndApplyCRS
<1>8. ASSUME NEW from, NEW to, NEW k \in Kinds, PauseReconciliation(from, to, k)
      PROVE  NoStaleOwner' /\ FreshDatabase'
  <2>1. UNCHANGED <<obj, shared>> /\ (UNCHANGED cr \/ cr' = [cr EXCEPT ![k].paused = "yes"])
    BY <1>8 DEF PauseReconciliation
  <2>2. \A j \in Kinds : cr'[j].phase = cr[j].phase /\ cr'[j].uid = cr[j].uid
    BY <1>5, <2>1 DEF CRs
  <2> QED BY <2>1, <2>2, NoNewLeftovers DEF Shrinks
<1>9. ASSUME NEW to, NEW k \in Kinds, ApplyCR(IF k = "Central" THEN "centralCR" ELSE "sensorCR", to, k)
      PROVE  NoStaleOwner' /\ FreshDatabase'
  <2>1. CASE UNCHANGED cr
    BY <1>1, <1>9, <2>1 DEF ApplyCR
  <2>2. CASE cr[k] = NoCR /\ CallWorks /\ cr' = [cr EXCEPT ![k] = NewCR]
    <3>1. UNCHANGED <<obj, shared, faults, deploy>> /\ ctx = "live" /\ cmd = "deploy"
      BY <1>9, <2>2 DEF ApplyCR, CallWorks, Finish, Step, Control, DeploySteps
    <3>2. cr'[k].uid = deploy /\ \A j \in Kinds : j # k => cr'[j] = cr[j]
      BY <1>5, <2>2 DEF NewCR
    <3>3. Clean(deploy) => NoDatabase(k) /\ NoVolume(k)
      BY <1>9, <3>1 DEF ApplyCR, Cleared, Unharmed, Kinds
    <3>4. /\ Clean(cr[k].uid)' => Clean(deploy)
          /\ \A j \in Kinds : j # k /\ Clean(cr[j].uid)' => Clean(cr[j].uid)
          /\ \A j \in Kinds : Namespace(j)' = Namespace(j)
      BY <3>1, <3>2 DEF Clean, Namespace
    <3>5. NoStaleOwner'
      BY <3>1, <3>2, <3>3, <3>4 DEF NoStaleOwner, StaleOwner, NoVolume
    <3>6. FreshDatabase'
      BY <3>1, <3>2, <3>3, <3>4 DEF FreshDatabase, NoDatabase, Kinds
    <3> QED BY <3>5, <3>6
  <2>3. cr[k] # NoCR => [cr EXCEPT ![k] = IF @ = NoCR THEN NewCR ELSE @] = cr
    BY <1>5
  <2> QED BY <1>9, <2>1, <2>2, <2>3 DEF ApplyCR
<1>10. CASE DeployCentral
  BY <1>4, <1>7, <1>8, <1>9, <1>10 DEF DeployCentral, Kinds
<1>11. CASE DeploySecuredCluster
  BY <1>4, <1>7, <1>8, <1>9, <1>11 DEF DeploySecuredCluster, Kinds
<1>12. ASSUME NEW k \in Kinds, OperatorReconciles(k) PROVE NoStaleOwner' /\ FreshDatabase'
  <2>1. /\ cr' = [cr EXCEPT ![k].reconciled = "yes"] /\ UNCHANGED <<shared, faults>>
        /\ obj' = [obj EXCEPT ![Namespace(k)] =
                     [n \in Names |-> IF n \in Managed(k) /\ @[n] = NoObject THEN Owned(k) ELSE @[n]]]
    BY <1>12 DEF OperatorReconciles
  <2>2. \A j \in Kinds : /\ cr'[j].phase = cr[j].phase /\ cr'[j].uid = cr[j].uid
                         /\ Namespace(j)' = Namespace(j) /\ (Clean(cr[j].uid)' => Clean(cr[j].uid))
    BY <1>5, <2>1 DEF CRs, Namespace, Clean
  <2>3. \A j \in Kinds, n \in Names :
          \/ obj'[Namespace(j)][n] = obj[Namespace(j)][n]
          \/ n \in Managed(k) /\ obj'[Namespace(j)][n] = Owned(k)
    BY <1>5, <2>1
  <2>4. Owned(k).kind = k /\ Owned(k).uid = cr[k].uid
    BY DEF Owned
  <2>5. NoStaleOwner'
    <3> SUFFICES ASSUME NEW j \in Kinds, cr[j].phase = "present", Clean(cr[j].uid) PROVE ~StaleOwner(j)'
      BY <2>2 DEF NoStaleOwner
    <3>1. ~StaleOwner(j)
      BY DEF NoStaleOwner
    <3>2. "scanner-v4-db" \in Names
      BY DEF Names
    <3> QED BY <2>2, <2>3, <2>4, <3>1, <3>2 DEF StaleOwner
  <2>6. FreshDatabase'
    <3>1. "central-db" \in Names /\ "Central" \in Kinds /\ ("central-db" \in Managed(k) => k = "Central")
      BY DEF Names, Kinds, Managed
    <3> QED BY <2>2, <2>3, <2>4, <3>1 DEF FreshDatabase
  <2> QED BY <2>5, <2>6
<1>13. ASSUME NEW k \in Kinds, OperatorFinalizes(k) PROVE NoStaleOwner' /\ FreshDatabase'
  <2>1. /\ cr' = [cr EXCEPT ![k] = NoCR] /\ UNCHANGED shared
        /\ obj' = [obj EXCEPT ![Namespace(k)][Workload(k)] = NoObject]
    BY <1>13 DEF OperatorFinalizes
  <2>2. Shrinks
    BY <1>5, <2>1 DEF Shrinks
  <2>3. \A j \in Kinds : cr'[j].phase = "present" => cr[j].phase = "present" /\ cr'[j].uid = cr[j].uid
    BY <1>5, <2>1 DEF NoCR
  <2> QED BY <2>1, <2>2, <2>3, NoNewLeftovers
<1>14. ASSUME NEW ns \in Namespaces, NEW n \in Names, GarbageCollected(ns, n)
       PROVE  NoStaleOwner' /\ FreshDatabase'
  <2>1. UNCHANGED <<cr, shared>> /\ obj' = [obj EXCEPT ![ns][n] = NoObject]
    BY <1>14 DEF GarbageCollected
  <2>2. Shrinks
    BY <1>5, <2>1 DEF Shrinks
  <2> QED BY <2>1, <2>2, NoNewLeftovers
<1> QED
  BY <1>2, <1>3, <1>10, <1>11, <1>12, <1>13, <1>14 DEF Next, RoxieStep, ClusterStep

\* The steps before a component is torn down, and after its custom resource has been applied.
Unrelated == {"idle", "operator", "centralStart", "centralTeardown", "centralReady", "centralPause", "sensorStart",
              "sensorTeardown", "sensorReady", "sensorPause", "record", "join", "operatorTeardown", "forget"}

\* What has been swept stays gone until the custom resource is applied.
LEMMA SweptNext ==
    ASSUME IndInv, [Next]_vars
    PROVE  \A j \in Kinds : Swept(j)' /\ Cleared(j)'
<1> USE DEF IndInv
<1>1. ASSUME main' \in Unrelated, \A j \in Kinds : pc'[j] \in {"off", "namespace"}
      PROVE  \A j \in Kinds : Swept(j)' /\ Cleared(j)'
  BY <1>1, NothingSwept DEF Unrelated, Cleared
<1>2. ASSUME NEW how, Finish(how) PROVE \A j \in Kinds : Swept(j)' /\ Cleared(j)'
  BY <1>1, <1>2 DEF Finish, StopThreads, Unrelated
<1>3. ASSUME main' \in Unrelated, UNCHANGED <<cmd, deploy, ctx, cr, obj, shared, threads>>
      PROVE  \A j \in Kinds : Swept(j)' /\ Cleared(j)'
  <2>1. Unharmed' => Unharmed
    BY <1>3, HarmStays
  <2>2. \A j \in Kinds : (NoVolume(j) => NoVolume(j)') /\ (NoDatabase(j) => NoDatabase(j)')
    BY <1>3, GoneStaysGone DEF Shrinks
  <2> QED BY <1>3, <2>1, <2>2 DEF Swept, Cleared, Unrelated, threads
<1>4. CASE Start
  BY <1>1, <1>4 DEF Start, StartDeploy, StartTeardown, StartThreads, Unrelated, Control, Sweeping, TeardownSteps,
                    threads
<1>5. CASE Killed \/ ForgetManifest \/ RecordManifest
  BY <1>2, <1>5 DEF Killed, ForgetManifest, RecordManifest
<1>6. CASE ContextExpires
  BY <1>6 DEF ContextExpires, Swept, Cleared, Unharmed
<1>7. CASE TeardownJoins \/ TeardownOperator
  BY <1>2, <1>3, <1>7 DEF TeardownJoins, TeardownOperator, Step, Unrelated, cluster
<1>8. ASSUME main \notin Sweeping, UNCHANGED threads, NEW label \in Unrelated, Step(label)
      PROVE  \A j \in Kinds : Swept(j)' /\ Cleared(j)'
  BY <1>1, <1>8 DEF Control, Step, threads
<1>9. CASE DeployOperator
  BY <1>2, <1>8, <1>9 DEF DeployOperator, AfterOperator, Unrelated, Sweeping, TeardownSteps
<1>10. ASSUME NEW from \in {"centralStart", "sensorStart"}, NEW to \in Unrelated, NEW k \in Kinds,
              StartComponent(from, to, k)
       PROVE  \A j \in Kinds : Swept(j)' /\ Cleared(j)'
  BY <1>1, <1>10 DEF StartComponent, StartThreads, Step, Control, Sweeping, TeardownSteps
<1>11. ASSUME NEW from, NEW k \in Kinds, ComponentTornDown(from, IF k = "Central" THEN "secret" ELSE "crs", k)
       PROVE  \A j \in Kinds : Swept(j)' /\ Cleared(j)'
  <2>1. /\ UNCHANGED <<cmd, deploy, ctx, cr, obj, shared>> /\ pc[k] = "done"
        /\ main' = IF k = "Central" THEN "secret" ELSE "crs"
        /\ \A j \in Kinds : pc'[j] = "off"
    BY <1>11 DEF ComponentTornDown, Step, StopThreads, cluster
  <2>2. Unharmed' => cr[k] = NoCR /\ NoVolume(k) /\ NoDatabase(k)
    BY <2>1, HarmStays DEF Swept
  <2>3. Cleared(k)'
    BY <2>1, <2>2, GoneStaysGone DEF Cleared, Shrinks
  <2>4. \A j \in Kinds : j # k => Cleared(j)'
    BY <2>1 DEF Cleared, Kinds
  <2> QED BY <2>1, <2>3, <2>4, NothingSwept
<1>12. /\ obj \in [Namespaces -> [Names -> Objects]] /\ cr \in [Kinds -> CRs]
       /\ \A k \in Kinds : Namespace(k) \in Namespaces
  BY TypeParts, NamespaceOfKind DEF ClusterType
<1>13. CASE CreateAdminPasswordSecret \/ GenerateAndApplyCRS
  <2>1. CASE main' = "idle"
    BY <1>2, <1>13, <2>1 DEF CreateAdminPasswordSecret, GenerateAndApplyCRS, Step
  <2>2. CASE main' # "idle"
    <3>1. /\ (main = "secret" /\ main' = "centralCR") \/ (main = "crs" /\ main' = "sensorCR")
          /\ UNCHANGED <<cmd, deploy, ctx, cr, shared, pc>>
      BY <1>13, <2>2 DEF CreateAdminPasswordSecret, GenerateAndApplyCRS, Step, Finish, threads
    <3>2. \E k \in Kinds, n \in {"admin-password", "cluster-registration-secret"} : \E o :
             obj' = [obj EXCEPT ![Namespace(k)][n] = o]
      <4>1. CASE CreateAdminPasswordSecret
        <5>1. obj' = [obj EXCEPT ![Namespace("Central")]["admin-password"] = [kind |-> "Central", uid |-> password]]
          BY <2>2, <4>1 DEF CreateAdminPasswordSecret, Finish
        <5> QED BY <5>1 DEF Kinds
      <4>2. CASE GenerateAndApplyCRS
        <5>1. obj' = [obj EXCEPT ![Namespace("SecuredCluster")]["cluster-registration-secret"] =
                                   Mine("SecuredCluster")]
          BY <2>2, <4>2 DEF GenerateAndApplyCRS, Finish
        <5> QED BY <5>1 DEF Kinds
      <4> QED BY <1>13, <4>1, <4>2
    <3>3. \A j \in Kinds, m \in {"scanner-v4-db", "central-db"} : obj'[Namespace(j)][m] = obj[Namespace(j)][m]
      BY <1>12, <3>2 DEF Names
    <3>4. \A j \in Kinds : Namespace(j)' = Namespace(j)
      BY <3>1 DEF Namespace
    <3>5. \A j \in Kinds : (NoVolume(j) => NoVolume(j)') /\ (NoDatabase(j) => NoDatabase(j)')
      BY <3>3, <3>4 DEF NoVolume, NoDatabase
    <3>6. \A j \in Kinds : pc'[j] = "off"
      BY <3>1 DEF Control, Sweeping, TeardownSteps
    <3>7. Unharmed' => Unharmed
      BY <3>1, HarmStays
    <3>8. \A j \in Kinds : Cleared(j)'
      BY <3>1, <3>5, <3>7 DEF Cleared
    <3> QED BY <3>6, <3>8, NothingSwept
  <2> QED BY <2>1, <2>2
<1>14. ASSUME NEW from \in DeploySteps \ Sweeping, NEW to \in Unrelated, NEW k \in Kinds,
              ApplyCR(from, to, k) \/ WaitForComponentReady(from, to, k) \/ PauseReconciliation(from, to, k)
       PROVE  \A j \in Kinds : Swept(j)' /\ Cleared(j)'
  BY <1>2, <1>8, <1>14 DEF ApplyCR, WaitForComponentReady, PauseReconciliation
<1>15. CASE DeployCentral
  <2>1. AfterCentral \in Unrelated
    BY DEF AfterCentral, Unrelated
  <2> QED BY <1>10, <1>11, <1>13, <1>14, <1>15, <2>1
        DEF DeployCentral, Kinds, Unrelated, DeploySteps, Sweeping, TeardownSteps
<1>16. CASE DeploySecuredCluster
  BY <1>10, <1>11, <1>13, <1>14, <1>16
     DEF DeploySecuredCluster, Kinds, Unrelated, DeploySteps, Sweeping, TeardownSteps
<1>17. ASSUME UNCHANGED <<command, threads, faults, shared>>, Shrinks, \A j \in Kinds : cr[j] = NoCR => cr'[j] = NoCR
       PROVE  \A j \in Kinds : Swept(j)' /\ Cleared(j)'
  <2>1. Unharmed' => Unharmed
    BY <1>17, HarmStays DEF command
  <2>2. \A j \in Kinds : (NoVolume(j) => NoVolume(j)') /\ (NoDatabase(j) => NoDatabase(j)')
    BY <1>17, GoneStaysGone
  <2> QED BY <1>17, <2>1, <2>2 DEF Swept, Cleared, command, threads
<1>18. ASSUME NEW k \in Kinds, OperatorReconciles(k) PROVE \A j \in Kinds : Swept(j)' /\ Cleared(j)'
  <2>1. /\ UNCHANGED <<command, threads, faults, shared>> /\ cr[k].phase = "present"
        /\ cr' = [cr EXCEPT ![k].reconciled = "yes"]
        /\ obj' = [obj EXCEPT ![Namespace(k)] =
                     [n \in Names |-> IF n \in Managed(k) /\ @[n] = NoObject THEN Owned(k) ELSE @[n]]]
    BY <1>18 DEF OperatorReconciles
  <2>2. cr[k] # NoCR
    BY <2>1 DEF NoCR
  <2>3. \A j \in Kinds : cr[j] = NoCR => j # k /\ cr'[j] = NoCR
    BY <1>12, <2>1, <2>2
  <2>4. Unharmed' => Unharmed
    BY <2>1, HarmStays DEF command
  <2>5. \A j \in Kinds, n \in Names :
          \/ obj'[Namespace(j)][n] = obj[Namespace(j)][n]
          \/ n \in Managed(k) /\ obj'[Namespace(j)][n] = Owned(k)
    BY <1>12, <2>1
  <2>6. /\ "central-db" \in Names /\ "scanner-v4-db" \in Names /\ Owned(k).kind = k
        /\ "central-db" \in Managed(k) => k = "Central"
    BY DEF Names, Managed, Owned, Kinds
  <2>7. \A j \in Kinds : Namespace(j)' = Namespace(j)
    BY <2>1 DEF Namespace
  <2>8. \A j \in Kinds : j # k => (NoVolume(j) => NoVolume(j)') /\ (NoDatabase(j) => NoDatabase(j)')
    BY <2>5, <2>6, <2>7 DEF NoVolume, NoDatabase
  <2>9. \A j \in Kinds : j # k => Swept(j)' /\ Cleared(j)'
    BY <2>1, <2>3, <2>4, <2>8 DEF Swept, Cleared, command, threads
  <2>10. Swept(k)' /\ Cleared(k)'
    BY <2>1, <2>2, <2>4 DEF Swept, Cleared, command, threads
  <2> QED BY <2>9, <2>10
<1>19. ASSUME NEW k \in Kinds, OperatorFinalizes(k) PROVE \A j \in Kinds : Swept(j)' /\ Cleared(j)'
  <2>1. /\ cr' = [cr EXCEPT ![k] = NoCR] /\ UNCHANGED <<command, threads, faults, shared>>
        /\ obj' = [obj EXCEPT ![Namespace(k)][Workload(k)] = NoObject]
    BY <1>19 DEF OperatorFinalizes
  <2>2. Shrinks /\ \A j \in Kinds : cr[j] = NoCR => cr'[j] = NoCR
    BY <1>12, <2>1 DEF Shrinks
  <2> QED BY <1>17, <2>1, <2>2
<1>20. ASSUME NEW ns \in Namespaces, NEW n \in Names, GarbageCollected(ns, n)
       PROVE  \A j \in Kinds : Swept(j)' /\ Cleared(j)'
  <2>1. UNCHANGED <<cr, command, threads, faults, shared>> /\ obj' = [obj EXCEPT ![ns][n] = NoObject]
    BY <1>20 DEF GarbageCollected
  <2>2. Shrinks
    BY <1>12, <2>1 DEF Shrinks
  <2> QED BY <1>17, <2>1, <2>2
<1>21. CASE UNCHANGED vars
  BY <1>17, <1>21 DEF vars, command, threads, Shrinks
<1> QED
  BY <1>4, <1>5, <1>6, <1>7, <1>9, <1>15, <1>16, <1>18, <1>19, <1>20, <1>21, IndInvTeardown
     DEF Next, RoxieStep, ClusterStep

----------------------------------------------------------------------------
(* The theorems *)

\* Before the first command.
LEMMA IndInvInit == Init => IndInv
<1> SUFFICES ASSUME Init PROVE IndInv
  OBVIOUS
<1>1. TypeInv
  BY TypeInit
<1>2. Control
  BY DEF Init, Control, DeploySteps, TeardownSteps
<1>3. \A k \in Kinds : Swept(k) /\ Cleared(k)
  BY DEF Init, Swept, Cleared
<1>4. \A k \in Kinds : cr[k].phase = "absent"
  BY DEF Init, NoCR
<1>5. NoStaleOwner /\ FreshDatabase
  BY <1>4 DEF NoStaleOwner, FreshDatabase, Kinds
<1> QED BY <1>1, <1>2, <1>3, <1>5 DEF IndInv

\* The inductive invariant: what goroutines without errors have swept is gone until a custom resource is applied.
THEOREM Inductive == Spec => []IndInv
<1>1. IndInv /\ [Next]_vars => IndInv'
  BY TypeNext, ControlNext, SweptNext, LeftoversNext DEF IndInv
<1> QED BY IndInvInit, <1>1, PTL DEF Spec

\* The custom resource of a deploy without errors never meets an object that a predecessor owns
\* (deleteCentralResources, deleteSecuredClusterResources).
THEOREM NeverAStaleOwner == Spec => []NoStaleOwner
<1>1. IndInv => NoStaleOwner
  BY DEF IndInv
<1> QED BY <1>1, Inductive, PTL

\* The Central of a deploy without errors never starts on the database of an earlier one.
THEOREM AlwaysAFreshDatabase == Spec => []FreshDatabase
<1>1. IndInv => FreshDatabase
  BY DEF IndInv
<1> QED BY <1>1, Inductive, PTL

\* A teardown of everything removes the operator only after both components are gone, unless a call of a
\* teardown has failed (Teardown).
THEOREM TheOperatorGoesLast == Spec => OperatorGoesLastWithoutErrors
<1>1. ASSUME IndInv, [Next]_vars, comps = "All", operator = "up", operator' = "down", Clean(0)'
      PROVE  \A k \in Kinds : cr[k] = NoCR
  <2>1. TeardownOperator /\ CallWorks
    BY <1>1 DEF Next, Start, StartDeploy, StartTeardown, Killed, ContextExpires, RoxieStep, TeardownJoins,
         TeardownOperator, ForgetManifest, DeployOperator, DeployCentral, DeploySecuredCluster, RecordManifest,
         StartComponent, ComponentTornDown, CreateAdminPasswordSecret, GenerateAndApplyCRS, ApplyCR,
         WaitForComponentReady, PauseReconciliation, ClusterStep, OperatorReconciles, OperatorFinalizes,
         GarbageCollected, Teardown, CheckNamespace, DoesResourceExist, AddPauseReconcileAnnotation, RetrieveCR,
         RemovePauseReconcileAnnotation, DeleteCR, DeleteCRWait, CheckOwner, DeleteResource, cluster, vars
  <2>2. main = "operatorTeardown" /\ cmd = "teardown" /\ \A k \in Kinds : pc[k] = "done"
    BY <1>1, <2>1 DEF TeardownOperator, IndInv, Control, TeardownSteps
  <2>3. Unharmed
    BY <1>1, <2>1, <2>2, FaultsStay DEF CallWorks, Unharmed, IndInv
  <2> QED BY <1>1, <2>2, <2>3 DEF IndInv, Swept
<1>2. IndInv /\ [Next]_vars => [comps = "All" /\ operator = "up" /\ operator' = "down" /\ Clean(0)' =>
                                \A k \in Kinds : cr[k] = NoCR]_vars
  BY <1>1
<1> QED BY <1>2, Inductive, PTL DEF Spec, OperatorGoesLastWithoutErrors

----------------------------------------------------------------------------
(* What a command that succeeds has done *)

\* The steps of a deploy after the password, the custom resource, the workload of a component are there.
SensorSteps == {"sensorStart", "sensorTeardown", "crs", "sensorCR", "sensorReady", "sensorPause"}
WithSecret == {"centralCR", "centralReady", "centralPause", "record"} \cup SensorSteps
WithCR(k) == IF k = "Central" THEN WithSecret \ {"centralCR"} ELSE {"sensorReady", "sensorPause", "record"}
WithWorkload(k) == WithCR(k) \ {IF k = "Central" THEN "centralReady" ELSE "sensorReady"}

Succeeded(c) == main = "idle" /\ cmd = c /\ result = "ok"
TheWorkload(k) == obj[Namespace(k)][Workload(k)]
AdminPassword == obj[Namespace("Central")]["admin-password"]

\* A deploy runs the goroutine of the component it is at; what a teardown does last it does after all of them.
Threads ==
    /\ main = "centralTeardown" => pc["SecuredCluster"] = "off"
    /\ main = "sensorTeardown" => pc["Central"] = "off"
    /\ main \in {"operatorTeardown", "forget"} => \A k \in Kinds : k \in Includes(comps) => pc[k] = "done"

\* The first n resources on the list of component k are gone, or another component's.
Emptied(k, n) == \A i \in 1 .. n : ~IsOwnedBy(k, ResourcesToDelete(k)[i])

\* A goroutine of a teardown without errors has emptied its list that far; in the end nothing is left.
TornDown(k) == cmd = "teardown" /\ Unharmed =>
    /\ pc[k] \in {"resource", "owned"} => Emptied(k, at[k] - 1)
    /\ pc[k] = "done" \/ (Succeeded("teardown") /\ k \in Includes(comps)) =>
         cr[k] = NoCR /\ Emptied(k, Len(ResourcesToDelete(k)))

\* A workload belongs to the custom resource that there is: it was made by reconciling it, and goes with it.
WorkloadOwned(k) == TheWorkload(k) # NoObject => TheWorkload(k) = Owned(k) /\ cr[k].reconciled = "yes"

\* What a deploy without errors has made so far.
Delivered(k) == k \in Includes(comps) /\ Clean(deploy) =>
    /\ main \in WithCR(k) \/ Succeeded("deploy") => cr[k].phase = "present" /\ cr[k].uid = deploy
    /\ main \in WithWorkload(k) \/ Succeeded("deploy") => TheWorkload(k) # NoObject

\* The password of Central is the command's, and then the manifest's.
PasswordKept == "Central" \in Includes(comps) =>
    /\ main \in WithSecret => AdminPassword.uid = password
    /\ Succeeded("deploy") /\ ctx = "live" /\ Clean(deploy) => manifest = AdminPassword.uid

Delivery == Threads /\ PasswordKept /\ \A k \in Kinds : TornDown(k) /\ WorkloadOwned(k) /\ Delivered(k)

----------------------------------------------------------------------------
(* What a step does to a custom resource, its workload and its leftovers *)

SameCR(k) == /\ cr'[k].phase = cr[k].phase /\ cr'[k].uid = cr[k].uid /\ cr'[k].reconciled = cr[k].reconciled
             /\ cr[k] = NoCR => cr'[k] = NoCR
IsGarbage(o) == cr[o.kind].uid # o.uid

Keeps(k) == SameCR(k) /\ \/ TheWorkload(k)' = TheWorkload(k)
                         \/ TheWorkload(k)' = NoObject /\ IsGarbage(TheWorkload(k))
Deletes(k) == pc[k] = "delete" /\ cr'[k] = Deleted(cr[k]) /\ TheWorkload(k)' = TheWorkload(k)
Finalizes(k) == cr[k].phase = "deleting" /\ cr'[k] = NoCR /\ TheWorkload(k)' = NoObject
Reconciles(k) == /\ cr[k].phase = "present"
                 /\ cr'[k].phase = "present" /\ cr'[k].uid = cr[k].uid /\ cr'[k].reconciled = "yes"
                 /\ TheWorkload(k)' = IF TheWorkload(k) = NoObject THEN Owned(k) ELSE TheWorkload(k)
Creates(k) == cr[k] = NoCR /\ cr'[k] = NewCR /\ TheWorkload(k)' = TheWorkload(k)

Effect(k) == Keeps(k) \/ Deletes(k) \/ Finalizes(k) \/ Reconciles(k) \/ Creates(k)

\* Where neither changes there is nothing to be said.
LEMMA NoEffect ==
    ASSUME UNCHANGED <<cr, obj, shared>>, NEW k \in Kinds
    PROVE  Keeps(k)
BY DEF Keeps, SameCR, TheWorkload, Namespace

\* The names of the workloads are no others'.
LEMMA WorkloadNames ==
    /\ \A k \in Kinds : Workload(k) \in Names /\ Workload(k) \in Managed(k)
    /\ \A j \in Kinds, k \in Kinds : j # k => Workload(k) # Workload(j) /\ Workload(k) \notin Managed(j)
    /\ \A k \in Kinds : Workload(k) \notin {"admin-password", "cluster-registration-secret", "central-db",
                                            "scanner-v4-db"}
BY DEF Kinds, Workload, Names, Managed

\* A goroutine keeps the other component's custom resource and every workload.
LEMMA TeardownEffect ==
    ASSUME TypeInv, Control, NEW j \in Kinds, Teardown(j), NEW k \in Kinds
    PROVE  Keeps(k) \/ (k = j /\ Deletes(k))
<1>1. /\ obj \in [Namespaces -> [Names -> Objects]] /\ cr \in [Kinds -> CRs] /\ Namespace(j) \in Namespaces
      /\ Namespace(k) \in Namespaces
  BY TypeParts, NamespaceOfKind DEF ClusterType
<1>2. UNCHANGED shared /\ Namespace(k)' = Namespace(k) /\ \A i \in Kinds : i # j => cr'[i] = cr[i]
  BY TeardownShrinks DEF Namespace
<1>3. TheWorkload(k)' = TheWorkload(k)
  <2>1. CASE UNCHANGED obj
    BY <1>2, <2>1 DEF TheWorkload
  <2>2. CASE DeleteResource(j) /\ obj' # obj
    <3>1. pc[j] \in {"resource", "owned"}
      BY <2>2 DEF DeleteResource
    <3>2. at[j] \in 1 .. Len(ResourcesToDelete(j))
      BY <3>1, AtAResource
    <3>3. ResourcesToDelete(j)[at[j]] \in {"admin-password", "cluster-registration-secret", "central-db",
                                           "scanner-v4-db"}
      BY <3>2 DEF ResourcesToDelete, Kinds
    <3>4. obj' = [obj EXCEPT ![Namespace(j)][ResourcesToDelete(j)[at[j]]] = NoObject]
      BY <2>2 DEF DeleteResource
    <3>5. Workload(k) # ResourcesToDelete(j)[at[j]]
      BY <3>3, WorkloadNames
    <3> QED BY <1>1, <1>2, <3>4, <3>5, WorkloadNames DEF TheWorkload
  <2> QED BY <2>1, <2>2 DEF Teardown, CheckNamespace, DoesResourceExist, AddPauseReconcileAnnotation, RetrieveCR,
                            RemovePauseReconcileAnnotation, DeleteCR, DeleteCRWait, CheckOwner, cluster
<1>4. CASE k # j
  BY <1>2, <1>3, <1>4 DEF Keeps, SameCR
<1>5. CASE k = j
  <2>1. \/ UNCHANGED cr
        \/ cr[k] # NoCR /\ (cr' = [cr EXCEPT ![k].paused = "yes"] \/ cr' = [cr EXCEPT ![k].paused = "no"])
        \/ pc[k] = "delete" /\ cr' = [cr EXCEPT ![k] = Deleted(@)]
    BY <1>5 DEF Teardown, CheckNamespace, DoesResourceExist, AddPauseReconcileAnnotation, RetrieveCR,
           RemovePauseReconcileAnnotation, DeleteCR, DeleteCRWait, CheckOwner, DeleteResource, cluster
  <2>2. SameCR(k) \/ (pc[k] = "delete" /\ cr'[k] = Deleted(cr[k]))
    BY <1>1, <2>1 DEF SameCR, CRs
  <2> QED BY <1>3, <1>5, <2>2 DEF Keeps, Deletes
<1> QED BY <1>4, <1>5

\* So does every other step, but the operator's and the one that applies the custom resource.
LEMMA StepEffect ==
    ASSUME TypeInv, Control, [Next]_vars, NEW k \in Kinds
    PROVE  Effect(k)
<1>1. /\ obj \in [Namespaces -> [Names -> Objects]] /\ cr \in [Kinds -> CRs]
      /\ \A j \in Kinds : Namespace(j) \in Namespaces
  BY TypeParts, NamespaceOfKind DEF ClusterType
<1>2. ASSUME UNCHANGED <<cr, obj, shared>> PROVE Effect(k)
  BY <1>2, NoEffect DEF Effect
<1>3. ASSUME UNCHANGED <<obj, shared>> PROVE TheWorkload(k)' = TheWorkload(k)
  BY <1>3 DEF TheWorkload, Namespace
<1>4. CASE Start \/ Killed \/ ContextExpires \/ TeardownJoins \/ TeardownOperator \/ ForgetManifest
           \/ DeployOperator \/ RecordManifest \/ UNCHANGED vars
  BY <1>2, <1>4 DEF Start, StartDeploy, StartTeardown, Killed, ContextExpires, TeardownJoins, TeardownOperator,
         ForgetManifest, DeployOperator, RecordManifest, vars, cluster
<1>5. ASSUME NEW from, NEW to, NEW j, StartComponent(from, to, j) \/ ComponentTornDown(from, to, j)
                                      \/ WaitForComponentReady(from, to, j)
      PROVE  Effect(k)
  BY <1>2, <1>5 DEF StartComponent, ComponentTornDown, WaitForComponentReady, cluster
<1>6. CASE CreateAdminPasswordSecret \/ GenerateAndApplyCRS
  <2>1. CASE UNCHANGED <<cr, obj, shared>>
    BY <1>2, <2>1
  <2>2. ASSUME NEW j \in Kinds, NEW n \in {"admin-password", "cluster-registration-secret"}, NEW o,
               obj' = [obj EXCEPT ![Namespace(j)][n] = o], UNCHANGED <<cr, shared>>
        PROVE  Effect(k)
    <3>1. TheWorkload(k)' = TheWorkload(k)
      BY <1>1, <2>2, WorkloadNames DEF TheWorkload, Namespace
    <3> QED BY <2>2, <3>1 DEF Effect, Keeps, SameCR
  <2>3. CASE CreateAdminPasswordSecret /\ obj' # obj
    BY <2>2, <2>3 DEF CreateAdminPasswordSecret, Kinds
  <2>4. CASE GenerateAndApplyCRS /\ obj' # obj
    BY <2>2, <2>4 DEF GenerateAndApplyCRS, Kinds
  <2>5. UNCHANGED <<cr, shared>>
    BY <1>6 DEF CreateAdminPasswordSecret, GenerateAndApplyCRS
  <2> QED BY <1>6, <2>1, <2>3, <2>4, <2>5
<1>7. ASSUME NEW from, NEW to, NEW j \in Kinds, PauseReconciliation(from, to, j) PROVE Effect(k)
  <2>1. UNCHANGED <<obj, shared>> /\ (UNCHANGED cr \/ (cr[j] # NoCR /\ cr' = [cr EXCEPT ![j].paused = "yes"]))
    BY <1>7 DEF PauseReconciliation
  <2>2. SameCR(k)
    <3>1. CASE cr'[k] = cr[k]
      BY <3>1 DEF SameCR
    <3>2. CASE k = j /\ cr[k] # NoCR /\ cr' = [cr EXCEPT ![k].paused = "yes"]
      BY <1>1, <3>2 DEF SameCR, CRs
    <3> QED BY <1>1, <2>1, <3>1, <3>2
  <2> QED BY <1>3, <2>1, <2>2 DEF Effect, Keeps
<1>8. ASSUME NEW from, NEW to, NEW j \in Kinds, ApplyCR(from, to, j) PROVE Effect(k)
  <2>1. UNCHANGED <<obj, shared>> /\ (UNCHANGED cr \/ cr' = [cr EXCEPT ![j] = IF @ = NoCR THEN NewCR ELSE @])
    BY <1>8 DEF ApplyCR
  <2>2. cr'[k] = cr[k] \/ (cr[k] = NoCR /\ cr'[k] = NewCR)
    BY <1>1, <2>1
  <2> QED BY <1>3, <2>1, <2>2 DEF Effect, Keeps, Creates, SameCR
<1>9. CASE DeployCentral
  BY <1>5, <1>6, <1>7, <1>8, <1>9 DEF DeployCentral, Kinds
<1>10. CASE DeploySecuredCluster
  BY <1>5, <1>6, <1>7, <1>8, <1>10 DEF DeploySecuredCluster, Kinds
<1>11. ASSUME NEW j \in Kinds, OperatorReconciles(j) PROVE Effect(k)
  <2>1. /\ cr' = [cr EXCEPT ![j].reconciled = "yes"] /\ UNCHANGED shared /\ cr[j].phase = "present"
        /\ obj' = [obj EXCEPT ![Namespace(j)] =
                     [n \in Names |-> IF n \in Managed(j) /\ @[n] = NoObject THEN Owned(j) ELSE @[n]]]
    BY <1>11 DEF OperatorReconciles
  <2>2. Namespace(k)' = Namespace(k)
    BY <2>1 DEF Namespace
  <2>3. CASE j = k
    <3>1. /\ cr'[k].phase = "present" /\ cr'[k].uid = cr[k].uid /\ cr'[k].reconciled = "yes"
      BY <1>1, <2>1, <2>3 DEF CRs
    <3>2. TheWorkload(k)' = IF TheWorkload(k) = NoObject THEN Owned(k) ELSE TheWorkload(k)
      BY <1>1, <2>1, <2>2, <2>3, WorkloadNames DEF TheWorkload
    <3> QED BY <2>1, <2>3, <3>1, <3>2 DEF Effect, Reconciles
  <2>4. CASE j # k
    <3>1. TheWorkload(k)' = TheWorkload(k)
      <4>1. Workload(k) \in Names /\ Workload(k) \notin Managed(j)
        BY <2>4, WorkloadNames
      <4> QED BY <1>1, <2>1, <2>2, <4>1 DEF TheWorkload
    <3>2. cr'[k] = cr[k]
      BY <1>1, <2>1, <2>4
    <3> QED BY <3>1, <3>2 DEF Effect, Keeps, SameCR
  <2> QED BY <2>3, <2>4
<1>12. ASSUME NEW j \in Kinds, OperatorFinalizes(j) PROVE Effect(k)
  <2>1. /\ cr' = [cr EXCEPT ![j] = NoCR] /\ UNCHANGED shared /\ cr[j].phase = "deleting"
        /\ obj' = [obj EXCEPT ![Namespace(j)][Workload(j)] = NoObject]
    BY <1>12 DEF OperatorFinalizes
  <2>2. Namespace(k)' = Namespace(k)
    BY <2>1 DEF Namespace
  <2>3. CASE j = k
    <3>1. TheWorkload(k)' = NoObject /\ cr'[k] = NoCR
      BY <1>1, <2>1, <2>2, <2>3, WorkloadNames DEF TheWorkload
    <3> QED BY <2>1, <2>3, <3>1 DEF Effect, Finalizes
  <2>4. CASE j # k
    <3>1. TheWorkload(k)' = TheWorkload(k) /\ cr'[k] = cr[k]
      BY <1>1, <2>1, <2>2, <2>4, WorkloadNames DEF TheWorkload
    <3> QED BY <3>1 DEF Effect, Keeps, SameCR
  <2> QED BY <2>3, <2>4
<1>13. ASSUME NEW ns \in Namespaces, NEW n \in Names, GarbageCollected(ns, n) PROVE Effect(k)
  <2>1. /\ UNCHANGED <<cr, shared>> /\ obj' = [obj EXCEPT ![ns][n] = NoObject] /\ IsGarbage(obj[ns][n])
    BY <1>13 DEF GarbageCollected, IsGarbage
  <2>2. Namespace(k)' = Namespace(k)
    BY <2>1 DEF Namespace
  <2>3. CASE ns = Namespace(k) /\ n = Workload(k)
    <3>1. TheWorkload(k)' = NoObject /\ IsGarbage(TheWorkload(k))
      BY <1>1, <2>1, <2>2, <2>3 DEF TheWorkload
    <3> QED BY <2>1, <3>1 DEF Effect, Keeps, SameCR
  <2>4. CASE ~(ns = Namespace(k) /\ n = Workload(k))
    <3>1. TheWorkload(k)' = TheWorkload(k)
      BY <1>1, <2>1, <2>2, <2>4, WorkloadNames DEF TheWorkload
    <3> QED BY <2>1, <3>1 DEF Effect, Keeps, SameCR
  <2> QED BY <2>3, <2>4
<1>14. ASSUME NEW j \in Kinds, Teardown(j) PROVE Effect(k)
  BY <1>14, TeardownEffect DEF Effect
<1> QED
  BY <1>4, <1>6, <1>9, <1>10, <1>11, <1>12, <1>13, <1>14 DEF Next, RoxieStep, ClusterStep

\* A workload stays its custom resource's.
LEMMA WorkloadNext ==
    ASSUME TypeInv, Control, [Next]_vars, NEW k \in Kinds, WorkloadOwned(k)
    PROVE  WorkloadOwned(k)'
<1>1. /\ NoObject = [kind |-> "none", uid |-> 0] /\ cr[k] \in CRs
      /\ Owned(k)' = [kind |-> k, uid |-> cr'[k].uid] /\ Owned(k) = [kind |-> k, uid |-> cr[k].uid]
  BY TypeParts DEF ClusterType, NoObject, Owned
<1>2. CASE Keeps(k)
  BY <1>1, <1>2 DEF WorkloadOwned, Keeps, SameCR
<1>3. CASE Deletes(k)
  <2>1. cr[k].reconciled = "yes" => cr'[k].uid = cr[k].uid /\ cr'[k].reconciled = "yes"
    BY <1>1, <1>3 DEF Deletes, Deleted, CRs
  <2> QED BY <1>1, <1>3, <2>1 DEF WorkloadOwned, Deletes
<1>4. CASE Finalizes(k)
  BY <1>4 DEF WorkloadOwned, Finalizes
<1>5. CASE Reconciles(k)
  BY <1>1, <1>5 DEF WorkloadOwned, Reconciles
<1>6. CASE Creates(k)
  BY <1>6 DEF WorkloadOwned, Creates, NoCR
<1> QED BY <1>2, <1>3, <1>4, <1>5, <1>6, StepEffect DEF Effect

----------------------------------------------------------------------------
(* How a command gets on *)

\* A deploy that is past its first steps has got there by one of these.
LEMMA DeployMoves ==
    ASSUME Control, [Next]_vars, main' \in WithSecret \/ Succeeded("deploy")'
    PROVE  /\ UNCHANGED <<cmd, comps, deploy>> /\ (ctx' = "live" => ctx = "live")
           /\ \/ UNCHANGED <<main, result, password, manifest>> /\ (UNCHANGED ctx \/ main # "idle")
              \/ RecordManifest
              \/ main = "operator" /\ main' = AfterOperator
              \/ CreateAdminPasswordSecret /\ main' = "centralCR"
              \/ /\ UNCHANGED <<password, manifest>>
                 /\ \/ ApplyCR("centralCR", "centralReady", "Central") /\ main' = "centralReady"
                    \/ WaitForComponentReady("centralReady", "centralPause", "Central") /\ main' = "centralPause"
                    \/ main = "centralPause" /\ main' = AfterCentral
                    \/ main = "sensorStart" /\ main' = "sensorTeardown"
                    \/ main = "sensorTeardown" /\ main' = "crs"
                    \/ main = "crs" /\ main' = "sensorCR"
                    \/ ApplyCR("sensorCR", "sensorReady", "SecuredCluster") /\ main' = "sensorReady"
                    \/ WaitForComponentReady("sensorReady", "sensorPause", "SecuredCluster") /\ main' = "sensorPause"
                    \/ main = "sensorPause" /\ main' = "record"
<1>1. ~Finish("failed")
  BY DEF Finish, Succeeded, WithSecret, SensorSteps
<1>2. CASE Start
  BY <1>2 DEF Start, StartDeploy, StartTeardown, Succeeded, WithSecret, SensorSteps
<1>3. CASE Killed
  BY <1>1, <1>3 DEF Killed
<1>4. CASE ContextExpires
  BY <1>4 DEF ContextExpires, cluster
<1>5. CASE \E k \in Kinds : Teardown(k)
  BY <1>5 DEF Teardown, CheckNamespace, DoesResourceExist, AddPauseReconcileAnnotation, RetrieveCR,
         RemovePauseReconcileAnnotation, DeleteCR, DeleteCRWait, CheckOwner, DeleteResource, command, cluster
<1>6. CASE ClusterStep \/ UNCHANGED vars
  BY <1>6 DEF ClusterStep, OperatorReconciles, OperatorFinalizes, GarbageCollected, command, vars
<1>7. CASE TeardownJoins \/ TeardownOperator
  BY <1>1, <1>7 DEF TeardownJoins, TeardownOperator, Step, Succeeded, WithSecret, SensorSteps
<1>8. CASE ForgetManifest
  BY <1>8 DEF ForgetManifest, Finish, Control, TeardownSteps, Succeeded, WithSecret, SensorSteps
<1>9. CASE DeployOperator
  BY <1>1, <1>9 DEF DeployOperator, Step
<1>10. CASE RecordManifest
  BY <1>10 DEF RecordManifest, Finish
<1>11. CASE StartComponent("centralStart", "centralTeardown", "Central")
            \/ ComponentTornDown("centralTeardown", "secret", "Central")
  BY <1>11 DEF StartComponent, ComponentTornDown, Step, Succeeded, WithSecret, SensorSteps
<1>12. CASE CreateAdminPasswordSecret
  BY <1>1, <1>12 DEF CreateAdminPasswordSecret, Step
<1>13. ASSUME NEW from, NEW to, NEW k, ApplyCR(from, to, k)
       PROVE  UNCHANGED <<cmd, comps, deploy, ctx, password, manifest>> /\ main = from /\ main' = to
  BY <1>1, <1>13 DEF ApplyCR, Step
<1>14. ASSUME NEW from, NEW to, NEW k, WaitForComponentReady(from, to, k)
       PROVE  UNCHANGED <<cmd, comps, deploy, ctx, password, manifest>> /\ main = from /\ main' = to
  BY <1>1, <1>14 DEF WaitForComponentReady, Step, cluster
<1>15. ASSUME NEW from, NEW to, NEW k, PauseReconciliation(from, to, k)
       PROVE  UNCHANGED <<cmd, comps, deploy, ctx, password, manifest>> /\ main = from /\ main' = to
  BY <1>1, <1>15 DEF PauseReconciliation, Step
<1>16. CASE StartComponent("sensorStart", "sensorTeardown", "SecuredCluster")
            \/ ComponentTornDown("sensorTeardown", "crs", "SecuredCluster")
  BY <1>16 DEF StartComponent, ComponentTornDown, Step, cluster
<1>17. CASE GenerateAndApplyCRS
  BY <1>1, <1>17 DEF GenerateAndApplyCRS, Step
<1>18. CASE DeployCentral
  BY <1>11, <1>12, <1>13, <1>14, <1>15, <1>18 DEF DeployCentral
<1>19. CASE DeploySecuredCluster
  BY <1>13, <1>14, <1>15, <1>16, <1>17, <1>19 DEF DeploySecuredCluster
<1> QED
  BY <1>2, <1>3, <1>4, <1>5, <1>6, <1>7, <1>8, <1>9, <1>10, <1>18, <1>19 DEF Next, RoxieStep

\* What the goroutines and the last steps of a command stand for stays so.
LEMMA ThreadsNext ==
    ASSUME TypeInv, Control, Threads, [Next]_vars
    PROVE  Threads'
<1>1. ASSUME NEW how, Finish(how) PROVE Threads'
  BY <1>1 DEF Finish, Threads
<1>2. ASSUME UNCHANGED <<main, comps, threads>> PROVE Threads'
  BY <1>2 DEF Threads, threads
<1>3. ASSUME NEW label \in DeploySteps \ Sweeping, Step(label) PROVE Threads'
  BY <1>3 DEF Threads, Step, DeploySteps, Sweeping, TeardownSteps
<1>4. CASE Start
  BY <1>4 DEF Start, StartDeploy, StartTeardown, Threads, Includes, Kinds
<1>5. CASE Killed \/ ForgetManifest \/ RecordManifest
  BY <1>1, <1>5 DEF Killed, ForgetManifest, RecordManifest
<1>6. CASE ContextExpires \/ ClusterStep \/ UNCHANGED vars
  BY <1>2, <1>6 DEF ContextExpires, ClusterStep, OperatorReconciles, OperatorFinalizes, GarbageCollected,
                    command, vars, threads
<1>7. CASE TeardownJoins
  BY <1>1, <1>7 DEF TeardownJoins, Joined, Step, Threads, threads, Control
<1>8. CASE TeardownOperator
  BY <1>1, <1>8 DEF TeardownOperator, Step, Threads, threads
<1>9. CASE DeployOperator
  BY <1>1, <1>3, <1>9 DEF DeployOperator, AfterOperator, DeploySteps, Sweeping, TeardownSteps
<1>10. CASE StartComponent("centralStart", "centralTeardown", "Central")
            \/ StartComponent("sensorStart", "sensorTeardown", "SecuredCluster")
  <2>1. /\ \A k \in Kinds : pc[k] = "off"
    BY <1>10 DEF StartComponent, Control, Sweeping, TeardownSteps
  <2> QED BY <1>10, <2>1 DEF StartComponent, StartThreads, Step, Threads, Kinds
<1>11. CASE CreateAdminPasswordSecret \/ GenerateAndApplyCRS
  BY <1>1, <1>3, <1>11 DEF CreateAdminPasswordSecret, GenerateAndApplyCRS, DeploySteps, Sweeping, TeardownSteps
<1>12. ASSUME NEW from, NEW to \in DeploySteps \ Sweeping, NEW k,
              ApplyCR(from, to, k) \/ WaitForComponentReady(from, to, k) \/ PauseReconciliation(from, to, k)
              \/ ComponentTornDown(from, to, k)
       PROVE  Threads'
  BY <1>1, <1>3, <1>12 DEF ApplyCR, WaitForComponentReady, PauseReconciliation, ComponentTornDown
<1>13. CASE DeployCentral
  <2>1. AfterCentral \in DeploySteps \ Sweeping
    BY DEF AfterCentral, DeploySteps, Sweeping, TeardownSteps
  <2> QED BY <1>10, <1>11, <1>12, <1>13, <2>1 DEF DeployCentral, DeploySteps, Sweeping, TeardownSteps
<1>14. CASE DeploySecuredCluster
  BY <1>10, <1>11, <1>12, <1>14 DEF DeploySecuredCluster, DeploySteps, Sweeping, TeardownSteps
<1>15. ASSUME NEW k \in Kinds, Teardown(k) PROVE Threads'
  <2>1. /\ UNCHANGED <<main, comps>> /\ pc[k] \notin {"off", "done"}
        /\ \A j \in Kinds : j # k => pc'[j] = pc[j]
    BY <1>15, TeardownShrinks
       DEF Teardown, CheckNamespace, DoesResourceExist, AddPauseReconcileAnnotation, RetrieveCR,
           RemovePauseReconcileAnnotation, DeleteCR, DeleteCRWait, CheckOwner, DeleteResource, command
  <2> QED BY <2>1 DEF Threads, Kinds
<1> QED
  BY <1>4, <1>5, <1>6, <1>7, <1>8, <1>9, <1>13, <1>14, <1>15 DEF Next, RoxieStep

----------------------------------------------------------------------------
(* Deploy *)

\* After the goroutine of its own component a deploy runs no more of them.
LEMMA ThreadOff ==
    ASSUME Control, Threads, NEW k \in Kinds, main \in WithCR(k) \/ main = "idle" \/ (k = "Central" /\ main \in WithSecret)
    PROVE  pc[k] = "off"
BY DEF Control, Threads, WithCR, WithSecret, SensorSteps, Sweeping, TeardownSteps, Kinds

\* What a deploy without errors has made stays until the next command.
LEMMA DeliveredNext ==
    ASSUME IndInv, Threads, [Next]_vars, NEW k \in Kinds, WorkloadOwned(k), Delivered(k)
    PROVE  Delivered(k)'
<1> SUFFICES ASSUME k \in Includes(comps)', Clean(deploy)'
             PROVE  /\ main' \in WithCR(k) \/ Succeeded("deploy")' => cr'[k].phase = "present" /\ cr'[k].uid = deploy'
                    /\ main' \in WithWorkload(k) \/ Succeeded("deploy")' => TheWorkload(k)' # NoObject
  BY DEF Delivered
<1>1. TypeInv /\ Control
  BY DEF IndInv
<1>2. SUFFICES ASSUME main' \in WithCR(k) \/ Succeeded("deploy")'
               PROVE  /\ cr'[k].phase = "present" /\ cr'[k].uid = deploy'
                      /\ main' \in WithWorkload(k) \/ Succeeded("deploy")' => TheWorkload(k)' # NoObject
  BY DEF WithWorkload
<1>3. main' \in WithSecret \/ Succeeded("deploy")'
  BY <1>2 DEF WithCR, WithSecret, SensorSteps
<1>4. UNCHANGED <<cmd, comps, deploy>>
  BY <1>1, <1>3, DeployMoves
<1>5. k \in Includes(comps) /\ Clean(deploy)
  <2>1. \A d : Clean(d)' => Clean(d)
    BY <1>1, FaultsStay
  <2>2. Clean(deploy)
    BY <1>4, <2>1 DEF Clean
  <2> QED BY <1>4, <2>2 DEF Includes
<1>6. \/ main \in WithCR(k) \/ Succeeded("deploy")
      \/ /\ main = IF k = "Central" THEN "centralCR" ELSE "sensorCR"
         /\ main' = IF k = "Central" THEN "centralReady" ELSE "sensorReady"
         /\ ctx = "live" /\ cr' = [cr EXCEPT ![k] = IF @ = NoCR THEN NewCR ELSE @]
  <2>1. CASE UNCHANGED <<main, result>>
    BY <1>2, <1>4, <2>1 DEF Succeeded
  <2>2. CASE RecordManifest
    BY <2>2 DEF RecordManifest, WithCR, WithSecret
  <2>3. CASE main = "operator" /\ main' = AfterOperator
    BY <1>2, <1>5, <2>3 DEF AfterOperator, Includes, Succeeded, WithCR, WithSecret, SensorSteps, Kinds
  <2>4. CASE main' = "centralCR"
    BY <1>2, <2>4 DEF Succeeded, WithCR, WithSecret, SensorSteps
  <2>5. CASE ApplyCR("centralCR", "centralReady", "Central") /\ main' = "centralReady"
    <3>1. k = "Central"
      BY <1>2, <2>5 DEF Succeeded, WithCR
    <3> QED BY <2>5, <3>1 DEF ApplyCR, CallWorks, Finish
  <2>6. CASE \/ WaitForComponentReady("centralReady", "centralPause", "Central") /\ main' = "centralPause"
             \/ WaitForComponentReady("sensorReady", "sensorPause", "SecuredCluster") /\ main' = "sensorPause"
    BY <1>2, <2>6 DEF WaitForComponentReady, Succeeded, WithCR, WithSecret, SensorSteps, Kinds
  <2>7. CASE main = "centralPause" /\ main' = AfterCentral
    BY <1>2, <1>5, <2>7 DEF AfterCentral, Succeeded, WithCR, WithSecret, SensorSteps, Includes, Kinds
  <2>8. CASE \/ main = "sensorStart" /\ main' = "sensorTeardown"
             \/ main = "sensorTeardown" /\ main' = "crs"
             \/ main = "crs" /\ main' = "sensorCR"
             \/ main = "sensorPause" /\ main' = "record"
    BY <1>2, <2>8 DEF Succeeded, WithCR, WithSecret, SensorSteps, Kinds
  <2>9. CASE ApplyCR("sensorCR", "sensorReady", "SecuredCluster") /\ main' = "sensorReady"
    <3>1. CASE k = "Central"
      BY <2>9, <3>1 DEF ApplyCR, WithCR, WithSecret, SensorSteps
    <3>2. CASE k = "SecuredCluster"
      BY <2>9, <3>2 DEF ApplyCR, CallWorks, Finish
    <3> QED BY <3>1, <3>2 DEF Kinds
  <2> QED BY <1>1, <1>3, <2>1, <2>2, <2>3, <2>4, <2>5, <2>6, <2>7, <2>8, <2>9, DeployMoves
<1>7. CASE main \in WithCR(k) \/ Succeeded("deploy")
  <2>1. cr[k].phase = "present" /\ cr[k].uid = deploy
    BY <1>5, <1>7 DEF Delivered
  <2>2. pc[k] = "off"
    BY <1>1, <1>7, ThreadOff DEF Succeeded
  <2>3. Keeps(k) \/ Reconciles(k)
    BY <1>1, <2>1, <2>2, StepEffect DEF Effect, Deletes, Finalizes, Creates, NoCR
  <2>4. cr'[k].phase = "present" /\ cr'[k].uid = deploy'
    BY <1>4, <2>1, <2>3 DEF Keeps, SameCR, Reconciles
  <2>5. ASSUME TheWorkload(k) # NoObject PROVE TheWorkload(k)' # NoObject
    <3>1. ~IsGarbage(TheWorkload(k))
      BY <2>5 DEF WorkloadOwned, IsGarbage, Owned
    <3> QED BY <2>3, <2>5, <3>1 DEF Keeps, Reconciles
  <2>6. ASSUME main' \in WithWorkload(k) \/ Succeeded("deploy")' PROVE TheWorkload(k) # NoObject
    <3>1. CASE main \in WithWorkload(k) \/ Succeeded("deploy")
      BY <1>5, <3>1 DEF Delivered
    <3>2. CASE main = IF k = "Central" THEN "centralReady" ELSE "sensorReady"
      <4>1. \/ k = "Central" /\ WaitForComponentReady("centralReady", "centralPause", "Central")
            \/ k = "SecuredCluster" /\ WaitForComponentReady("sensorReady", "sensorPause", "SecuredCluster")
        BY <1>1, <1>3, <2>6, <3>2, DeployMoves
           DEF WithWorkload, Succeeded, RecordManifest, ApplyCR, Kinds, CreateAdminPasswordSecret,
               WaitForComponentReady
      <4>2. ~Finish("failed")
        BY <1>3 DEF Finish, Succeeded, WithSecret, SensorSteps
      <4> QED BY <4>1, <4>2 DEF WaitForComponentReady, TheWorkload
    <3> QED BY <1>7, <3>1, <3>2 DEF WithWorkload
  <2> QED BY <2>4, <2>5, <2>6
<1>8. CASE /\ main = IF k = "Central" THEN "centralCR" ELSE "sensorCR"
           /\ main' = IF k = "Central" THEN "centralReady" ELSE "sensorReady"
           /\ ctx = "live" /\ cr' = [cr EXCEPT ![k] = IF @ = NoCR THEN NewCR ELSE @]
  <2>1. cmd = "deploy" /\ Unharmed
    BY <1>1, <1>5, <1>8 DEF Control, DeploySteps, Unharmed
  <2>2. cr[k] = NoCR
    BY <1>8, <2>1 DEF IndInv, Cleared
  <2>3. cr'[k] = NewCR
    BY <1>1, <1>8, <2>2, TypeParts DEF ClusterType
  <2> QED BY <1>4, <1>8, <2>3 DEF NewCR, WithWorkload, Succeeded
<1> QED BY <1>6, <1>7, <1>8

\* Only its own goroutine and the command that writes it touch Central's password.
LEMMA PasswordStands ==
    ASSUME TypeInv, Control, [Next]_vars, pc["Central"] = "off", main # "secret"
    PROVE  AdminPassword' = AdminPassword
<1>1. /\ obj \in [Namespaces -> [Names -> Objects]] /\ \A j \in Kinds : Namespace(j) \in Namespaces
      /\ "Central" \in Kinds
  BY TypeParts, NamespaceOfKind DEF ClusterType, Kinds
<1>2. ASSUME UNCHANGED <<obj, shared>> PROVE AdminPassword' = AdminPassword
  BY <1>2 DEF AdminPassword, Namespace
<1>3. ASSUME NEW ns \in Namespaces, NEW n \in Names, NEW o, n # "admin-password", UNCHANGED shared,
             obj' = [obj EXCEPT ![ns][n] = o]
      PROVE  AdminPassword' = AdminPassword
  <2>1. Namespace("Central")' = Namespace("Central") /\ Namespace("Central") \in Namespaces
    BY <1>1, <1>3 DEF Namespace
  <2> QED BY <1>1, <1>3, <2>1 DEF AdminPassword, Names
<1>4. CASE Start \/ Killed \/ ContextExpires \/ TeardownJoins \/ TeardownOperator \/ ForgetManifest
           \/ DeployOperator \/ RecordManifest \/ UNCHANGED vars
  BY <1>2, <1>4 DEF Start, StartDeploy, StartTeardown, Killed, ContextExpires, TeardownJoins, TeardownOperator,
         ForgetManifest, DeployOperator, RecordManifest, vars, cluster
<1>5. ASSUME NEW from, NEW to, NEW j,
             \/ StartComponent(from, to, j) \/ ComponentTornDown(from, to, j) \/ WaitForComponentReady(from, to, j)
             \/ ApplyCR(from, to, j) \/ PauseReconciliation(from, to, j)
      PROVE  AdminPassword' = AdminPassword
  BY <1>2, <1>5 DEF StartComponent, ComponentTornDown, WaitForComponentReady, ApplyCR, PauseReconciliation, cluster
<1>6. ~CreateAdminPasswordSecret
  BY DEF CreateAdminPasswordSecret
<1>7. CASE GenerateAndApplyCRS
  <2>1. UNCHANGED shared
    BY <1>7 DEF GenerateAndApplyCRS
  <2>2. \/ UNCHANGED obj
        \/ obj' = [obj EXCEPT ![Namespace("SecuredCluster")]["cluster-registration-secret"] = Mine("SecuredCluster")]
    BY <1>7 DEF GenerateAndApplyCRS
  <2> QED BY <1>1, <1>2, <1>3, <2>1, <2>2 DEF Kinds, Names
<1>8. CASE DeployCentral \/ DeploySecuredCluster
  BY <1>5, <1>6, <1>7, <1>8 DEF DeployCentral, DeploySecuredCluster
<1>9. ASSUME NEW k \in Kinds, Teardown(k) PROVE AdminPassword' = AdminPassword
  <2>1. k = "SecuredCluster" /\ UNCHANGED shared
    BY <1>9, TeardownShrinks DEF Kinds, Teardown, CheckNamespace, DoesResourceExist, AddPauseReconcileAnnotation,
           RetrieveCR, RemovePauseReconcileAnnotation, DeleteCR, DeleteCRWait, CheckOwner, DeleteResource
  <2>2. CASE UNCHANGED obj
    BY <1>2, <2>1, <2>2
  <2>3. CASE DeleteResource(k) /\ obj' # obj
    <3>1. pc[k] \in {"resource", "owned"} /\ obj' = [obj EXCEPT ![Namespace(k)][ResourcesToDelete(k)[at[k]]] = NoObject]
      BY <2>3 DEF DeleteResource
    <3>2. at[k] \in 1 .. Len(ResourcesToDelete(k))
      BY <3>1, AtAResource
    <3>3. ResourcesToDelete(k)[at[k]] \in {"cluster-registration-secret", "scanner-v4-db"}
      BY <2>1, <3>2 DEF ResourcesToDelete
    <3> QED BY <1>1, <1>3, <2>1, <3>1, <3>3 DEF Names
  <2> QED BY <1>9, <2>2, <2>3 DEF Teardown, CheckNamespace, DoesResourceExist, AddPauseReconcileAnnotation, RetrieveCR,
                            RemovePauseReconcileAnnotation, DeleteCR, DeleteCRWait, CheckOwner, cluster
<1>10. ASSUME NEW k \in Kinds, OperatorReconciles(k) PROVE AdminPassword' = AdminPassword
  <2>1. /\ UNCHANGED shared
        /\ obj' = [obj EXCEPT ![Namespace(k)] =
                     [n \in Names |-> IF n \in Managed(k) /\ @[n] = NoObject THEN Owned(k) ELSE @[n]]]
    BY <1>10 DEF OperatorReconciles
  <2>2. "admin-password" \in Names /\ "admin-password" \notin Managed(k)
    BY DEF Names, Managed
  <2>3. Namespace("Central")' = Namespace("Central") /\ Namespace("Central") \in Namespaces
    BY <1>1, <2>1 DEF Namespace
  <2> QED BY <1>1, <2>1, <2>2, <2>3 DEF AdminPassword
<1>11. ASSUME NEW k \in Kinds, OperatorFinalizes(k) PROVE AdminPassword' = AdminPassword
  <2>1. UNCHANGED shared /\ obj' = [obj EXCEPT ![Namespace(k)][Workload(k)] = NoObject]
    BY <1>11 DEF OperatorFinalizes
  <2> QED BY <1>1, <1>3, <2>1, WorkloadNames
<1>12. ASSUME NEW ns \in Namespaces, NEW n \in Names, GarbageCollected(ns, n) PROVE AdminPassword' = AdminPassword
  BY <1>3, <1>12 DEF GarbageCollected, Collectable, OwnerChecked
<1> QED
  BY <1>4, <1>7, <1>8, <1>9, <1>10, <1>11, <1>12 DEF Next, RoxieStep, ClusterStep

\* From the secret to the manifest the password is the command's.
LEMMA PasswordNext ==
    ASSUME IndInv, Threads, [Next]_vars, PasswordKept
    PROVE  PasswordKept'
<1> SUFFICES ASSUME "Central" \in Includes(comps)', main' \in WithSecret \/ Succeeded("deploy")'
             PROVE  /\ main' \in WithSecret => AdminPassword'.uid = password'
                    /\ Succeeded("deploy")' /\ ctx' = "live" /\ Clean(deploy)' => manifest' = AdminPassword'.uid
  BY DEF PasswordKept
<1>1. TypeInv /\ Control
  BY DEF IndInv
<1>2. /\ UNCHANGED <<cmd, comps, deploy>> /\ (ctx' = "live" => ctx = "live")
      /\ "Central" \in Includes(comps)
  <2>1. UNCHANGED <<cmd, comps, deploy>> /\ (ctx' = "live" => ctx = "live")
    BY <1>1, DeployMoves
  <2> QED BY <2>1 DEF Includes
<1>3. Clean(deploy)' => Clean(deploy)
  <2>1. \A d : Clean(d)' => Clean(d)
    BY <1>1, FaultsStay
  <2> QED BY <1>2, <2>1 DEF Clean
<1>4. CASE CreateAdminPasswordSecret /\ main' = "centralCR"
  <2>1. /\ obj' = [obj EXCEPT ![Namespace("Central")]["admin-password"] = [kind |-> "Central", uid |-> password]]
        /\ UNCHANGED <<shared, password>>
    BY <1>4 DEF CreateAdminPasswordSecret, Step, Finish
  <2>2. obj \in [Namespaces -> [Names -> Objects]] /\ Namespace("Central") \in Namespaces
        /\ Namespace("Central")' = Namespace("Central") /\ "admin-password" \in Names
    BY <1>1, <2>1, TypeParts, NamespaceOfKind DEF ClusterType, Namespace, Names, Kinds
  <2>3. AdminPassword'.uid = password'
    BY <2>1, <2>2 DEF AdminPassword
  <2> QED BY <1>4, <2>3 DEF Succeeded
<1>5. CASE (main \in WithSecret \/ Succeeded("deploy")) /\ ~RecordManifest
  <2>1. pc["Central"] = "off" /\ main # "secret"
    BY <1>1, <1>5, ThreadOff DEF Succeeded, WithSecret, SensorSteps, Kinds
  <2>2. AdminPassword' = AdminPassword
    BY <1>1, <2>1, PasswordStands
  <2>3. UNCHANGED <<password, manifest>>
    BY <1>1, <1>5, DeployMoves DEF Succeeded, WithSecret, SensorSteps, CreateAdminPasswordSecret
  <2>4. main' \in WithSecret => main \in WithSecret
    BY <1>1, <1>5, DeployMoves DEF Succeeded, WithSecret, SensorSteps, CreateAdminPasswordSecret, ApplyCR,
         WaitForComponentReady, AfterOperator
  <2>5. Succeeded("deploy")' => Succeeded("deploy")
    BY <1>1, <1>2, <1>5, DeployMoves DEF Succeeded, CreateAdminPasswordSecret, AfterOperator, AfterCentral
  <2> QED BY <1>2, <1>3, <2>2, <2>3, <2>4, <2>5 DEF PasswordKept
<1>6. CASE RecordManifest
  <2>1. main = "record" /\ main' = "idle" /\ UNCHANGED <<cmd, deploy, ctx>> /\ cmd = "deploy"
    BY <1>1, <1>6 DEF RecordManifest, Finish, Control, DeploySteps
  <2>2. AdminPassword'.uid = password
    <3>1. pc["Central"] = "off"
      BY <1>1, <2>1, ThreadOff DEF WithSecret, Kinds
    <3> QED BY <1>1, <1>2, <2>1, <3>1, PasswordStands DEF PasswordKept, WithSecret
  <2>3. ctx' = "live" /\ Clean(deploy)' => manifest' = password
    <3> SUFFICES ASSUME ctx' = "live", Clean(deploy)' PROVE manifest' = password
      OBVIOUS
    <3>1. Unharmed'
      BY <2>1 DEF Unharmed
    <3>2. ~CallFails
      BY <1>1, <2>1, <3>1, FaultHarms
    <3> QED BY <1>6, <3>2 DEF RecordManifest
  <2> QED BY <2>1, <2>2, <2>3 DEF WithSecret, SensorSteps
<1>7. main \notin WithSecret /\ ~Succeeded("deploy") => CreateAdminPasswordSecret /\ main' = "centralCR"
  <2> SUFFICES ASSUME main \notin WithSecret, ~Succeeded("deploy") PROVE CreateAdminPasswordSecret /\ main' = "centralCR"
    OBVIOUS
  <2>1. ~(main = "operator" /\ main' = AfterOperator)
    BY <1>2 DEF AfterOperator, Succeeded, WithSecret, SensorSteps, Includes, Kinds
  <2>2. ~UNCHANGED <<main, result>>
    BY <1>2 DEF Succeeded
  <2> QED BY <1>1, <2>1, <2>2, DeployMoves
        DEF RecordManifest, ApplyCR, WaitForComponentReady, WithSecret, SensorSteps
<1> QED BY <1>4, <1>5, <1>6, <1>7

----------------------------------------------------------------------------
(* Teardown *)

\* Only a deploy makes custom resources.
LEMMA NoneMade ==
    ASSUME TypeInv, Control, [Next]_vars, cmd = "teardown", NEW k \in Kinds, cr[k] = NoCR
    PROVE  cr'[k] = NoCR
<1>1. cr \in [Kinds -> CRs]
  BY TypeParts DEF ClusterType
<1>2. CASE UNCHANGED cr
  BY <1>2
<1>3. ASSUME NEW j \in Kinds, Teardown(j) PROVE cr'[k] = NoCR
  <2>1. Keeps(k) \/ Deletes(k)
    BY <1>3, TeardownEffect
  <2>2. Deleted(NoCR) = NoCR
    BY DEF Deleted, NoCR
  <2> QED BY <2>1, <2>2 DEF Keeps, SameCR, Deletes
<1>4. ASSUME NEW j \in Kinds, OperatorReconciles(j) PROVE cr'[k] = NoCR
  <2>1. j # k /\ cr' = [cr EXCEPT ![j].reconciled = "yes"]
    BY <1>4 DEF OperatorReconciles, NoCR
  <2> QED BY <1>1, <2>1
<1>5. ASSUME NEW j \in Kinds, OperatorFinalizes(j) PROVE cr'[k] = NoCR
  BY <1>1, <1>5 DEF OperatorFinalizes
<1>6. cr' # cr => \E j \in Kinds : Teardown(j) \/ OperatorReconciles(j) \/ OperatorFinalizes(j)
  BY DEF Next, Start, StartDeploy, StartTeardown, Killed, ContextExpires, RoxieStep, TeardownJoins,
         TeardownOperator, ForgetManifest, DeployOperator, DeployCentral, DeploySecuredCluster, RecordManifest,
         StartComponent, ComponentTornDown, CreateAdminPasswordSecret, GenerateAndApplyCRS, ApplyCR,
         WaitForComponentReady, PauseReconciliation, ClusterStep, GarbageCollected, cluster, vars, Control,
         DeploySteps
<1> QED BY <1>2, <1>3, <1>4, <1>5, <1>6

\* During a teardown a component without custom resource gets no objects.
LEMMA NothingNew ==
    ASSUME TypeInv, Control, [Next]_vars, UNCHANGED cmd, cmd = "teardown", NEW k \in Kinds, cr[k] = NoCR,
           NEW n \in Names, ~IsOwnedBy(k, n)
    PROVE  ~IsOwnedBy(k, n)'
<1>1. /\ obj \in [Namespaces -> [Names -> Objects]] /\ cr \in [Kinds -> CRs]
      /\ \A j \in Kinds : Namespace(j) \in Namespaces
  BY TypeParts, NamespaceOfKind DEF ClusterType
<1>2. NoObject.kind # k /\ UNCHANGED shared /\ Namespace(k)' = Namespace(k)
  <2>1. UNCHANGED shared
    BY DEF Next, Start, StartDeploy, StartTeardown, Killed, ContextExpires, RoxieStep, TeardownJoins,
         TeardownOperator, ForgetManifest, DeployOperator, DeployCentral, DeploySecuredCluster, RecordManifest,
         StartComponent, ComponentTornDown, CreateAdminPasswordSecret, GenerateAndApplyCRS, ApplyCR,
         WaitForComponentReady, PauseReconciliation, ClusterStep, OperatorReconciles, OperatorFinalizes,
         GarbageCollected, Teardown, CheckNamespace, DoesResourceExist, AddPauseReconcileAnnotation, RetrieveCR,
         RemovePauseReconcileAnnotation, DeleteCR, DeleteCRWait, CheckOwner, DeleteResource, vars
  <2> QED BY <2>1 DEF NoObject, Kinds, Namespace
<1>3. ASSUME UNCHANGED obj PROVE ~IsOwnedBy(k, n)'
  BY <1>2, <1>3 DEF IsOwnedBy
<1>4. ASSUME Shrinks PROVE ~IsOwnedBy(k, n)'
  BY <1>1, <1>2, <1>4 DEF IsOwnedBy, Shrinks
<1>5. ~IsOwnedBy(k, n)'
  <2>1. ASSUME NEW j \in Kinds, Teardown(j) PROVE ~IsOwnedBy(k, n)'
    BY <1>4, <2>1, TeardownShrinks
  <2>2. ASSUME NEW j \in Kinds, OperatorReconciles(j) PROVE ~IsOwnedBy(k, n)'
    <3>1. j # k
      BY <2>2 DEF OperatorReconciles, NoCR
    <3>2. obj' = [obj EXCEPT ![Namespace(j)] =
                     [m \in Names |-> IF m \in Managed(j) /\ @[m] = NoObject THEN Owned(j) ELSE @[m]]]
      BY <2>2 DEF OperatorReconciles
    <3>3. obj'[Namespace(k)][n] \in {obj[Namespace(k)][n], Owned(j)}
      BY <1>1, <3>2
    <3> QED BY <1>2, <3>1, <3>3 DEF IsOwnedBy, Owned
  <2>3. ASSUME NEW j \in Kinds, OperatorFinalizes(j) PROVE ~IsOwnedBy(k, n)'
    <3>1. obj' = [obj EXCEPT ![Namespace(j)][Workload(j)] = NoObject]
      BY <2>3 DEF OperatorFinalizes
    <3>2. Shrinks
      BY <1>1, <3>1 DEF Shrinks
    <3> QED BY <1>4, <3>2
  <2>4. ASSUME NEW ns \in Namespaces, NEW m \in Names, GarbageCollected(ns, m) PROVE ~IsOwnedBy(k, n)'
    <3>1. obj' = [obj EXCEPT ![ns][m] = NoObject]
      BY <2>4 DEF GarbageCollected
    <3>2. Shrinks
      BY <1>1, <3>1 DEF Shrinks
    <3> QED BY <1>4, <3>2
  <2>5. CASE UNCHANGED obj
    BY <1>3, <2>5
  <2>6. obj' # obj => (\E j \in Kinds : Teardown(j)) \/ ClusterStep
    BY DEF Next, Start, StartDeploy, StartTeardown, Killed, ContextExpires, RoxieStep, TeardownJoins,
         TeardownOperator, ForgetManifest, DeployOperator, DeployCentral, DeploySecuredCluster, RecordManifest,
         StartComponent, ComponentTornDown, CreateAdminPasswordSecret, GenerateAndApplyCRS, ApplyCR,
         WaitForComponentReady, PauseReconciliation, cluster, vars, Control, DeploySteps
  <2> QED BY <2>1, <2>2, <2>3, <2>4, <2>5, <2>6 DEF ClusterStep
<1> QED BY <1>5

\* What has been emptied stays empty.
LEMMA EmptiedStays ==
    ASSUME TypeInv, Control, [Next]_vars, UNCHANGED cmd, cmd = "teardown", NEW k \in Kinds, cr[k] = NoCR,
           NEW n \in 0 .. Len(ResourcesToDelete(k)), Emptied(k, n)
    PROVE  cr'[k] = NoCR /\ Emptied(k, n)'
<1>1. \A i \in 1 .. n : i \in 1 .. Len(ResourcesToDelete(k))
  <2>1. Len(ResourcesToDelete(k)) \in {2, 3}
    BY DEF Kinds, ResourcesToDelete
  <2> QED BY <2>1
<1>2. cr'[k] = NoCR
  BY NoneMade
<1>3. ASSUME NEW i \in 1 .. n PROVE ~IsOwnedBy(k, ResourcesToDelete(k)[i])'
  <2>1. ResourcesToDelete(k)[i] \in Names /\ ~IsOwnedBy(k, ResourcesToDelete(k)[i])
    BY <1>1, <1>3, CheckedIsSecond DEF Emptied
  <2> DEFINE r == ResourcesToDelete(k)[i]
  <2>2. ~IsOwnedBy(k, r)'
    BY <2>1, NothingNew
  <2> QED BY <2>2 DEF IsOwnedBy, ResourcesToDelete
<1> QED BY <1>2, <1>3 DEF Emptied

\* The length of a list, and the steps along it.
LEMMA Lists ==
    ASSUME NEW k \in Kinds
    PROVE  /\ Len(ResourcesToDelete(k)) \in {2, 3}
           /\ DOMAIN ResourcesToDelete(k) = 1 .. Len(ResourcesToDelete(k))
<1>1. CASE k = "Central"
  BY <1>1 DEF ResourcesToDelete
<1>2. CASE k = "SecuredCluster"
  BY <1>2 DEF ResourcesToDelete
<1> QED BY <1>1, <1>2 DEF Kinds

\* The same of the state after a step, where a goroutine may be further on its list.
EmptiedNext(k, n) == \A i \in 1 .. n : obj'[Namespace(k)][ResourcesToDelete(k)[i]].kind # k

\* A goroutine without errors empties its list step by step.
LEMMA EmptiesItsList ==
    ASSUME IndInv, [Next]_vars, NEW k \in Kinds, Teardown(k), cmd = "teardown", Unharmed, Unharmed', TornDown(k)
    PROVE  /\ pc'[k] \in {"resource", "owned"} => EmptiedNext(k, at'[k] - 1)
           /\ pc'[k] = "done" => cr'[k] = NoCR /\ EmptiedNext(k, Len(ResourcesToDelete(k)))
<1> DEFINE L == Len(ResourcesToDelete(k))
           Goal == /\ pc'[k] \in {"resource", "owned"} => EmptiedNext(k, at'[k] - 1)
                   /\ pc'[k] = "done" => cr'[k] = NoCR /\ EmptiedNext(k, L)
<1>1. TypeInv /\ Control /\ Swept(k) /\ Swept(k)'
  BY IndInvTeardown DEF IndInv
<1>2. /\ pc \in [Kinds -> Labels] /\ at \in [Kinds -> 0 .. 3] /\ L \in {2, 3} /\ UNCHANGED cmd
      /\ obj \in [Namespaces -> [Names -> Objects]] /\ Namespace(k) \in Namespaces /\ Namespace(k)' = Namespace(k)
  BY <1>1, TypeParts, NamespaceOfKind, TeardownShrinks, Lists DEF ClusterType, ThreadType, Namespace
<1>3. ~Fault /\ ~CallFails
  BY <1>1, FaultHarms, TeardownShrinks
<1>4. pc'[k] = "done" => cr'[k] = NoCR
  BY <1>1 DEF Swept
<1>5. EmptiedNext(k, 0)
  BY DEF EmptiedNext
<1>6. SUFFICES Goal
  OBVIOUS
<1>7. ASSUME NEW i \in 1 .. L, EmptiedNext(k, i), at[k] = i, NextResource(k) PROVE Goal
  <2>1. CASE i = L /\ End(k, "ok")
    BY <1>2, <1>4, <1>7, <2>1 DEF End
  <2>2. CASE i # L /\ GoToResource(k, i + 1)
    <3>1. at'[k] - 1 = i /\ pc'[k] = "resource"
      BY <1>2, <1>7, <2>2 DEF GoToResource
    <3> QED BY <1>7, <3>1
  <2> QED BY <1>7, <2>1, <2>2 DEF NextResource
<1>8. CASE CheckNamespace(k)
  <2>1. CASE IsEmpty(k) /\ End(k, "ok")
    <3>1. UNCHANGED <<obj, shared>>
      BY <1>8 DEF CheckNamespace, cluster
    <3>2. \A i \in 1 .. L : ~IsOwnedBy(k, ResourcesToDelete(k)[i])
      BY <2>1, CheckedIsSecond DEF IsEmpty, IsOwnedBy, NoObject, Kinds
    <3>3. EmptiedNext(k, L)
      BY <1>2, <3>1, <3>2 DEF EmptiedNext, IsOwnedBy
    <3> QED BY <1>2, <1>4, <2>1, <3>3 DEF End
  <2>2. CASE GoTo(k, "exists")
    BY <1>2, <2>2 DEF GoTo
  <2> QED BY <1>3, <1>8, <2>1, <2>2 DEF CheckNamespace
<1>9. CASE DoesResourceExist(k) \/ AddPauseReconcileAnnotation(k) \/ RemovePauseReconcileAnnotation(k) \/ DeleteCR(k)
  BY <1>2, <1>3, <1>9 DEF DoesResourceExist, AddPauseReconcileAnnotation, RemovePauseReconcileAnnotation, DeleteCR,
                          GoTo
<1>10. CASE RetrieveCR(k) \/ DeleteCRWait(k)
  <2>1. CASE GoTo(k, "unpause")
    BY <1>2, <2>1 DEF GoTo
  <2>2. CASE GoToResource(k, 1)
    <3>1. at'[k] - 1 = 0 /\ pc'[k] = "resource"
      BY <1>2, <2>2 DEF GoToResource
    <3> QED BY <1>5, <3>1
  <2> QED BY <1>3, <1>10, <2>1, <2>2 DEF RetrieveCR, DeleteCRWait
<1>11. ASSUME pc[k] \in {"resource", "owned"}
       PROVE  /\ at[k] \in 1 .. L /\ EmptiedNext(k, at[k] - 1)
              /\ obj'[Namespace(k)][ResourcesToDelete(k)[at[k]]].kind # k => EmptiedNext(k, at[k])
  <2>1. at[k] \in 1 .. L /\ cr[k] = NoCR /\ Emptied(k, at[k] - 1)
    BY <1>1, <1>11, AtAResource DEF TornDown, Swept
  <2> DEFINE n == at[k] - 1
  <2>2. n \in 0 .. L /\ 1 .. at[k] = (1 .. n) \cup {at[k]}
    BY <1>2, <2>1
  <2>3. ASSUME NEW i \in 1 .. n PROVE obj'[Namespace(k)][ResourcesToDelete(k)[i]].kind # k
    <3> DEFINE r == ResourcesToDelete(k)[i]
    <3>1. i \in 1 .. L
      BY <1>2, <2>2
    <3>2. r \in Names /\ ~IsOwnedBy(k, r)
      BY <2>1, <3>1, CheckedIsSecond DEF Emptied
    <3> HIDE DEF r
    <3>3. ~IsOwnedBy(k, r)'
      BY <1>1, <1>2, <2>1, <3>2, NothingNew
    <3>4. obj'[Namespace(k)][r].kind # k
      BY <1>2, <3>3 DEF IsOwnedBy
    <3> QED BY <3>4 DEF r
  <2>4. EmptiedNext(k, n)
    BY <2>3 DEF EmptiedNext
  <2>5. obj'[Namespace(k)][ResourcesToDelete(k)[at[k]]].kind # k => EmptiedNext(k, at[k])
    BY <2>2, <2>3 DEF EmptiedNext
  <2> HIDE DEF n
  <2> QED BY <2>1, <2>4, <2>5 DEF n
<1>12. CASE CheckOwner(k)
  <2> DEFINE r == ResourcesToDelete(k)[at[k]]
  <2>1. pc[k] = "resource" /\ UNCHANGED obj
    BY <1>12 DEF CheckOwner, cluster
  <2>2. CASE GoTo(k, "owned")
    <3>1. at'[k] = at[k] /\ pc'[k] = "owned"
      BY <1>2, <2>2 DEF GoTo
    <3> QED BY <1>11, <2>1, <3>1
  <2>3. CASE ~IsOwnedBy(k, r) /\ NextResource(k)
    <3>1. obj'[Namespace(k)][r].kind # k
      BY <2>1, <2>3 DEF IsOwnedBy
    <3> QED BY <1>7, <1>11, <2>1, <2>3, <3>1
  <2> QED BY <1>3, <1>12, <2>2, <2>3 DEF CheckOwner
<1>13. CASE DeleteResource(k)
  <2> DEFINE r == ResourcesToDelete(k)[at[k]]
  <2>1. pc[k] \in {"resource", "owned"} /\ NextResource(k) /\ obj' = [obj EXCEPT ![Namespace(k)][r] = NoObject]
    BY <1>3, <1>13 DEF DeleteResource
  <2>2. r \in Names
    BY <1>11, <2>1, CheckedIsSecond
  <2>3. obj'[Namespace(k)][r].kind # k
    BY <1>2, <2>1, <2>2 DEF NoObject, Kinds
  <2> QED BY <1>7, <1>11, <2>1, <2>3
<1> QED BY <1>8, <1>9, <1>10, <1>12, <1>13 DEF Teardown

\* A teardown without errors leaves nothing behind, until the next command.
LEMMA TornDownNext ==
    ASSUME IndInv, Threads, [Next]_vars, NEW k \in Kinds, TornDown(k)
    PROVE  TornDown(k)'
<1> DEFINE L == Len(ResourcesToDelete(k))
<1> SUFFICES ASSUME cmd' = "teardown", Unharmed'
             PROVE  /\ pc'[k] \in {"resource", "owned"} => Emptied(k, at[k] - 1)'
                    /\ pc'[k] = "done" \/ (Succeeded("teardown")' /\ k \in Includes(comps)') =>
                         cr'[k] = NoCR /\ Emptied(k, L)'
  BY DEF TornDown, ResourcesToDelete
<1>1. TypeInv /\ Control /\ Swept(k)
  BY DEF IndInv
<1>2. CASE Start
  <2>1. main' # "idle" /\ (UNCHANGED threads \/ \E K : StartThreads(K)) /\ \A j \in Kinds : pc[j] = "off"
    BY <1>1, <1>2 DEF Start, StartDeploy, StartTeardown, Control, Sweeping, TeardownSteps
  <2>2. pc'[k] \notin {"resource", "owned", "done"}
    BY <2>1 DEF StartThreads, threads
  <2> QED BY <2>1, <2>2 DEF Succeeded
<1>3. ASSUME ~Start
      PROVE  cmd = "teardown" /\ UNCHANGED <<cmd, comps, deploy, shared>> /\ (ctx' = "live" => ctx = "live")
  BY <1>3 DEF Next, Start, StartDeploy, StartTeardown, Killed, ContextExpires, RoxieStep, TeardownJoins,
         TeardownOperator, ForgetManifest, DeployOperator, DeployCentral, DeploySecuredCluster, RecordManifest,
         StartComponent, ComponentTornDown, CreateAdminPasswordSecret, GenerateAndApplyCRS, ApplyCR,
         WaitForComponentReady, PauseReconciliation, ClusterStep, OperatorReconciles, OperatorFinalizes,
         GarbageCollected, Teardown, CheckNamespace, DoesResourceExist, AddPauseReconcileAnnotation, RetrieveCR,
         RemovePauseReconcileAnnotation, DeleteCR, DeleteCRWait, CheckOwner, DeleteResource, vars, command, Finish,
         Step
<1>4. ASSUME ~Start PROVE Unharmed
  BY <1>1, <1>3, <1>4, HarmStays
<1>5. ASSUME ~Start, cr[k] = NoCR, NEW n \in 0 .. L, Emptied(k, n) PROVE cr'[k] = NoCR /\ Emptied(k, n)'
  BY <1>1, <1>3, <1>5, EmptiedStays
<1>6. L \in {2, 3} /\ at \in [Kinds -> 0 .. 3] /\ pc \in [Kinds -> Labels]
  BY <1>1, TypeParts, Lists DEF ThreadType
<1>7. ASSUME ~Start, pc[k] = "done" PROVE cr'[k] = NoCR /\ Emptied(k, L)'
  <2>1. cr[k] = NoCR /\ Emptied(k, L) /\ L \in 0 .. L
    BY <1>3, <1>4, <1>6, <1>7 DEF TornDown
  <2> QED BY <1>5, <1>7, <2>1
<1>8. ASSUME ~Start, pc'[k] = pc[k], at'[k] = at[k], pc[k] \in {"resource", "owned"}
      PROVE  Emptied(k, at[k] - 1)'
  <2>1. cr[k] = NoCR /\ Emptied(k, at[k] - 1) /\ at[k] - 1 \in 0 .. L
    <3>1. at[k] \in 1 .. L
      BY <1>1, <1>8, AtAResource
    <3>2. at[k] - 1 \in 0 .. L
      BY <1>6, <3>1
    <3> QED BY <1>1, <1>3, <1>4, <1>8, <3>2 DEF TornDown, Swept
  <2> DEFINE n == at[k] - 1
  <2>2. n' = n
    BY <1>8
  <2>3. \A i \in 1 .. n : ~IsOwnedBy(k, ResourcesToDelete(k)[i])'
    <3> HIDE DEF n
    <3>1. n \in 0 .. L /\ Emptied(k, n)
      BY <2>1 DEF n
    <3>2. \A m \in 0 .. L : Emptied(k, m) => \A i \in 1 .. m : ~IsOwnedBy(k, ResourcesToDelete(k)[i])'
      BY <1>5, <1>8, <2>1 DEF Emptied
    <3> QED BY <3>1, <3>2
  <2> QED BY <2>2, <2>3 DEF Emptied
<1>9. ASSUME Teardown(k), ~Start
      PROVE  /\ pc'[k] \in {"resource", "owned"} => Emptied(k, at[k] - 1)'
             /\ pc'[k] = "done" => cr'[k] = NoCR /\ Emptied(k, L)'
             /\ main' # "idle"
  <2>1. main' # "idle" /\ Namespace(k)' = Namespace(k)
    BY <1>1, <1>9, ThreadsWhileSweeping, TeardownShrinks DEF Sweeping, TeardownSteps, Namespace
  <2>2. \A n : EmptiedNext(k, n) => \A i \in 1 .. n : ~IsOwnedBy(k, ResourcesToDelete(k)[i])'
    BY <2>1 DEF EmptiedNext, IsOwnedBy
  <2>3. /\ pc'[k] \in {"resource", "owned"} => EmptiedNext(k, at'[k] - 1)
        /\ pc'[k] = "done" => cr'[k] = NoCR /\ EmptiedNext(k, L)
    BY <1>3, <1>4, <1>9, EmptiesItsList
  <2>4. EmptiedNext(k, L) => Emptied(k, L)'
    BY <2>2 DEF Emptied
  <2>5. EmptiedNext(k, at'[k] - 1) => Emptied(k, at[k] - 1)'
    BY <2>2 DEF Emptied
  <2> QED BY <2>1, <2>3, <2>4, <2>5
<1>10. ASSUME ~Start, ~Teardown(k)
       PROVE  pc'[k] = "off" \/ (pc'[k] = pc[k] /\ at'[k] = at[k])
  <2>1. cmd # "deploy"
    BY <1>3, <1>10
  <2>2. CASE \E j \in Kinds : Teardown(j)
    BY <1>10, <2>2, TeardownShrinks, <1>1
  <2>3. ~DeployOperator /\ ~DeployCentral /\ ~DeploySecuredCluster /\ ~RecordManifest
    BY <1>1, <2>1 DEF Control, DeploySteps, DeployOperator, DeployCentral, DeploySecuredCluster, RecordManifest,
         StartComponent, ComponentTornDown, CreateAdminPasswordSecret, GenerateAndApplyCRS, ApplyCR,
         WaitForComponentReady, PauseReconciliation
  <2>4. UNCHANGED threads \/ StopThreads \/ \E j \in Kinds : Teardown(j)
    BY <1>10, <2>3 DEF Next, Killed, ContextExpires, RoxieStep, TeardownJoins, TeardownOperator, ForgetManifest,
         ClusterStep, OperatorReconciles, OperatorFinalizes, GarbageCollected, vars, threads, Finish
  <2> QED BY <2>2, <2>4 DEF threads, StopThreads
<1>11. ASSUME ~Start, Succeeded("teardown")', k \in Includes(comps)'
       PROVE  cr'[k] = NoCR /\ Emptied(k, L)'
  <2>1. k \in Includes(comps)
    BY <1>3, <1>11 DEF Includes
  <2>2. CASE Succeeded("teardown")
    <3>1. cr[k] = NoCR /\ Emptied(k, L) /\ L \in 0 .. L
      BY <1>3, <1>4, <1>6, <1>11, <2>1, <2>2 DEF TornDown
    <3> QED BY <1>5, <1>11, <3>1
  <2>3. CASE ~Succeeded("teardown")
    <3>1. ForgetManifest
      <4>1. ~UNCHANGED <<main, result>> /\ ~Finish("failed") /\ main' = "idle"
        BY <1>3, <1>11, <2>3 DEF Succeeded, Finish
      <4>2. ~DeployOperator /\ ~DeployCentral /\ ~DeploySecuredCluster /\ ~RecordManifest
        BY <1>1, <1>3, <1>11 DEF Control, DeploySteps, DeployOperator, DeployCentral, DeploySecuredCluster,
             RecordManifest, StartComponent, ComponentTornDown, CreateAdminPasswordSecret, GenerateAndApplyCRS,
             ApplyCR, WaitForComponentReady, PauseReconciliation
      <4>3. ~\E j \in Kinds : Teardown(j)
        BY <1>1, <4>1, ThreadsWhileSweeping, TeardownShrinks DEF Sweeping, TeardownSteps
      <4> QED BY <1>11, <4>1, <4>2, <4>3 DEF Next, Killed, ContextExpires, RoxieStep, TeardownJoins,
                  TeardownOperator, ClusterStep, OperatorReconciles, OperatorFinalizes, GarbageCollected, vars,
                  command, Step
    <3>2. pc[k] = "done"
      BY <2>1, <3>1 DEF ForgetManifest, Threads
    <3> QED BY <1>7, <1>11, <3>2
  <2> QED BY <2>2, <2>3
<1> QED
  <2>1. CASE ~Start /\ Teardown(k)
    BY <1>9, <2>1 DEF Succeeded
  <2>2. CASE ~Start /\ ~Teardown(k)
    BY <1>7, <1>8, <1>10, <1>11, <2>2
  <2> QED BY <1>2, <2>1, <2>2

----------------------------------------------------------------------------
(* The theorems about commands that succeed *)

\* What succeeding commands have done is inductive, given the invariant above.
THEOREM SuccessInvariance == Spec => [](IndInv /\ Delivery)
<1>1. Init => Delivery
  <2> SUFFICES ASSUME Init PROVE Delivery
    OBVIOUS
  <2>1. Threads
    BY DEF Init, Threads
  <2>2. \A k \in Kinds : TheWorkload(k) = NoObject
    BY NamespaceOfKind, WorkloadNames DEF Init, TheWorkload
  <2>3. \A k \in Kinds : WorkloadOwned(k) /\ Delivered(k)
    BY <2>2 DEF WorkloadOwned, Delivered, Init, WithCR, WithWorkload, WithSecret, SensorSteps, Succeeded
  <2>4. PasswordKept
    BY DEF PasswordKept, Init, WithSecret, SensorSteps, Succeeded
  <2>5. ASSUME NEW k \in Kinds PROVE TornDown(k)
    <3>1. \A i \in 1 .. Len(ResourcesToDelete(k)) : ~IsOwnedBy(k, ResourcesToDelete(k)[i])
      BY NamespaceOfKind, CheckedIsSecond DEF Init, IsOwnedBy, NoObject, Kinds
    <3> QED BY <3>1 DEF Init, TornDown, Emptied
  <2> QED BY <2>1, <2>3, <2>4, <2>5 DEF Delivery
<1>2. IndInv /\ Delivery /\ [Next]_vars => Delivery'
  <2> SUFFICES ASSUME IndInv, Delivery, [Next]_vars PROVE Delivery'
    OBVIOUS
  <2>1. TypeInv /\ Control
    BY DEF IndInv
  <2>2. Threads' /\ PasswordKept'
    BY <2>1, ThreadsNext, PasswordNext DEF Delivery
  <2>3. \A k \in Kinds : TornDown(k)' /\ WorkloadOwned(k)' /\ Delivered(k)'
    BY <2>1, TornDownNext, WorkloadNext, DeliveredNext DEF Delivery
  <2> QED BY <2>2, <2>3 DEF Delivery
<1> QED BY Inductive, <1>1, <1>2, PTL DEF Spec

\* A deploy without errors that reports success has its components' custom resources and workloads running, and they
\* are its own (Deploy, deployCentral, deploySecuredCluster).
THEOREM DeployDeliversCorrect == Spec => []DeployDelivers
<1>1. IndInv /\ Delivery => DeployDelivers
  <2> SUFFICES ASSUME IndInv, Delivery, main = "idle", cmd = "deploy", result = "ok", Clean(deploy),
                      NEW k \in Includes(comps)
               PROVE  /\ cr[k].phase = "present" /\ cr[k].uid = deploy
                      /\ obj[Namespace(k)][Workload(k)].uid = deploy
    BY DEF DeployDelivers
  <2>1. k \in Kinds
    BY DEF Includes, Kinds
  <2>2. cr[k].phase = "present" /\ cr[k].uid = deploy /\ TheWorkload(k) # NoObject
    BY <2>1 DEF Delivery, Delivered, Succeeded
  <2>3. TheWorkload(k) = [kind |-> k, uid |-> cr[k].uid]
    BY <2>1, <2>2 DEF Delivery, WorkloadOwned, Owned
  <2> QED BY <2>2, <2>3 DEF TheWorkload
<1> QED BY SuccessInvariance, <1>1, PTL

\* A teardown without errors that reports success before its deadline leaves nothing of its components (Teardown,
\* deleteCentralResources, deleteSecuredClusterResources).
THEOREM TeardownDeliversCorrect == Spec => []TeardownDelivers
<1>1. IndInv /\ Delivery => TeardownDelivers
  <2> SUFFICES ASSUME IndInv, Delivery, main = "idle", cmd = "teardown", result = "ok", ctx = "live",
                      Clean(0), NEW k \in Includes(comps)
               PROVE  /\ cr[k] = NoCR
                      /\ \A i \in DOMAIN ResourcesToDelete(k) : ~IsOwnedBy(k, ResourcesToDelete(k)[i])
    BY DEF TeardownDelivers
  <2>1. k \in Kinds
    BY DEF Includes, Kinds
  <2>2. cr[k] = NoCR /\ Emptied(k, Len(ResourcesToDelete(k)))
    BY <2>1 DEF Delivery, TornDown, Succeeded, Unharmed
  <2> QED BY <2>1, <2>2, Lists DEF Emptied
<1> QED BY SuccessInvariance, <1>1, PTL

\* After a deploy of Central without errors the manifest has the password that Central runs with
\* (CreateManifestSecretOnCluster).
THEOREM DeployRecordsPasswordCorrect == Spec => []DeployRecordsPassword
<1>1. IndInv /\ Delivery => DeployRecordsPassword
  BY DEF Delivery, PasswordKept, DeployRecordsPassword, AdminPassword, Succeeded
<1> QED BY SuccessInvariance, <1>1, PTL
----------------------------------------------------------------------------
(* A command comes to an end *)

\* The numbers of the variant.
LEMMA MainNumbers ==
    /\ MainLeft["idle"] = 0 /\ MainLeft["forget"] = 1 /\ MainLeft["operatorTeardown"] = 2 /\ MainLeft["join"] = 3
    /\ MainLeft["record"] = 1 /\ MainLeft["sensorPause"] = 2 /\ MainLeft["sensorReady"] = 3
    /\ MainLeft["sensorCR"] = 4 /\ MainLeft["crs"] = 5 /\ MainLeft["sensorTeardown"] = 6
    /\ MainLeft["sensorStart"] = 7 /\ MainLeft["centralPause"] = 8 /\ MainLeft["centralReady"] = 9
    /\ MainLeft["centralCR"] = 10 /\ MainLeft["secret"] = 11 /\ MainLeft["centralTeardown"] = 12
    /\ MainLeft["centralStart"] = 13 /\ MainLeft["operator"] = 14
BY DEF MainLeft

LEMMA ThreadNumbers ==
    /\ ThreadLeft["off"] = 0 /\ ThreadLeft["done"] = 0 /\ ThreadLeft["deleteWait"] = 7 /\ ThreadLeft["delete"] = 8
    /\ ThreadLeft["unpause"] = 9 /\ ThreadLeft["retrieve"] = 10 /\ ThreadLeft["pause"] = 11
    /\ ThreadLeft["exists"] = 12 /\ ThreadLeft["namespace"] = 13
BY DEF ThreadLeft

\* A step of the command outweighs what new goroutines have to do, and a goroutine's step counts.
LEMMA Sums ==
    /\ \A m, n \in 0 .. 14, a, b, c, d \in 0 .. 13 : n < m => 27 * n + c + d < 27 * m + a + b
    /\ \A m \in 0 .. 14, a, b, c \in 0 .. 13 :
         c < a => 27 * m + c + b < 27 * m + a + b /\ 27 * m + b + c < 27 * m + b + a
OBVIOUS

LEMMA CallsInRange ==
    ASSUME TypeInv
    PROVE  /\ MainLeft[main] \in 0 .. 14
           /\ \A k \in Kinds : CallsOfThread(k) \in 0 .. 13
           /\ CallsLeft \in 0 .. 404
<1>1. CommandType /\ ThreadType
  BY TypeParts
<1>2. MainLeft[main] \in 0 .. 14
  BY <1>1, MainNumbers DEF CommandType, DeploySteps, TeardownSteps
<1>3. ASSUME NEW k \in Kinds PROVE CallsOfThread(k) \in 0 .. 13
  <2>1. pc[k] \in Labels /\ at[k] \in 0 .. 3
    BY <1>1 DEF ThreadType
  <2>2. CASE pc[k] \in {"resource", "owned"}
    BY <2>1, <2>2 DEF CallsOfThread
  <2>3. CASE pc[k] \notin {"resource", "owned"}
    <3>1. CallsOfThread(k) = ThreadLeft[pc[k]]
      BY <2>3 DEF CallsOfThread
    <3> QED BY <2>1, <2>3, <3>1, ThreadNumbers DEF Labels
  <2> QED BY <2>2, <2>3
<1>4. CallsLeft \in 0 .. 404
  <2>1. CallsOfThread("Central") \in 0 .. 13 /\ CallsOfThread("SecuredCluster") \in 0 .. 13
    BY <1>3 DEF Kinds
  <2>2. \A m \in 0 .. 14, a, b \in 0 .. 13 : 27 * m + a + b \in 0 .. 404
    OBVIOUS
  <2> QED BY <1>2, <2>1, <2>2 DEF CallsLeft
<1> QED BY <1>2, <1>3, <1>4

\* A goroutine's step leaves it fewer calls, and the other one and the command what they had.
LEMMA ThreadAdvances ==
    ASSUME TypeInv, NEW k \in Kinds, Teardown(k)
    PROVE  /\ CallsOfThread(k)' < CallsOfThread(k)
           /\ \A j \in Kinds : j # k => CallsOfThread(j)' = CallsOfThread(j)
           /\ main' = main
<1>1. ThreadType
  BY TypeParts
<1>2. pc[k] \in Labels /\ at[k] \in 0 .. 3 /\ k \in DOMAIN pc /\ k \in DOMAIN at
  BY <1>1 DEF ThreadType
<1>3. main' = main
  BY DEF Teardown, CheckNamespace, DoesResourceExist, AddPauseReconcileAnnotation, RetrieveCR,
         RemovePauseReconcileAnnotation, DeleteCR, DeleteCRWait, CheckOwner, DeleteResource, command
<1>4. ASSUME NEW label, GoTo(k, label) PROVE pc'[k] = label /\ at'[k] = at[k]
  BY <1>1, <1>4 DEF GoTo, ThreadType
<1>5. ASSUME NEW how, End(k, how) PROVE pc'[k] = "done"
  BY <1>1, <1>5 DEF End, ThreadType
<1>6. ASSUME NEW i, GoToResource(k, i) PROVE pc'[k] = "resource" /\ at'[k] = i
  BY <1>1, <1>6 DEF GoToResource, ThreadType
<1>7. ASSUME NextResource(k) PROVE pc'[k] = "done" \/ (pc'[k] = "resource" /\ at'[k] = at[k] + 1)
  BY <1>5, <1>6, <1>7 DEF NextResource
<1>8. \/ pc[k] \in {"namespace", "exists", "pause", "retrieve", "unpause", "delete", "deleteWait"} /\ pc'[k] = "done"
      \/ pc[k] = "namespace" /\ pc'[k] = "exists"
      \/ pc[k] = "exists" /\ pc'[k] \in {"pause", "retrieve"}
      \/ pc[k] = "pause" /\ pc'[k] = "retrieve"
      \/ pc[k] = "retrieve" /\ pc'[k] = "unpause"
      \/ pc[k] = "unpause" /\ pc'[k] = "delete"
      \/ pc[k] = "delete" /\ pc'[k] = "deleteWait"
      \/ pc[k] \in {"retrieve", "deleteWait"} /\ pc'[k] = "resource" /\ at'[k] = 1
      \/ pc[k] = "resource" /\ pc'[k] = "owned" /\ at'[k] = at[k]
      \/ pc[k] \in {"resource", "owned"} /\ pc'[k] = "done"
      \/ pc[k] \in {"resource", "owned"} /\ pc'[k] = "resource" /\ at'[k] = at[k] + 1
  <2>1. CASE CheckNamespace(k) \/ DoesResourceExist(k) \/ AddPauseReconcileAnnotation(k)
    BY <1>4, <1>5, <2>1 DEF CheckNamespace, DoesResourceExist, AddPauseReconcileAnnotation
  <2>2. CASE RetrieveCR(k) \/ RemovePauseReconcileAnnotation(k)
    BY <1>4, <1>5, <1>6, <2>2 DEF RetrieveCR, RemovePauseReconcileAnnotation
  <2>3. CASE DeleteCR(k) \/ DeleteCRWait(k)
    BY <1>4, <1>5, <1>6, <2>3 DEF DeleteCR, DeleteCRWait
  <2>4. CASE CheckOwner(k) \/ DeleteResource(k)
    BY <1>4, <1>5, <1>7, <2>4 DEF CheckOwner, DeleteResource
  <2> QED BY <2>1, <2>2, <2>3, <2>4 DEF Teardown
<1>9. CallsOfThread(k)' < CallsOfThread(k)
  <2>1. CallsOfThread(k) = IF pc[k] = "resource" THEN 8 - 2 * at[k]
                           ELSE IF pc[k] = "owned" THEN 7 - 2 * at[k] ELSE ThreadLeft[pc[k]]
    BY DEF CallsOfThread
  <2>2. CallsOfThread(k)' = IF pc'[k] = "resource" THEN 8 - 2 * at'[k]
                            ELSE IF pc'[k] = "owned" THEN 7 - 2 * at'[k] ELSE ThreadLeft[pc'[k]]
    BY DEF CallsOfThread, ThreadLeft
  <2> QED BY <1>2, <1>8, <2>1, <2>2, ThreadNumbers
<1>10. ASSUME NEW j \in Kinds, j # k PROVE pc'[j] = pc[j] /\ at'[j] = at[j]
  <2>1. \/ \E label : GoTo(k, label)
        \/ \E i : GoToResource(k, i)
        \/ \E how : End(k, how)
    BY DEF Teardown, CheckNamespace, DoesResourceExist, AddPauseReconcileAnnotation, RetrieveCR,
           RemovePauseReconcileAnnotation, DeleteCR, DeleteCRWait, CheckOwner, DeleteResource, NextResource
  <2> QED BY <1>1, <1>10, <2>1 DEF ThreadType, GoTo, GoToResource, End
<1>11. \A j \in Kinds : j # k => CallsOfThread(j)' = CallsOfThread(j)
  BY <1>10 DEF CallsOfThread, ThreadLeft
<1> QED BY <1>3, <1>9, <1>11

\* A step of the command itself goes to a later label.
LEMMA MainAdvances ==
    ASSUME TypeInv, RoxieStep
    PROVE  MainLeft[main'] < MainLeft[main]
<1> USE MainNumbers DEF Step, Finish
<1>1. CASE TeardownJoins
  BY <1>1 DEF TeardownJoins
<1>2. CASE TeardownOperator
  BY <1>2 DEF TeardownOperator
<1>3. CASE ForgetManifest
  BY <1>3 DEF ForgetManifest
<1>4. CASE DeployOperator
  BY <1>4 DEF DeployOperator, AfterOperator
<1>5. CASE RecordManifest
  BY <1>5 DEF RecordManifest
<1>6. CASE DeployCentral
  BY <1>6 DEF DeployCentral, StartComponent, ComponentTornDown, CreateAdminPasswordSecret, ApplyCR,
              WaitForComponentReady, PauseReconciliation, AfterCentral
<1>7. CASE DeploySecuredCluster
  BY <1>7 DEF DeploySecuredCluster, StartComponent, ComponentTornDown, GenerateAndApplyCRS, ApplyCR,
              WaitForComponentReady, PauseReconciliation
<1> QED BY <1>1, <1>2, <1>3, <1>4, <1>5, <1>6, <1>7 DEF RoxieStep

\* Every call of a command, whether it works, fails or is cut off by the deadline, is one of the finitely many that
\* the command had left, also with two goroutines at work, and neither the operator nor the garbage collector nor
\* the deadline gives one back. A kill takes them all.
THEOREM CommandAdvancesCorrect == Spec => CommandAdvances
<1> DEFINE Advance ==
             /\ CallsLeft \in 0 .. 404 /\ CallsLeft' \in 0 .. 404
             /\ RoxieStep \/ (\E k \in Kinds : Teardown(k)) => CallsLeft' < CallsLeft
             /\ Killed => CallsLeft' = 0
             /\ ContextExpires \/ ClusterStep => CallsLeft' = CallsLeft
<1>1. Init => TypeInv
  BY TypeInit
<1>2. TypeInv /\ [Next]_vars => TypeInv'
  BY TypeNext
<1>3. TypeInv /\ TypeInv' => Advance
  <2> SUFFICES ASSUME TypeInv, TypeInv' PROVE Advance
    OBVIOUS
  <2>1. /\ CallsLeft \in 0 .. 404 /\ MainLeft[main] \in 0 .. 14
        /\ CallsOfThread("Central") \in 0 .. 13 /\ CallsOfThread("SecuredCluster") \in 0 .. 13
    BY CallsInRange DEF Kinds
  <2>2. /\ CallsLeft' \in 0 .. 404 /\ MainLeft[main'] \in 0 .. 14
        /\ CallsOfThread("Central")' \in 0 .. 13 /\ CallsOfThread("SecuredCluster")' \in 0 .. 13
    <3>1. (/\ MainLeft[main] \in 0 .. 14
           /\ \A k \in Kinds : CallsOfThread(k) \in 0 .. 13
           /\ CallsLeft \in 0 .. 404)'
      BY CallsInRange, PTL
    <3>2. MainLeft' = MainLeft
      BY DEF MainLeft
    <3> QED BY <3>1, <3>2 DEF Kinds
  <2>3. /\ CallsLeft = 27 * MainLeft[main] + CallsOfThread("Central") + CallsOfThread("SecuredCluster")
        /\ CallsLeft' = 27 * MainLeft[main'] + CallsOfThread("Central")' + CallsOfThread("SecuredCluster")'
    BY DEF CallsLeft, MainLeft
  <2>4. ASSUME RoxieStep PROVE CallsLeft' < CallsLeft
    <3>1. MainLeft[main'] < MainLeft[main]
      BY <2>4, MainAdvances
    <3> DEFINE m == MainLeft[main]
               n == MainLeft[main']
               a == CallsOfThread("Central")
               b == CallsOfThread("SecuredCluster")
               c == CallsOfThread("Central")'
               d == CallsOfThread("SecuredCluster")'
    <3>2. m \in 0 .. 14 /\ n \in 0 .. 14 /\ {a, b, c, d} \subseteq 0 .. 13 /\ n < m
      BY <2>1, <2>2, <3>1
    <3>3. CallsLeft = 27 * m + a + b /\ CallsLeft' = 27 * n + c + d
      BY <2>3
    <3> HIDE DEF m, n, a, b, c, d
    <3> QED BY <3>2, <3>3, Sums
  <2>5. ASSUME NEW k \in Kinds, Teardown(k) PROVE CallsLeft' < CallsLeft
    <3>1. /\ CallsOfThread(k)' < CallsOfThread(k) /\ main' = main
          /\ \A j \in Kinds : j # k => CallsOfThread(j)' = CallsOfThread(j)
      BY <2>5, ThreadAdvances
    <3> DEFINE m == MainLeft[main]
               a == CallsOfThread("Central")
               b == CallsOfThread("SecuredCluster")
               c == CallsOfThread("Central")'
               d == CallsOfThread("SecuredCluster")'
    <3>2. m \in 0 .. 14 /\ {a, b, c, d} \subseteq 0 .. 13
      BY <2>1, <2>2
    <3>3. CallsLeft = 27 * m + a + b /\ CallsLeft' = 27 * m + c + d
      BY <2>3, <3>1
    <3>4. (c < a /\ d = b) \/ (d < b /\ c = a)
      BY <3>1 DEF Kinds
    <3> HIDE DEF m, a, b, c, d
    <3> QED BY <3>2, <3>3, <3>4, Sums
  <2>6. ASSUME Killed PROVE CallsLeft' = 0
    <3>1. main' = "idle" /\ pc' = [j \in Kinds |-> "off"]
      BY <2>6 DEF Killed, Finish, StopThreads
    <3>2. CallsOfThread("Central")' = 0 /\ CallsOfThread("SecuredCluster")' = 0
      BY <3>1 DEF CallsOfThread, ThreadLeft, Kinds
    <3> QED BY <2>3, <3>1, <3>2, MainNumbers
  <2>7. ASSUME ContextExpires \/ ClusterStep PROVE CallsLeft' = CallsLeft
    <3>1. UNCHANGED <<main, pc, at>>
      BY <2>7 DEF ContextExpires, ClusterStep, OperatorReconciles, OperatorFinalizes, GarbageCollected, command, threads
    <3> QED BY <3>1 DEF CallsLeft, CallsOfThread, MainLeft, ThreadLeft
  <2> QED BY <2>1, <2>2, <2>4, <2>5, <2>6, <2>7
<1>4. TypeInv /\ TypeInv' => [Advance]_vars
  BY <1>3
<1> HIDE DEF Advance
<1>5. Spec => [][Advance]_vars
  BY <1>1, <1>2, <1>4, PTL DEF Spec
<1> QED BY <1>5 DEF CommandAdvances, Advance
----------------------------------------------------------------------------
(* Waiting *)

\* A goroutine's step leaves it running or done, and the others where they are.
LEMMA GoroutineGoesOn ==
    ASSUME TypeInv, NEW k \in Kinds, Teardown(k)
    PROVE  /\ UNCHANGED <<main, comps>> /\ IsAtWork(k) /\ pc'[k] # "off"
           /\ \A j \in Kinds : j # k => pc'[j] = pc[j]
<1>1. UNCHANGED <<main, comps>> /\ IsAtWork(k)
  BY DEF Teardown, CheckNamespace, DoesResourceExist, AddPauseReconcileAnnotation, RetrieveCR,
         RemovePauseReconcileAnnotation, DeleteCR, DeleteCRWait, CheckOwner, DeleteResource, command, IsAtWork
<1>2. \/ \E label \in Labels \ {"off"} : GoTo(k, label)
      \/ \E i : GoToResource(k, i)
      \/ \E how : End(k, how)
  BY DEF Teardown, CheckNamespace, DoesResourceExist, AddPauseReconcileAnnotation, RetrieveCR,
         RemovePauseReconcileAnnotation, DeleteCR, DeleteCRWait, CheckOwner, DeleteResource, NextResource, Labels
<1>3. pc \in [Kinds -> Labels]
  BY TypeParts DEF ThreadType
<1> QED BY <1>1, <1>2, <1>3 DEF GoTo, GoToResource, End


\* A step of a goroutine, of the command or around them keeps to who waits for whom.
LEMMA JoinedNext ==
    ASSUME TypeInv, Control, ThreadsAreJoined, [Next]_vars
    PROVE  ThreadsAreJoined'
<1> DEFINE Waiting == {"join", "centralTeardown", "sensorTeardown"}
<1>none. ASSUME main' \notin Waiting, \A k \in Kinds : pc'[k] \in {"off", "done"} PROVE ThreadsAreJoined'
  BY <1>none DEF ThreadsAreJoined, WaitsFor, IsAtWork
<1>1. ASSUME NEW how, Finish(how) PROVE ThreadsAreJoined'
  BY <1>none, <1>1 DEF Finish, StopThreads
<1>2. ASSUME UNCHANGED <<main, comps, pc>> PROVE ThreadsAreJoined'
  BY <1>2 DEF ThreadsAreJoined, WaitsFor, IsAtWork
<1>3. ASSUME NEW label \in DeploySteps \ Sweeping, main \notin Sweeping, Step(label), UNCHANGED threads
      PROVE  ThreadsAreJoined'
  BY <1>none, <1>3 DEF Control, Step, threads, Sweeping, TeardownSteps
<1>4. CASE Start
  <2>1. main = "idle" /\ \A k \in Kinds : pc[k] = "off"
    BY <1>4 DEF Start, StartDeploy, StartTeardown, Control, Sweeping, TeardownSteps
  <2>2. ASSUME NEW c \in Components, NEW fromShell, StartDeploy(c, fromShell) PROVE ThreadsAreJoined'
    BY <1>none, <2>1, <2>2 DEF StartDeploy, threads
  <2>3. ASSUME NEW c \in Components, StartTeardown(c) PROVE ThreadsAreJoined'
    <3>1. /\ comps' = c /\ main' = (IF c = "Operator" THEN "operatorTeardown" ELSE "join")
          /\ \A k \in Kinds : pc'[k] = IF k \in Includes(c) THEN "namespace" ELSE "off"
      BY <2>1, <2>3 DEF StartTeardown, StartThreads
    <3>2. CASE c = "Operator"
      BY <1>none, <3>1, <3>2 DEF Includes, Kinds
    <3>3. CASE c # "Operator"
      BY <3>1, <3>3 DEF ThreadsAreJoined, WaitsFor, IsAtWork
    <3> QED BY <3>2, <3>3
  <2> QED BY <1>4, <2>2, <2>3 DEF Start
<1>5. CASE Killed \/ ForgetManifest \/ RecordManifest
  BY <1>1, <1>5 DEF Killed, ForgetManifest, RecordManifest
<1>6. CASE ContextExpires \/ ClusterStep \/ UNCHANGED vars
  BY <1>2, <1>6 DEF ContextExpires, ClusterStep, OperatorReconciles, OperatorFinalizes, GarbageCollected,
                    command, threads, vars
<1>7. CASE TeardownJoins
  <2>1. ASSUME NEW label \in {"forget", "operatorTeardown"}, Step(label), UNCHANGED threads PROVE ThreadsAreJoined'
    <3>1. main = "join" /\ \A k \in Includes(comps) : pc[k] = "done"
      BY <1>7 DEF TeardownJoins, Joined
    <3>2. \A k \in Kinds : pc[k] \in {"off", "done"}
      BY <3>1 DEF ThreadsAreJoined, WaitsFor, IsAtWork
    <3> QED BY <1>none, <2>1, <3>2 DEF Step, threads
  <2> QED BY <1>1, <1>7, <2>1 DEF TeardownJoins
<1>8. CASE TeardownOperator
  <2>1. ASSUME Step("forget"), UNCHANGED threads PROVE ThreadsAreJoined'
    <3>1. \A k \in Kinds : pc[k] \in {"off", "done"}
      BY <1>8 DEF TeardownOperator, ThreadsAreJoined, WaitsFor, IsAtWork
    <3> QED BY <1>none, <2>1, <3>1 DEF Step, threads
  <2> QED BY <1>1, <1>8, <2>1 DEF TeardownOperator
<1>9. CASE DeployOperator
  <2>1. AfterOperator \in DeploySteps \ Sweeping /\ main \notin Sweeping
    BY <1>9 DEF DeployOperator, AfterOperator, DeploySteps, Sweeping, TeardownSteps
  <2> QED BY <1>1, <1>3, <1>9, <2>1 DEF DeployOperator
<1>10. CASE \/ StartComponent("centralStart", "centralTeardown", "Central")
            \/ StartComponent("sensorStart", "sensorTeardown", "SecuredCluster")
  <2>1. \A k \in Kinds : pc[k] = "off"
    BY <1>10 DEF StartComponent, Control, Sweeping, TeardownSteps
  <2> QED BY <1>10, <2>1 DEF StartComponent, StartThreads, Step, ThreadsAreJoined, WaitsFor, IsAtWork, Kinds
<1>11. ASSUME NEW from, NEW to \in {"secret", "crs"}, NEW k, ComponentTornDown(from, to, k) PROVE ThreadsAreJoined'
  BY <1>none, <1>11 DEF ComponentTornDown, Step, StopThreads
<1>12. CASE CreateAdminPasswordSecret \/ GenerateAndApplyCRS
  <2>1. main \notin Sweeping
    BY <1>12 DEF CreateAdminPasswordSecret, GenerateAndApplyCRS, Sweeping, TeardownSteps
  <2> QED BY <1>1, <1>3, <1>12, <2>1 DEF CreateAdminPasswordSecret, GenerateAndApplyCRS, DeploySteps, Sweeping, TeardownSteps
<1>13. ASSUME NEW from \in DeploySteps \ Sweeping, NEW to \in DeploySteps \ Sweeping, NEW k,
              ApplyCR(from, to, k) \/ WaitForComponentReady(from, to, k) \/ PauseReconciliation(from, to, k)
       PROVE  ThreadsAreJoined'
  <2>1. main \notin Sweeping
    BY <1>13 DEF ApplyCR, WaitForComponentReady, PauseReconciliation
  <2> QED BY <1>1, <1>3, <1>13, <2>1 DEF ApplyCR, WaitForComponentReady, PauseReconciliation
<1>14. CASE DeployCentral
  <2>1. AfterCentral \in DeploySteps \ Sweeping
    BY DEF AfterCentral, DeploySteps, Sweeping, TeardownSteps
  <2> QED BY <1>10, <1>11, <1>12, <1>13, <1>14, <2>1 DEF DeployCentral, DeploySteps, Sweeping, TeardownSteps
<1>15. CASE DeploySecuredCluster
  BY <1>10, <1>11, <1>12, <1>13, <1>15 DEF DeploySecuredCluster, DeploySteps, Sweeping, TeardownSteps
<1>16. ASSUME NEW k \in Kinds, Teardown(k) PROVE ThreadsAreJoined'
  <2>1. /\ UNCHANGED <<main, comps>> /\ IsAtWork(k) /\ pc'[k] # "off"
        /\ \A j \in Kinds : j # k => pc'[j] = pc[j]
    BY <1>16, GoroutineGoesOn
  <2>2. WaitsFor' = WaitsFor
    BY <2>1 DEF WaitsFor
  <2> QED BY <2>1, <2>2 DEF ThreadsAreJoined, IsAtWork
<1> QED
  BY <1>4, <1>5, <1>6, <1>7, <1>8, <1>9, <1>14, <1>15, <1>16 DEF Next, RoxieStep

\* No goroutine of a teardown works on for a command that no longer waits for it, and none is waited for that was
\* not started, in any order of the steps of both, with failing calls and kills: a command never waits in vain.
THEOREM ThreadsAreJoinedCorrect == Spec => [](ThreadsAreJoined /\ CanGoOn)
<1>1. Init => TypeInv /\ Control /\ ThreadsAreJoined
  <2> SUFFICES ASSUME Init PROVE ThreadsAreJoined
    BY IndInvInit DEF IndInv
  <2> QED BY DEF Init, ThreadsAreJoined, WaitsFor, IsAtWork
<1>2. TypeInv /\ Control /\ ThreadsAreJoined /\ [Next]_vars => (TypeInv /\ Control /\ ThreadsAreJoined)'
  BY TypeNext, ControlNext, JoinedNext
<1>3. ThreadsAreJoined => CanGoOn
  <2> SUFFICES ASSUME ThreadsAreJoined, \A k \in Kinds : ~IsAtWork(k) PROVE \A k \in WaitsFor : pc[k] = "done"
    BY DEF CanGoOn
  <2>1. WaitsFor \subseteq Kinds
    BY DEF WaitsFor, Includes, Kinds
  <2> QED BY <2>1 DEF ThreadsAreJoined, IsAtWork
<1> QED BY <1>1, <1>2, <1>3, PTL DEF Spec
====
