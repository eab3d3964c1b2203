---------------------- MODULE OperatorLifecycle_proofs -----------------------
(***************************************************************************)
(* Proofs about OperatorLifecycle, for every number of versions, every set *)
(* of CRDs and every number of interrupted commands.                       *)
(*                                                                         *)
(* TypeOK holds whatever errors are swallowed.  The other theorems assume  *)
(* that none is (MaxFaults = 0): one swallowed failure of a delete is      *)
(* enough for two operators to run.  What the commands leave behind is     *)
(* proved for commands that are not interrupted either (MaxGiveUps = 0):   *)
(* one that dies half way leaves what the next one does not look for.      *)
(* That a teardown removes the operators needs no such assumption.         *)
(* DeployRepairs and TeardownRepairs hold whatever errors were swallowed   *)
(* and whatever was interrupted before, on a cluster without OLM.          *)
(***************************************************************************)
EXTENDS OperatorLifecycle, TLAPS

(***************************************************************************)
(* Types.                                                                  *)
(***************************************************************************)
\* A command that ends leaves the process well typed.
LEMMA FinishType ==
  ASSUME ProcessTypeOK, NEW outcome \in {"ok", "failed"}, Finish(outcome)
  PROVE  ProcessTypeOK'
  BY DEF ProcessTypeOK, Finish, Labels, AllOperatorNamespaces, ReturnPoints

\* A swallowed error stays within its budget.
LEMMA FaultType ==
  ASSUME BudgetTypeOK, Fault \/ NoFault, UNCHANGED giveUps
  PROVE  BudgetTypeOK'
  BY ConstantsAssumption DEF BudgetTypeOK, Fault, NoFault

\* What does not change keeps its type.
LEMMA UnchangedTypes ==
  /\ ClusterTypeOK /\ UNCHANGED cluster => ClusterTypeOK'
  /\ ProcessTypeOK /\ UNCHANGED process => ProcessTypeOK'
  /\ BudgetTypeOK /\ UNCHANGED <<faults, giveUps, faulty>> => BudgetTypeOK'
  BY DEF ClusterTypeOK, ProcessTypeOK, BudgetTypeOK, cluster, process

\* The plan of a configuration is made of namespaces and versions.
LEMMA PlanTypes ==
  ASSUME ProcessTypeOK
  PROVE  /\ \A n \in AllOperatorNamespaces : After(n) \in AllOperatorNamespaces
         /\ FirstInstance(cfg) \in AllOperatorNamespaces
         /\ \A n \in AllOperatorNamespaces : InstanceVersion(cfg, n) \in Versions
         /\ NewestOperatorVersion(cfg) \in Versions
  BY DEF ProcessTypeOK, After, FirstInstance, InstanceVersion, NewestOperatorVersion,
         AllOperatorNamespaces, Configs

\* The values that the actions write to the cluster.
LEMMA ClusterTypes ==
  /\ 0 \in VersionOrNone
  /\ Versions \subseteq VersionOrNone
  /\ NoSubscription \in [ver : VersionOrNone, plan : {"none", "pending", "approved"}]
  /\ NoOperator \in [ver : VersionOrNone, olm : BOOLEAN]
  /\ \A v \in Versions, b \in BOOLEAN : [ver |-> v, olm |-> b] \in [ver : VersionOrNone, olm : BOOLEAN]
  BY ConstantsAssumption DEF Versions, VersionOrNone, NoSubscription, NoOperator

\* Every step keeps the types.
LEMMA TypeStep == TypeOK /\ [Next]_vars => TypeOK'
<1> SUFFICES ASSUME ClusterTypeOK, ProcessTypeOK, BudgetTypeOK, [Next]_vars PROVE TypeOK'
  BY DEF TypeOK
<1> USE DEF AllOperatorNamespaces, Labels, ReturnPoints
<1>1. CASE Start
  BY <1>1 DEF Start, StartDeploy, StartTeardown, cluster, TypeOK, ClusterTypeOK, ProcessTypeOK,
       BudgetTypeOK
<1>2. CASE GiveUp
  BY <1>2, FinishType, UnchangedTypes, ConstantsAssumption DEF GiveUp, TypeOK, BudgetTypeOK
<1>3. CASE EnsureCRDsInstalled
  <2>1. ClusterTypeOK'
    BY <1>3, PlanTypes, ClusterTypes DEF EnsureCRDsInstalled, Sees, ClusterTypeOK, cluster
  <2>2. ProcessTypeOK'
    BY <1>3, PlanTypes DEF EnsureCRDsInstalled, Sees, Jump, Goto, Finish, ProcessTypeOK, process
  <2>3. BudgetTypeOK'
    BY <1>3, FaultType, UnchangedTypes DEF EnsureCRDsInstalled, Sees
  <2> QED BY <2>1, <2>2, <2>3 DEF TypeOK
<1>4. CASE TeardownStaleOperatorNamespaces
  <2>1. ClusterTypeOK'
    BY <1>4, PlanTypes, ClusterTypes DEF TeardownStaleOperatorNamespaces, NextStale, Sees,
         ClusterTypeOK, cluster
  <2>2. ProcessTypeOK'
    BY <1>4, PlanTypes DEF TeardownStaleOperatorNamespaces, NextStale, Sees, Jump, Goto, Finish,
         ProcessTypeOK, process
  <2>3. BudgetTypeOK'
    BY <1>4, FaultType, UnchangedTypes DEF TeardownStaleOperatorNamespaces, NextStale, Sees
  <2> QED BY <2>1, <2>2, <2>3 DEF TypeOK
<1>5. CASE DetectOperatorDeploymentMode
  <2>1. ClusterTypeOK'
    BY <1>5, PlanTypes, ClusterTypes DEF DetectOperatorDeploymentMode, OnDetected, Sees,
         ClusterTypeOK, cluster
  <2>2. ProcessTypeOK'
    BY <1>5, PlanTypes DEF DetectOperatorDeploymentMode, OnDetected, Sees, Jump, Goto, Finish,
         ProcessTypeOK, process
  <2>3. BudgetTypeOK'
    BY <1>5, FaultType, UnchangedTypes DEF DetectOperatorDeploymentMode, OnDetected, Sees
  <2> QED BY <2>1, <2>2, <2>3 DEF TypeOK
<1>6. CASE TeardownOperatorElsewhere
  <2>1. ClusterTypeOK'
    BY <1>6, PlanTypes, ClusterTypes DEF TeardownOperatorElsewhere, Sees, ClusterTypeOK, cluster
  <2>2. ProcessTypeOK'
    BY <1>6, PlanTypes DEF TeardownOperatorElsewhere, Sees, Jump, Goto, Finish, ProcessTypeOK,
         process
  <2>3. BudgetTypeOK'
    BY <1>6, FaultType, UnchangedTypes DEF TeardownOperatorElsewhere, Sees
  <2> QED BY <2>1, <2>2, <2>3 DEF TypeOK
<1>7. CASE DeleteOperatorNamespace
  <2>1. ClusterTypeOK'
    BY <1>7, PlanTypes, ClusterTypes DEF DeleteOperatorNamespace, DeleteNamespace, Silently,
         ClusterTypeOK, cluster
  <2>2. ProcessTypeOK'
    BY <1>7, PlanTypes DEF DeleteOperatorNamespace, DeleteNamespace, Silently, Jump, Goto, Finish,
         ProcessTypeOK, process
  <2>3. BudgetTypeOK'
    BY <1>7, FaultType, UnchangedTypes DEF DeleteOperatorNamespace, DeleteNamespace, Silently
  <2> QED BY <2>1, <2>2, <2>3 DEF TypeOK
<1>8. CASE DeleteClusterRoleBinding
  <2>1. ClusterTypeOK'
    BY <1>8, PlanTypes, ClusterTypes DEF DeleteClusterRoleBinding, DeleteRBAC, Silently,
         ClusterTypeOK, cluster
  <2>2. ProcessTypeOK'
    BY <1>8, PlanTypes DEF DeleteClusterRoleBinding, DeleteRBAC, Silently, Jump, Goto, Finish,
         ProcessTypeOK, process
  <2>3. BudgetTypeOK'
    BY <1>8, FaultType, UnchangedTypes DEF DeleteClusterRoleBinding, DeleteRBAC, Silently
  <2> QED BY <2>1, <2>2, <2>3 DEF TypeOK
<1>9. CASE DeleteClusterRole
  <2>1. ClusterTypeOK'
    BY <1>9, PlanTypes, ClusterTypes DEF DeleteClusterRole, DeleteRBAC, NextRBAC, Silently,
         ClusterTypeOK, cluster
  <2>2. ProcessTypeOK'
    BY <1>9, PlanTypes DEF DeleteClusterRole, DeleteRBAC, NextRBAC, Silently, Jump, Goto, Finish,
         ProcessTypeOK, process
  <2>3. BudgetTypeOK'
    BY <1>9, FaultType, UnchangedTypes DEF DeleteClusterRole, DeleteRBAC, NextRBAC, Silently
  <2> QED BY <2>1, <2>2, <2>3 DEF TypeOK
<1>10. CASE WaitForNamespaceDeletion
  <2>1. ClusterTypeOK'
    BY <1>10, PlanTypes, ClusterTypes DEF WaitForNamespaceDeletion, AfterTeardown, NextStale,
         DeployInstance, WaitEnds, ClusterTypeOK, cluster
  <2>2. ProcessTypeOK'
    BY <1>10, PlanTypes DEF WaitForNamespaceDeletion, AfterTeardown, NextStale, DeployInstance,
         WaitEnds, Jump, Goto, Finish, ProcessTypeOK, process
  <2>3. BudgetTypeOK'
    BY <1>10, FaultType, UnchangedTypes DEF WaitForNamespaceDeletion, AfterTeardown, NextStale,
         DeployInstance, WaitEnds
  <2> QED BY <2>1, <2>2, <2>3 DEF TypeOK
<1>11. CASE TeardownOperatorNonOLM
  <2>1. ClusterTypeOK'
    BY <1>11, PlanTypes, ClusterTypes DEF TeardownOperatorNonOLM, Sees, ClusterTypeOK, cluster
  <2>2. ProcessTypeOK'
    BY <1>11, PlanTypes DEF TeardownOperatorNonOLM, Sees, Jump, Goto, Finish, ProcessTypeOK, process
  <2>3. BudgetTypeOK'
    BY <1>11, FaultType, UnchangedTypes DEF TeardownOperatorNonOLM, Sees
  <2> QED BY <2>1, <2>2, <2>3 DEF TypeOK
<1>12. CASE DeleteSubscription
  <2>1. ClusterTypeOK'
    BY <1>12, PlanTypes, ClusterTypes DEF DeleteSubscription, Silently, ClusterTypeOK, cluster
  <2>2. ProcessTypeOK'
    BY <1>12, PlanTypes DEF DeleteSubscription, Silently, Jump, Goto, Finish, ProcessTypeOK, process
  <2>3. BudgetTypeOK'
    BY <1>12, FaultType, UnchangedTypes DEF DeleteSubscription, Silently
  <2> QED BY <2>1, <2>2, <2>3 DEF TypeOK
<1>13. CASE DeleteCSV
  <2>1. ClusterTypeOK'
    BY <1>13, PlanTypes, ClusterTypes DEF DeleteCSV, Silently, ClusterTypeOK, cluster
  <2>2. ProcessTypeOK'
    BY <1>13, PlanTypes DEF DeleteCSV, Silently, Jump, Goto, Finish, ProcessTypeOK, process
  <2>3. BudgetTypeOK'
    BY <1>13, FaultType, UnchangedTypes DEF DeleteCSV, Silently
  <2> QED BY <2>1, <2>2, <2>3 DEF TypeOK
<1>14. CASE DeleteOLMNamespace
  <2>1. ClusterTypeOK'
    BY <1>14, PlanTypes, ClusterTypes DEF DeleteOLMNamespace, Silently, ClusterTypeOK, cluster
  <2>2. ProcessTypeOK'
    BY <1>14, PlanTypes DEF DeleteOLMNamespace, Silently, Jump, Goto, Finish, ProcessTypeOK, process
  <2>3. BudgetTypeOK'
    BY <1>14, FaultType, UnchangedTypes DEF DeleteOLMNamespace, Silently
  <2> QED BY <2>1, <2>2, <2>3 DEF TypeOK
<1>15. CASE CheckOperatorExists
  <2>1. ClusterTypeOK'
    BY <1>15, PlanTypes, ClusterTypes DEF CheckOperatorExists, DeployInstance, Sees,
         ClusterTypeOK, cluster
  <2>2. ProcessTypeOK'
    BY <1>15, PlanTypes DEF CheckOperatorExists, DeployInstance, Sees, Jump, Goto, Finish,
         ProcessTypeOK, process
  <2>3. BudgetTypeOK'
    BY <1>15, FaultType, UnchangedTypes DEF CheckOperatorExists, DeployInstance, Sees
  <2> QED BY <2>1, <2>2, <2>3 DEF TypeOK
<1>16. CASE CheckOperatorImage
  <2>1. ClusterTypeOK'
    BY <1>16, PlanTypes, ClusterTypes DEF CheckOperatorImage, NextInstance, Sees, ClusterTypeOK,
         cluster
  <2>2. ProcessTypeOK'
    BY <1>16, PlanTypes DEF CheckOperatorImage, NextInstance, Sees, Jump, Goto, Finish,
         ProcessTypeOK, process
  <2>3. BudgetTypeOK'
    BY <1>16, FaultType, UnchangedTypes DEF CheckOperatorImage, NextInstance, Sees
  <2> QED BY <2>1, <2>2, <2>3 DEF TypeOK
<1>17. CASE CheckOLMOperatorImage
  <2>1. ClusterTypeOK'
    BY <1>17, PlanTypes, ClusterTypes DEF CheckOLMOperatorImage, Sees, ClusterTypeOK, cluster
  <2>2. ProcessTypeOK'
    BY <1>17, PlanTypes DEF CheckOLMOperatorImage, Sees, Jump, Goto, Finish, ProcessTypeOK, process
  <2>3. BudgetTypeOK'
    BY <1>17, FaultType, UnchangedTypes DEF CheckOLMOperatorImage, Sees
  <2> QED BY <2>1, <2>2, <2>3 DEF TypeOK
<1>18. CASE CheckOLMInstalled
  <2>1. ClusterTypeOK'
    BY <1>18, PlanTypes, ClusterTypes DEF CheckOLMInstalled, ClusterTypeOK, cluster
  <2>2. ProcessTypeOK'
    BY <1>18, PlanTypes DEF CheckOLMInstalled, Jump, Goto, Finish, ProcessTypeOK, process
  <2>3. BudgetTypeOK'
    BY <1>18, FaultType, UnchangedTypes DEF CheckOLMInstalled
  <2> QED BY <2>1, <2>2, <2>3 DEF TypeOK
<1>19. CASE PrepareNamespace
  <2>1. ClusterTypeOK'
    BY <1>19, PlanTypes, ClusterTypes DEF PrepareNamespace, Sees, ClusterTypeOK, cluster
  <2>2. ProcessTypeOK'
    BY <1>19, PlanTypes DEF PrepareNamespace, Sees, Jump, Goto, Finish, ProcessTypeOK, process
  <2>3. BudgetTypeOK'
    BY <1>19, FaultType, UnchangedTypes DEF PrepareNamespace, Sees
  <2> QED BY <2>1, <2>2, <2>3 DEF TypeOK
<1>20. CASE CreateClusterRole
  <2>1. ClusterTypeOK'
    BY <1>20, PlanTypes, ClusterTypes DEF CreateClusterRole, ClusterTypeOK, cluster
  <2>2. ProcessTypeOK'
    BY <1>20, PlanTypes DEF CreateClusterRole, Jump, Goto, Finish, ProcessTypeOK, process
  <2>3. BudgetTypeOK'
    BY <1>20, FaultType, UnchangedTypes DEF CreateClusterRole
  <2> QED BY <2>1, <2>2, <2>3 DEF TypeOK
<1>21. CASE CreateClusterRoleBinding
  <2>1. ClusterTypeOK'
    BY <1>21, PlanTypes, ClusterTypes DEF CreateClusterRoleBinding, ClusterTypeOK, cluster
  <2>2. ProcessTypeOK'
    BY <1>21, PlanTypes DEF CreateClusterRoleBinding, Jump, Goto, Finish, ProcessTypeOK, process
  <2>3. BudgetTypeOK'
    BY <1>21, FaultType, UnchangedTypes DEF CreateClusterRoleBinding
  <2> QED BY <2>1, <2>2, <2>3 DEF TypeOK
<1>22. CASE CreateDeployment
  <2>1. ClusterTypeOK'
    <3> DEFINE new == [ver |-> InstanceVersion(cfg, cur), olm |-> FALSE]
    <3>1. new \in [ver : VersionOrNone, olm : BOOLEAN]
      BY PlanTypes, ClusterTypes DEF ProcessTypeOK
    <3>2. dep' = dep \/ dep' = [dep EXCEPT ![cur] = new]
      BY <1>22 DEF CreateDeployment
    <3> HIDE DEF new
    <3> QED BY <1>22, <3>1, <3>2 DEF CreateDeployment, ClusterTypeOK
  <2>2. ProcessTypeOK'
    BY <1>22, PlanTypes DEF CreateDeployment, Jump, Goto, Finish, ProcessTypeOK, process
  <2>3. BudgetTypeOK'
    BY <1>22, FaultType, UnchangedTypes DEF CreateDeployment
  <2> QED BY <2>1, <2>2, <2>3 DEF TypeOK
<1>23. CASE WaitForOperatorReady
  <2>1. ClusterTypeOK'
    BY <1>23, PlanTypes, ClusterTypes DEF WaitForOperatorReady, NextInstance, ClusterTypeOK, cluster
  <2>2. ProcessTypeOK'
    BY <1>23, PlanTypes DEF WaitForOperatorReady, NextInstance, Jump, Goto, Finish, ProcessTypeOK,
         process
  <2>3. BudgetTypeOK'
    BY <1>23, FaultType, UnchangedTypes DEF WaitForOperatorReady, NextInstance
  <2> QED BY <2>1, <2>2, <2>3 DEF TypeOK
<1>24. CASE CreateSubscription
  <2>1. ClusterTypeOK'
    <3>1. cfg.central \in VersionOrNone
      BY ClusterTypes DEF ProcessTypeOK, Configs
    <3>2. sub' = sub \/ sub' = [ver |-> cfg.central, plan |-> "none"]
      BY <1>24 DEF CreateSubscription
    <3> QED BY <1>24, <3>1, <3>2 DEF CreateSubscription, ClusterTypeOK
  <2>2. ProcessTypeOK'
    BY <1>24, PlanTypes DEF CreateSubscription, Jump, Goto, Finish, ProcessTypeOK, process
  <2>3. BudgetTypeOK'
    BY <1>24, FaultType, UnchangedTypes DEF CreateSubscription
  <2> QED BY <2>1, <2>2, <2>3 DEF TypeOK
<1>25. CASE WaitForAndApproveInstallPlan
  <2>1. ClusterTypeOK'
    BY <1>25, PlanTypes, ClusterTypes DEF WaitForAndApproveInstallPlan, ClusterTypeOK, cluster
  <2>2. ProcessTypeOK'
    BY <1>25, PlanTypes DEF WaitForAndApproveInstallPlan, Jump, Goto, Finish, ProcessTypeOK, process
  <2>3. BudgetTypeOK'
    BY <1>25, FaultType, UnchangedTypes DEF WaitForAndApproveInstallPlan
  <2> QED BY <2>1, <2>2, <2>3 DEF TypeOK
<1>26. CASE WaitForCSVSuccess
  <2>1. ClusterTypeOK'
    BY <1>26, PlanTypes, ClusterTypes DEF WaitForCSVSuccess, ClusterTypeOK, cluster
  <2>2. ProcessTypeOK'
    BY <1>26, PlanTypes DEF WaitForCSVSuccess, Jump, Goto, Finish, ProcessTypeOK, process
  <2>3. BudgetTypeOK'
    BY <1>26, FaultType, UnchangedTypes DEF WaitForCSVSuccess
  <2> QED BY <2>1, <2>2, <2>3 DEF TypeOK
<1>27. CASE OLMProposesInstallPlan
  <2>1. ClusterTypeOK'
    BY <1>27, PlanTypes, ClusterTypes DEF OLMProposesInstallPlan, ClusterTypeOK, cluster
  <2>2. ProcessTypeOK'
    BY <1>27, PlanTypes DEF OLMProposesInstallPlan, Jump, Goto, Finish, ProcessTypeOK, process
  <2>3. BudgetTypeOK'
    BY <1>27, FaultType, UnchangedTypes DEF OLMProposesInstallPlan
  <2> QED BY <2>1, <2>2, <2>3 DEF TypeOK
<1>28. CASE OLMInstalls
  <2>1. ClusterTypeOK'
    BY <1>28, PlanTypes, ClusterTypes DEF OLMInstalls, OLMCanInstall, ClusterTypeOK, cluster
  <2>2. ProcessTypeOK'
    BY <1>28, PlanTypes DEF OLMInstalls, OLMCanInstall, Jump, Goto, Finish, ProcessTypeOK, process
  <2>3. BudgetTypeOK'
    BY <1>28, FaultType, UnchangedTypes DEF OLMInstalls, OLMCanInstall
  <2> QED BY <2>1, <2>2, <2>3 DEF TypeOK
<1>29. CASE OLMCollects
  <2>1. ClusterTypeOK'
    BY <1>29, PlanTypes, ClusterTypes DEF OLMCollects, ClusterTypeOK, cluster
  <2>2. ProcessTypeOK'
    BY <1>29, PlanTypes DEF OLMCollects, Jump, Goto, Finish, ProcessTypeOK, process
  <2>3. BudgetTypeOK'
    BY <1>29, FaultType, UnchangedTypes DEF OLMCollects
  <2> QED BY <2>1, <2>2, <2>3 DEF TypeOK
<1>30. CASE ApplyCRD("crdInstall", "stale")
  <2>1. ClusterTypeOK'
    BY <1>30, PlanTypes, ClusterTypes DEF ApplyCRD, ClusterTypeOK, cluster
  <2>2. ProcessTypeOK'
    BY <1>30, PlanTypes DEF ApplyCRD, Jump, Goto, Finish, ProcessTypeOK, process
  <2>3. BudgetTypeOK'
    BY <1>30, FaultType, UnchangedTypes DEF ApplyCRD
  <2> QED BY <2>1, <2>2, <2>3 DEF TypeOK
<1>31. CASE ApplyCRD("crdUpgrade", "prepare")
  <2>1. ClusterTypeOK'
    BY <1>31, PlanTypes, ClusterTypes DEF ApplyCRD, ClusterTypeOK, cluster
  <2>2. ProcessTypeOK'
    BY <1>31, PlanTypes DEF ApplyCRD, Jump, Goto, Finish, ProcessTypeOK, process
  <2>3. BudgetTypeOK'
    BY <1>31, FaultType, UnchangedTypes DEF ApplyCRD
  <2> QED BY <2>1, <2>2, <2>3 DEF TypeOK
<1>32. CASE \E n \in AllOperatorNamespaces : NamespaceContentDeleted(n) \/ NamespaceRemoved(n)
  <2>1. ClusterTypeOK'
    BY <1>32, PlanTypes, ClusterTypes DEF NamespaceContentDeleted, NamespaceRemoved,
         ClusterTypeOK, cluster
  <2>2. ProcessTypeOK'
    BY <1>32, PlanTypes DEF NamespaceContentDeleted, NamespaceRemoved, Jump, Goto, Finish,
         ProcessTypeOK, process
  <2>3. BudgetTypeOK'
    BY <1>32, FaultType, UnchangedTypes DEF NamespaceContentDeleted, NamespaceRemoved
  <2> QED BY <2>1, <2>2, <2>3 DEF TypeOK
<1>33. CASE UNCHANGED vars
  BY <1>33, UnchangedTypes DEF vars, TypeOK, cluster, process
<1> QED
  BY <1>1, <1>2, <1>3, <1>4, <1>5, <1>6, <1>7, <1>8, <1>9, <1>10, <1>11, <1>12, <1>13, <1>14,
       <1>15, <1>16, <1>17, <1>18, <1>19, <1>20, <1>21, <1>22, <1>23, <1>24, <1>25, <1>26, <1>27,
       <1>28, <1>29, <1>30, <1>31, <1>32, <1>33 DEF Next, RoxieStep, ClusterStep

\* The initial state has the types.
LEMMA TypeInit == Init => TypeOK
  BY ConstantsAssumption DEF Init, TypeOK, ClusterTypeOK, ProcessTypeOK, BudgetTypeOK, Versions,
       VersionOrNone, NoOperator, NoSubscription, Configs, AllOperatorNamespaces, Labels, ReturnPoints

\* Every variable of the operator model keeps its type.
THEOREM TypeCorrect == Spec => []TypeOK
  BY TypeInit, TypeStep, PTL DEF Spec

(***************************************************************************)
(* The inductive invariant, conjunct by conjunct.                          *)
(***************************************************************************)
\* The actions that can change a namespace, a deployment or the Subscription.
LEMMA ObjectFrame ==
  ASSUME [Next]_vars
  PROVE  \/ UNCHANGED <<ns, dep, sub>>
         \/ DeleteOperatorNamespace \/ DeleteOLMNamespace \/ DeleteSubscription
         \/ PrepareNamespace \/ CreateDeployment \/ CreateSubscription
         \/ WaitForAndApproveInstallPlan \/ OLMProposesInstallPlan \/ OLMInstalls \/ OLMCollects
         \/ \E n \in AllOperatorNamespaces : NamespaceContentDeleted(n)
         \/ \E n \in AllOperatorNamespaces : NamespaceRemoved(n)
<1>1. ASSUME Start \/ GiveUp PROVE UNCHANGED <<ns, dep, sub>>
  BY <1>1 DEF Start, StartDeploy, StartTeardown, GiveUp, cluster
<1>2. ASSUME \/ EnsureCRDsInstalled \/ TeardownStaleOperatorNamespaces \/ DetectOperatorDeploymentMode
             \/ TeardownOperatorElsewhere \/ WaitForNamespaceDeletion \/ TeardownOperatorNonOLM
             \/ CheckOperatorExists \/ CheckOperatorImage \/ CheckOLMOperatorImage
             \/ CheckOLMInstalled \/ WaitForOperatorReady \/ WaitForCSVSuccess
      PROVE  UNCHANGED <<ns, dep, sub>>
  BY <1>2 DEF EnsureCRDsInstalled, TeardownStaleOperatorNamespaces, DetectOperatorDeploymentMode,
              TeardownOperatorElsewhere, WaitForNamespaceDeletion, TeardownOperatorNonOLM,
              CheckOperatorExists, CheckOperatorImage, CheckOLMOperatorImage,
              CheckOLMInstalled, WaitForOperatorReady, WaitForCSVSuccess, cluster
<1>3. ASSUME \/ ApplyCRD("crdInstall", "stale") \/ ApplyCRD("crdUpgrade", "prepare")
             \/ DeleteClusterRoleBinding \/ DeleteClusterRole
             \/ DeleteCSV \/ CreateClusterRole \/ CreateClusterRoleBinding
      PROVE  UNCHANGED <<ns, dep, sub>>
  BY <1>3 DEF ApplyCRD, DeleteClusterRoleBinding, DeleteClusterRole, DeleteRBAC, DeleteCSV,
              CreateClusterRole, CreateClusterRoleBinding
<1> QED
  BY <1>1, <1>2, <1>3 DEF Next, RoxieStep, ClusterStep, vars

\* Without a budget for swallowed errors none is swallowed.
LEMMA NoFaults == ASSUME BudgetTypeOK, MaxFaults = 0 PROVE ~Fault
  BY DEF BudgetTypeOK, Fault

\* ObjectsInNamespaces: an object is only created in an active namespace, and a
\* namespace is only removed when it is empty.
LEMMA ObjectsInNamespacesStep ==
  ASSUME ClusterTypeOK, ProcessTypeOK, ControlOK, ObjectsInNamespaces, [Next]_vars
  PROVE  ObjectsInNamespaces'
<1> USE DEF ObjectsInNamespaces, OperatorExists, NoOperator, NoSubscription, SystemHoldsOLM,
     ClusterTypeOK, ProcessTypeOK, Configs, ControlOK, OLMLabels, AllOperatorNamespaces, Versions
<1>0. CASE UNCHANGED <<ns, dep, sub>>
  BY <1>0
<1>1. CASE DeleteOperatorNamespace
  BY <1>1 DEF DeleteOperatorNamespace, DeleteNamespace, Silently
<1>2. CASE DeleteSubscription
  BY <1>2 DEF DeleteSubscription, Silently
<1>3. CASE DeleteOLMNamespace
  BY <1>3 DEF DeleteOLMNamespace, Silently
<1>4. CASE PrepareNamespace
  BY <1>4 DEF PrepareNamespace, Sees
<1>5. CASE CreateDeployment
  BY <1>5 DEF CreateDeployment
<1>6. CASE CreateSubscription
  BY <1>6 DEF CreateSubscription
<1>7. CASE WaitForAndApproveInstallPlan
  BY <1>7 DEF WaitForAndApproveInstallPlan
<1>8. CASE \E n \in AllOperatorNamespaces : NamespaceContentDeleted(n)
  <2> PICK n \in AllOperatorNamespaces : NamespaceContentDeleted(n)
    BY <1>8
  <2> QED BY DEF NamespaceContentDeleted
<1>9. CASE \E n \in AllOperatorNamespaces : NamespaceRemoved(n)
  <2> PICK n \in AllOperatorNamespaces : NamespaceRemoved(n)
    BY <1>9
  <2> QED BY DEF NamespaceRemoved
<1>10. CASE OLMProposesInstallPlan
  BY <1>10 DEF OLMProposesInstallPlan
<1>11. CASE OLMInstalls
  BY <1>11 DEF OLMInstalls, OLMCanInstall
<1>12. CASE OLMCollects
  BY <1>12 DEF OLMCollects
<1> QED
  BY <1>0, <1>1, <1>2, <1>3, <1>4, <1>5, <1>6, <1>7, <1>8, <1>9, <1>10, <1>11, <1>12, ObjectFrame

\* ControlOK: every jump hands on what the code at its target relies on.
LEMMA ControlOKStep ==
  ASSUME ProcessTypeOK, ControlOK, [Next]_vars
  PROVE  ControlOK'
<1> USE DEF ControlOK, ProcessTypeOK, Jump, Goto, Finish, After, FirstInstance, LastInstance,
     OperatorInstances, HasMixedVersions, TeardownLabels, OLMTeardownLabels, CreateLabels,
     InstanceLabels, OLMLabels, AllOperatorNamespaces, Configs, OperatorExists, process
<1>1. CASE Start
  BY <1>1 DEF Start, StartDeploy, StartTeardown
<1>2. CASE GiveUp
  BY <1>2 DEF GiveUp
<1>3. CASE EnsureCRDsInstalled
  BY <1>3 DEF EnsureCRDsInstalled, Sees
<1>4. CASE ApplyCRD("crdInstall", "stale") \/ ApplyCRD("crdUpgrade", "prepare")
  BY <1>4 DEF ApplyCRD
<1>5. CASE TeardownStaleOperatorNamespaces
  BY <1>5 DEF TeardownStaleOperatorNamespaces, NextStale, IsStale, Sees
<1>6. CASE DetectOperatorDeploymentMode
  BY <1>6 DEF DetectOperatorDeploymentMode, OnDetected, Sees
<1>7. CASE TeardownOperatorElsewhere
  BY <1>7 DEF TeardownOperatorElsewhere, Sees
<1>8. CASE DeleteOperatorNamespace
  BY <1>8 DEF DeleteOperatorNamespace, DeleteNamespace, Silently
<1>9. CASE DeleteClusterRoleBinding
  BY <1>9 DEF DeleteClusterRoleBinding, DeleteRBAC, Silently
<1>10. CASE DeleteClusterRole
  BY <1>10 DEF DeleteClusterRole, DeleteRBAC, NextRBAC, Silently
<1>11. CASE WaitForNamespaceDeletion
  BY <1>11 DEF WaitForNamespaceDeletion, AfterTeardown, NextStale, DeployInstance, WaitEnds
<1>12. CASE TeardownOperatorNonOLM
  BY <1>12 DEF TeardownOperatorNonOLM, Sees
<1>13. CASE DeleteSubscription
  BY <1>13 DEF DeleteSubscription, Silently, NoSubscription
<1>14. CASE DeleteCSV
  BY <1>14 DEF DeleteCSV, Silently
<1>15. CASE DeleteOLMNamespace
  BY <1>15 DEF DeleteOLMNamespace, Silently
<1>16. CASE CheckOperatorExists
  BY <1>16 DEF CheckOperatorExists, DeployInstance, Sees
<1>17. CASE CheckOperatorImage
  BY <1>17 DEF CheckOperatorImage, NextInstance, Sees
<1>18. CASE CheckOLMOperatorImage
  BY <1>18 DEF CheckOLMOperatorImage, Sees
<1>19. CASE CheckOLMInstalled
  BY <1>19 DEF CheckOLMInstalled
<1>20. CASE PrepareNamespace
  BY <1>20 DEF PrepareNamespace, Sees
<1>21. CASE CreateClusterRole
  BY <1>21 DEF CreateClusterRole
<1>22. CASE CreateClusterRoleBinding
  BY <1>22 DEF CreateClusterRoleBinding
<1>23. CASE CreateDeployment
  BY <1>23 DEF CreateDeployment
<1>24. CASE WaitForOperatorReady
  BY <1>24 DEF WaitForOperatorReady, NextInstance
<1>25. CASE CreateSubscription
  BY <1>25 DEF CreateSubscription, NoSubscription
<1>26. CASE WaitForAndApproveInstallPlan
  BY <1>26 DEF WaitForAndApproveInstallPlan
<1>27. CASE WaitForCSVSuccess
  BY <1>27 DEF WaitForCSVSuccess
<1>28. CASE ClusterStep
  BY <1>28 DEF ClusterStep, NamespaceContentDeleted, NamespaceRemoved, OLMProposesInstallPlan,
       OLMInstalls, OLMCollects
<1>29. CASE UNCHANGED vars
  BY <1>29 DEF vars
<1> QED
  BY <1>1, <1>2, <1>3, <1>4, <1>5, <1>6, <1>7, <1>8, <1>9, <1>10, <1>11, <1>12, <1>13, <1>14,
       <1>15, <1>16, <1>17, <1>18, <1>19, <1>20, <1>21, <1>22, <1>23, <1>24, <1>25, <1>26, <1>27,
       <1>28, <1>29 DEF Next, RoxieStep

\* DeletionStarted: the delete came first, and nobody makes the namespace again.
LEMMA DeletionStartedStep ==
  ASSUME ~Fault, ClusterTypeOK, ProcessTypeOK, DeletionStarted, ControlOK, [Next]_vars
  PROVE  DeletionStarted'
<1> USE DEF DeletionStarted, ClusterTypeOK, ProcessTypeOK, Jump, Goto, Finish, ControlOK,
     TeardownLabels, OLMTeardownLabels, CreateLabels, InstanceLabels, OLMLabels,
     AllOperatorNamespaces, process
<1>1. CASE Start
  BY <1>1 DEF Start, StartDeploy, StartTeardown
<1>2. CASE GiveUp
  BY <1>2 DEF GiveUp
<1>3. CASE EnsureCRDsInstalled
  BY <1>3 DEF EnsureCRDsInstalled, Sees
<1>4. CASE ApplyCRD("crdInstall", "stale") \/ ApplyCRD("crdUpgrade", "prepare")
  BY <1>4 DEF ApplyCRD
<1>5. CASE TeardownStaleOperatorNamespaces
  BY <1>5 DEF TeardownStaleOperatorNamespaces, NextStale, IsStale, OperatorExists, Sees
<1>6. CASE DetectOperatorDeploymentMode
  BY <1>6 DEF DetectOperatorDeploymentMode, OnDetected, Sees
<1>7. CASE TeardownOperatorElsewhere
  BY <1>7 DEF TeardownOperatorElsewhere, OperatorExists, Sees
<1>8. CASE DeleteOperatorNamespace
  BY <1>8 DEF DeleteOperatorNamespace, DeleteNamespace, Silently
<1>9. CASE DeleteClusterRoleBinding
  BY <1>9 DEF DeleteClusterRoleBinding, DeleteRBAC, Silently
<1>10. CASE DeleteClusterRole
  BY <1>10 DEF DeleteClusterRole, DeleteRBAC, NextRBAC, Silently
<1>11. CASE WaitForNamespaceDeletion
  BY <1>11 DEF WaitForNamespaceDeletion, AfterTeardown, NextStale, DeployInstance, WaitEnds
<1>12. CASE TeardownOperatorNonOLM
  BY <1>12 DEF TeardownOperatorNonOLM, Sees
<1>13. CASE DeleteSubscription
  BY <1>13 DEF DeleteSubscription, Silently, NoSubscription
<1>14. CASE DeleteCSV
  BY <1>14 DEF DeleteCSV, Silently
<1>15. CASE DeleteOLMNamespace
  BY <1>15 DEF DeleteOLMNamespace, Silently
<1>16. CASE CheckOperatorExists
  BY <1>16 DEF CheckOperatorExists, DeployInstance, Sees
<1>17. CASE CheckOperatorImage
  BY <1>17 DEF CheckOperatorImage, NextInstance, Sees
<1>18. CASE CheckOLMOperatorImage
  BY <1>18 DEF CheckOLMOperatorImage, Sees
<1>19. CASE CheckOLMInstalled
  BY <1>19 DEF CheckOLMInstalled
<1>20. CASE PrepareNamespace
  BY <1>20 DEF PrepareNamespace, Sees
<1>21. CASE CreateClusterRole
  BY <1>21 DEF CreateClusterRole
<1>22. CASE CreateClusterRoleBinding
  BY <1>22 DEF CreateClusterRoleBinding
<1>23. CASE CreateDeployment
  BY <1>23 DEF CreateDeployment
<1>24. CASE WaitForOperatorReady
  BY <1>24 DEF WaitForOperatorReady, NextInstance
<1>25. CASE CreateSubscription
  BY <1>25 DEF CreateSubscription, NoSubscription
<1>26. CASE WaitForAndApproveInstallPlan
  BY <1>26 DEF WaitForAndApproveInstallPlan
<1>27. CASE WaitForCSVSuccess
  BY <1>27 DEF WaitForCSVSuccess
<1>28. CASE \E n \in AllOperatorNamespaces : NamespaceContentDeleted(n)
  <2> PICK n \in AllOperatorNamespaces : NamespaceContentDeleted(n)
    BY <1>28
  <2> QED BY DEF NamespaceContentDeleted
<1>29. CASE \E n \in AllOperatorNamespaces : NamespaceRemoved(n)
  <2> PICK n \in AllOperatorNamespaces : NamespaceRemoved(n)
    BY <1>29
  <2> QED BY DEF NamespaceRemoved
<1>30. CASE OLMProposesInstallPlan
  BY <1>30 DEF OLMProposesInstallPlan
<1>31. CASE OLMInstalls
  BY <1>31 DEF OLMInstalls, OLMCanInstall
<1>32. CASE OLMCollects
  BY <1>32 DEF OLMCollects
<1>33. CASE UNCHANGED vars
  BY <1>33 DEF vars
<1> QED
  BY <1>1, <1>2, <1>3, <1>4, <1>5, <1>6, <1>7, <1>8, <1>9, <1>10, <1>11, <1>12, <1>13, <1>14,
       <1>15, <1>16, <1>17, <1>18, <1>19, <1>20, <1>21, <1>22, <1>23, <1>24, <1>25, <1>26, <1>27,
       <1>28, <1>29, <1>30, <1>31, <1>32, <1>33 DEF Next, RoxieStep, ClusterStep

\* StaleGone: the loop leaves a namespace when it is gone, and no instance is
\* prepared outside the plan.
LEMMA StaleGoneStep ==
  ASSUME ~Fault, ClusterTypeOK, ProcessTypeOK, ObjectsInNamespaces, ControlOK, DeletionStarted, StaleGone, [Next]_vars
  PROVE  StaleGone'
<1> USE DEF StaleGone, ClusterTypeOK, ProcessTypeOK, Jump, Goto, Finish, After, FirstInstance,
     LastInstance, OperatorInstances, HasMixedVersions, TeardownLabels, OLMTeardownLabels,
     CreateLabels, InstanceLabels, OLMLabels, Passed, PastStaleLoop, InStaleLoop, ControlOK,
     DeletionStarted, ObjectsInNamespaces, OperatorExists, IsStale, AllOperatorNamespaces,
     Configs, process, cluster
<1>1. CASE Start
  BY <1>1 DEF Start, StartDeploy, StartTeardown
<1>2. CASE GiveUp
  BY <1>2 DEF GiveUp
<1>3. CASE EnsureCRDsInstalled
  BY <1>3 DEF EnsureCRDsInstalled, Sees
<1>4. CASE ApplyCRD("crdInstall", "stale") \/ ApplyCRD("crdUpgrade", "prepare")
  BY <1>4 DEF ApplyCRD
<1>5. CASE TeardownStaleOperatorNamespaces
  BY <1>5 DEF TeardownStaleOperatorNamespaces, NextStale, Sees
<1>6. CASE DetectOperatorDeploymentMode
  BY <1>6 DEF DetectOperatorDeploymentMode, OnDetected, Sees
<1>7. CASE TeardownOperatorElsewhere
  BY <1>7 DEF TeardownOperatorElsewhere, Sees
<1>8. CASE DeleteOperatorNamespace
  BY <1>8 DEF DeleteOperatorNamespace, DeleteNamespace, Silently
<1>9. CASE DeleteClusterRoleBinding
  BY <1>9 DEF DeleteClusterRoleBinding, DeleteRBAC, Silently
<1>10. CASE DeleteClusterRole
  BY <1>10 DEF DeleteClusterRole, DeleteRBAC, NextRBAC, Silently
<1>11. CASE WaitForNamespaceDeletion
  BY <1>11 DEF WaitForNamespaceDeletion, AfterTeardown, NextStale, DeployInstance, WaitEnds
<1>12. CASE TeardownOperatorNonOLM
  BY <1>12 DEF TeardownOperatorNonOLM, Sees
<1>13. CASE DeleteSubscription
  BY <1>13 DEF DeleteSubscription, Silently, NoSubscription
<1>14. CASE DeleteCSV
  BY <1>14 DEF DeleteCSV, Silently
<1>15. CASE DeleteOLMNamespace
  BY <1>15 DEF DeleteOLMNamespace, Silently
<1>16. CASE CheckOperatorExists
  BY <1>16 DEF CheckOperatorExists, DeployInstance, Sees
<1>17. CASE CheckOperatorImage
  BY <1>17 DEF CheckOperatorImage, NextInstance, Sees
<1>18. CASE CheckOLMOperatorImage
  BY <1>18 DEF CheckOLMOperatorImage, Sees
<1>19. CASE CheckOLMInstalled
  BY <1>19 DEF CheckOLMInstalled
<1>20. CASE PrepareNamespace
  BY <1>20 DEF PrepareNamespace, Sees
<1>21. CASE CreateClusterRole
  BY <1>21 DEF CreateClusterRole
<1>22. CASE CreateClusterRoleBinding
  BY <1>22 DEF CreateClusterRoleBinding
<1>23. CASE CreateDeployment
  BY <1>23 DEF CreateDeployment
<1>24. CASE WaitForOperatorReady
  BY <1>24 DEF WaitForOperatorReady, NextInstance
<1>25. CASE CreateSubscription
  BY <1>25 DEF CreateSubscription, NoSubscription
<1>26. CASE WaitForAndApproveInstallPlan
  BY <1>26 DEF WaitForAndApproveInstallPlan
<1>27. CASE WaitForCSVSuccess
  BY <1>27 DEF WaitForCSVSuccess
<1>28. CASE \E n \in AllOperatorNamespaces : NamespaceContentDeleted(n)
  <2> PICK n \in AllOperatorNamespaces : NamespaceContentDeleted(n)
    BY <1>28
  <2> QED BY DEF NamespaceContentDeleted
<1>29. CASE \E n \in AllOperatorNamespaces : NamespaceRemoved(n)
  <2> PICK n \in AllOperatorNamespaces : NamespaceRemoved(n)
    BY <1>29
  <2> QED BY DEF NamespaceRemoved
<1>30. CASE OLMProposesInstallPlan
  BY <1>30 DEF OLMProposesInstallPlan
<1>31. CASE OLMInstalls
  BY <1>31 DEF OLMInstalls, OLMCanInstall
<1>32. CASE OLMCollects
  BY <1>32 DEF OLMCollects
<1>33. CASE UNCHANGED vars
  BY <1>33 DEF vars
<1> QED
  BY <1>1, <1>2, <1>3, <1>4, <1>5, <1>6, <1>7, <1>8, <1>9, <1>10, <1>11, <1>12, <1>13, <1>14,
       <1>15, <1>16, <1>17, <1>18, <1>19, <1>20, <1>21, <1>22, <1>23, <1>24, <1>25, <1>26, <1>27,
       <1>28, <1>29, <1>30, <1>31, <1>32, <1>33 DEF Next, RoxieStep, ClusterStep

\* SystemExclusive: when an operator or a Subscription is created, the namespaces
\* outside the plan are absent.
LEMMA SystemExclusiveStep ==
  ASSUME ~Fault, ClusterTypeOK, ProcessTypeOK, ObjectsInNamespaces, ControlOK, StaleGone, NothingToReplace, SystemExclusive, [Next]_vars
  PROVE  SystemExclusive'
<1> USE DEF SystemExclusive, ClusterTypeOK, ProcessTypeOK, OperatorExists, NoOperator,
     NoSubscription, Jump, Goto, Finish, After, FirstInstance, LastInstance, OperatorInstances,
     HasMixedVersions, TeardownLabels, OLMTeardownLabels, CreateLabels, InstanceLabels, OLMLabels,
     Passed, PastStaleLoop, ControlOK, StaleGone, NothingToReplace, ObjectsInNamespaces,
     AllOperatorNamespaces, Configs
<1>0. CASE UNCHANGED <<ns, dep, sub>>
  BY <1>0
<1>1. CASE DeleteOperatorNamespace
  BY <1>1 DEF DeleteOperatorNamespace, DeleteNamespace, Silently
<1>2. CASE DeleteSubscription
  BY <1>2 DEF DeleteSubscription, Silently
<1>3. CASE DeleteOLMNamespace
  BY <1>3 DEF DeleteOLMNamespace, Silently
<1>4. CASE PrepareNamespace
  BY <1>4 DEF PrepareNamespace, Sees
<1>5. CASE CreateDeployment
  BY <1>5 DEF CreateDeployment
<1>6. CASE CreateSubscription
  BY <1>6 DEF CreateSubscription
<1>7. CASE WaitForAndApproveInstallPlan
  BY <1>7 DEF WaitForAndApproveInstallPlan
<1>8. CASE \E n \in AllOperatorNamespaces : NamespaceContentDeleted(n)
  <2> PICK n \in AllOperatorNamespaces : NamespaceContentDeleted(n)
    BY <1>8
  <2> QED BY DEF NamespaceContentDeleted
<1>9. CASE \E n \in AllOperatorNamespaces : NamespaceRemoved(n)
  <2> PICK n \in AllOperatorNamespaces : NamespaceRemoved(n)
    BY <1>9
  <2> QED BY DEF NamespaceRemoved
<1>10. CASE OLMProposesInstallPlan
  BY <1>10 DEF OLMProposesInstallPlan
<1>11. CASE OLMInstalls
  BY <1>11 DEF OLMInstalls, OLMCanInstall
<1>12. CASE OLMCollects
  BY <1>12 DEF OLMCollects
<1> QED
  BY <1>0, <1>1, <1>2, <1>3, <1>4, <1>5, <1>6, <1>7, <1>8, <1>9, <1>10, <1>11, <1>12, ObjectFrame

\* NothingToReplace: detection found no Subscription, and the old deployment went
\* with its namespace.
LEMMA NothingToReplaceStep ==
  ASSUME ~Fault, ClusterTypeOK, ProcessTypeOK, ObjectsInNamespaces, ControlOK, DeletionStarted, StaleGone, NothingToReplace, [Next]_vars
  PROVE  NothingToReplace'
<1> USE DEF NothingToReplace, ClusterTypeOK, ProcessTypeOK, OperatorExists, NoOperator,
     NoSubscription, Jump, Goto, Finish, After, FirstInstance, LastInstance, OperatorInstances,
     HasMixedVersions, TeardownLabels, OLMTeardownLabels, CreateLabels, InstanceLabels, OLMLabels,
     Passed, PastStaleLoop, InStaleLoop, ControlOK, DeletionStarted, StaleGone,
     ObjectsInNamespaces, AllOperatorNamespaces, Configs, process, cluster
<1>1. CASE Start
  BY <1>1 DEF Start, StartDeploy, StartTeardown
<1>2. CASE GiveUp
  BY <1>2 DEF GiveUp
<1>3. CASE EnsureCRDsInstalled
  BY <1>3 DEF EnsureCRDsInstalled, Sees
<1>4. CASE ApplyCRD("crdInstall", "stale") \/ ApplyCRD("crdUpgrade", "prepare")
  BY <1>4 DEF ApplyCRD
<1>5. CASE TeardownStaleOperatorNamespaces
  BY <1>5 DEF TeardownStaleOperatorNamespaces, NextStale, IsStale, Sees
<1>6. CASE DetectOperatorDeploymentMode
  BY <1>6 DEF DetectOperatorDeploymentMode, OnDetected, Sees
<1>7. CASE TeardownOperatorElsewhere
  BY <1>7 DEF TeardownOperatorElsewhere, Sees
<1>8. CASE DeleteOperatorNamespace
  BY <1>8 DEF DeleteOperatorNamespace, DeleteNamespace, Silently
<1>9. CASE DeleteClusterRoleBinding
  BY <1>9 DEF DeleteClusterRoleBinding, DeleteRBAC, Silently
<1>10. CASE DeleteClusterRole
  BY <1>10 DEF DeleteClusterRole, DeleteRBAC, NextRBAC, Silently
<1>11. CASE WaitForNamespaceDeletion
  BY <1>11 DEF WaitForNamespaceDeletion, AfterTeardown, NextStale, DeployInstance, WaitEnds
<1>12. CASE TeardownOperatorNonOLM
  BY <1>12 DEF TeardownOperatorNonOLM, Sees
<1>13. CASE DeleteSubscription
  BY <1>13 DEF DeleteSubscription, Silently
<1>14. CASE DeleteCSV
  BY <1>14 DEF DeleteCSV, Silently
<1>15. CASE DeleteOLMNamespace
  BY <1>15 DEF DeleteOLMNamespace, Silently
<1>16. CASE CheckOperatorExists
  BY <1>16 DEF CheckOperatorExists, DeployInstance, Sees
<1>17. CASE CheckOperatorImage
  BY <1>17 DEF CheckOperatorImage, NextInstance, Sees
<1>18. CASE CheckOLMOperatorImage
  BY <1>18 DEF CheckOLMOperatorImage, Sees
<1>19. CASE CheckOLMInstalled
  BY <1>19 DEF CheckOLMInstalled
<1>20. CASE PrepareNamespace
  BY <1>20 DEF PrepareNamespace, Sees
<1>21. CASE CreateClusterRole
  BY <1>21 DEF CreateClusterRole
<1>22. CASE CreateClusterRoleBinding
  BY <1>22 DEF CreateClusterRoleBinding
<1>23. CASE CreateDeployment
  BY <1>23 DEF CreateDeployment
<1>24. CASE WaitForOperatorReady
  BY <1>24 DEF WaitForOperatorReady, NextInstance
<1>25. CASE CreateSubscription
  BY <1>25 DEF CreateSubscription
<1>26. CASE WaitForAndApproveInstallPlan
  BY <1>26 DEF WaitForAndApproveInstallPlan
<1>27. CASE WaitForCSVSuccess
  BY <1>27 DEF WaitForCSVSuccess
<1>28. CASE \E n \in AllOperatorNamespaces : NamespaceContentDeleted(n)
  <2> PICK n \in AllOperatorNamespaces : NamespaceContentDeleted(n)
    BY <1>28
  <2> QED BY DEF NamespaceContentDeleted
<1>29. CASE \E n \in AllOperatorNamespaces : NamespaceRemoved(n)
  <2> PICK n \in AllOperatorNamespaces : NamespaceRemoved(n)
    BY <1>29
  <2> QED BY DEF NamespaceRemoved
<1>30. CASE OLMProposesInstallPlan
  BY <1>30 DEF OLMProposesInstallPlan
<1>31. CASE OLMInstalls
  BY <1>31 DEF OLMInstalls, OLMCanInstall
<1>32. CASE OLMCollects
  BY <1>32 DEF OLMCollects
<1>33. CASE UNCHANGED vars
  BY <1>33 DEF vars
<1> QED
  BY <1>1, <1>2, <1>3, <1>4, <1>5, <1>6, <1>7, <1>8, <1>9, <1>10, <1>11, <1>12, <1>13, <1>14,
       <1>15, <1>16, <1>17, <1>18, <1>19, <1>20, <1>21, <1>22, <1>23, <1>24, <1>25, <1>26, <1>27,
       <1>28, <1>29, <1>30, <1>31, <1>32, <1>33 DEF Next, RoxieStep, ClusterStep

LEMMA IndInvInit == Init => IndInv
<1> SUFFICES ASSUME Init PROVE IndInv
  OBVIOUS
<1>1. TypeOK
  BY TypeInit
<1>2. ObjectsInNamespaces /\ SystemExclusive /\ NothingToReplace
  BY DEF Init, ObjectsInNamespaces, SystemExclusive, NothingToReplace, OperatorExists, NoOperator,
         NoSubscription, AllOperatorNamespaces, CreateLabels, InstanceLabels, TeardownLabels
<1>3. ControlOK /\ DeletionStarted
  BY DEF Init, ControlOK, DeletionStarted, InstanceLabels, CreateLabels, OLMLabels,
         OLMTeardownLabels, TeardownLabels
<1>4. StaleGone
  BY DEF Init, StaleGone, Passed, PastStaleLoop, InStaleLoop, InstanceLabels, CreateLabels,
         OLMLabels, OLMTeardownLabels, TeardownLabels
<1> QED BY <1>1, <1>2, <1>3, <1>4 DEF IndInv

LEMMA IndInvStep ==
  ASSUME MaxFaults = 0, IndInv, [Next]_vars
  PROVE  IndInv'
<1>1. TypeOK'
  BY TypeStep DEF IndInv
<1>2. ~Fault
  BY NoFaults DEF IndInv, TypeOK
<1> QED
  BY <1>1, <1>2, ObjectsInNamespacesStep, SystemExclusiveStep, ControlOKStep, DeletionStartedStep,
     StaleGoneStep, NothingToReplaceStep DEF IndInv, TypeOK

\* IndInv holds in every state of a system whose errors are all reported.
THEOREM Inductive == ASSUME MaxFaults = 0 PROVE Spec => []IndInv
<1>1. Init => IndInv
  BY IndInvInit
<1>2. IndInv /\ [Next]_vars => IndInv'
  BY IndInvStep
<1> QED BY <1>1, <1>2, PTL DEF Spec

(***************************************************************************)
(* What follows from it.                                                   *)
(***************************************************************************)
\* SystemExclusive is what NoDoubleReconcile asks: only the system operator
\* shares a kind with another one.
LEMMA ExclusiveIsEnough ==
  /\ SystemExclusive => NoDoubleReconcile
  /\ SystemExclusive' => NoDoubleReconcile'
  BY DEF SystemExclusive, NoDoubleReconcile, Reconciles, Kinds, AllOperatorNamespaces

\* A new operator acquires the kinds it reconciles: nobody else holds them.
LEMMA AcquireStep ==
  ASSUME NEW n \in AllOperatorNamespaces, NEW d \in [ver : VersionOrNone, olm : BOOLEAN],
         dep \in [AllOperatorNamespaces -> [ver : VersionOrNone, olm : BOOLEAN]],
         ~OperatorExists(n), d # NoOperator, dep' = [dep EXCEPT ![n] = d], NoDoubleReconcile'
  PROVE  Handover!Acquire(Reconciles(n), <<n, d>>)
<1>1. OperatorExists(n)'
  BY DEF OperatorExists
<1>2. \A m \in AllOperatorNamespaces : m # n =>
       dep'[m] = dep[m] /\ (OperatorExists(m)' <=> OperatorExists(m))
  BY DEF OperatorExists
<1>3. \A m \in AllOperatorNamespaces : OperatorExists(m) => Reconciles(m) \cap Reconciles(n) = {}
  BY <1>1, <1>2 DEF NoDoubleReconcile
<1>4. \A k \in Kinds : k \in Reconciles(n) => RunningReconcilers[k] = {}
  BY <1>3 DEF RunningReconcilers
<1>5. ASSUME NEW k \in Kinds, k \in Reconciles(n) PROVE RunningReconcilers'[k] = {<<n, d>>}
  BY <1>1, <1>2, <1>3, <1>5 DEF RunningReconcilers
<1>6. ASSUME NEW k \in Kinds, k \notin Reconciles(n) PROVE RunningReconcilers'[k] = RunningReconcilers[k]
  <2>1. \A m \in AllOperatorNamespaces : k \in Reconciles(m) => m # n
    BY <1>6
  <2> QED BY <2>1, <1>2 DEF RunningReconcilers
<1>7. Reconciles(n) \subseteq Kinds
  BY DEF Reconciles, Kinds, AllOperatorNamespaces
<1>8. RunningReconcilers' = [k \in Kinds |-> IF k \in Reconciles(n) THEN {<<n, d>>} ELSE RunningReconcilers[k]]
  BY <1>5, <1>6 DEF RunningReconcilers
<1> QED BY <1>4, <1>7, <1>8 DEF Handover!Acquire

\* An operator that disappears releases its kinds: it held them alone.
LEMMA ReleaseStep ==
  ASSUME NEW n \in AllOperatorNamespaces,
         dep \in [AllOperatorNamespaces -> [ver : VersionOrNone, olm : BOOLEAN]],
         OperatorExists(n), dep' = [dep EXCEPT ![n] = NoOperator], NoDoubleReconcile
  PROVE  Handover!Release(Reconciles(n))
<1>1. ~OperatorExists(n)'
  BY DEF OperatorExists
<1>2. \A m \in AllOperatorNamespaces : m # n =>
       dep'[m] = dep[m] /\ (OperatorExists(m)' <=> OperatorExists(m))
  BY DEF OperatorExists
<1>3. \A m \in AllOperatorNamespaces : m # n /\ OperatorExists(m) => Reconciles(m) \cap Reconciles(n) = {}
  BY DEF NoDoubleReconcile
<1>4. ASSUME NEW k \in Kinds, k \in Reconciles(n) PROVE RunningReconcilers'[k] = {}
  BY <1>1, <1>2, <1>3, <1>4 DEF RunningReconcilers
<1>5. ASSUME NEW k \in Kinds, k \notin Reconciles(n) PROVE RunningReconcilers'[k] = RunningReconcilers[k]
  <2>1. \A m \in AllOperatorNamespaces : k \in Reconciles(m) => m # n
    BY <1>5
  <2> QED BY <2>1, <1>2 DEF RunningReconcilers
<1>6. RunningReconcilers' = [k \in Kinds |-> IF k \in Reconciles(n) THEN {} ELSE RunningReconcilers[k]]
  BY <1>4, <1>5 DEF RunningReconcilers
<1> QED BY <1>6 DEF Handover!Release

\* Every step is an Acquire, a Release or a stutter of ReconcilerHandover.
LEMMA HandoverStep ==
  ASSUME ClusterTypeOK, ProcessTypeOK, ClusterTypeOK', ControlOK, NothingToReplace,
         NoDoubleReconcile, NoDoubleReconcile', [Next]_vars
  PROVE  [Handover!Next]_RunningReconcilers
<1> USE DEF ClusterTypeOK
<1>k \A n \in AllOperatorNamespaces : Reconciles(n) \in SUBSET Kinds
  BY DEF Reconciles, Kinds, AllOperatorNamespaces
<1>0. CASE UNCHANGED dep
  BY <1>0 DEF RunningReconcilers, OperatorExists
<1>1. CASE CreateDeployment /\ ~UNCHANGED dep
  <2> DEFINE new == [ver |-> InstanceVersion(cfg, cur), olm |-> FALSE]
  <2>1. dep' = [dep EXCEPT ![cur] = new] /\ ~OperatorExists(cur)
    BY <1>1 DEF CreateDeployment, NothingToReplace, CreateLabels
  <2>2. new # NoOperator /\ cur \in AllOperatorNamespaces
    BY DEF NoOperator, InstanceVersion, ProcessTypeOK, Configs, Versions
  <2>3. new = dep'[cur]
    BY <2>1, <2>2
  <2>4. new \in [ver : VersionOrNone, olm : BOOLEAN]
    BY <2>2, <2>3
  <2>5. Handover!Acquire(Reconciles(cur), <<cur, new>>)
    BY <2>1, <2>2, <2>4, AcquireStep
  <2>6. <<cur, new>> \in AllOperatorNamespaces \X [ver : VersionOrNone, olm : BOOLEAN]
    BY <2>2, <2>4
  <2> QED BY <2>2, <2>5, <2>6, <1>k DEF Handover!Next
<1>2. CASE OLMInstalls
  <2> DEFINE new == [ver |-> sub.ver, olm |-> TRUE]
  <2>1. /\ dep' = [dep EXCEPT !["system"] = new] /\ ~OperatorExists("system")
        /\ "system" \in AllOperatorNamespaces
    BY <1>2 DEF OLMInstalls, OLMCanInstall, AllOperatorNamespaces
  <2>2. new # NoOperator /\ new \in [ver : VersionOrNone, olm : BOOLEAN]
    BY DEF NoOperator
  <2>3. Handover!Acquire(Reconciles("system"), <<"system", new>>)
    BY <2>1, <2>2, AcquireStep
  <2>4. <<"system", new>> \in AllOperatorNamespaces \X [ver : VersionOrNone, olm : BOOLEAN]
    BY <2>1, <2>2
  <2> QED BY <2>1, <2>3, <2>4, <1>k DEF Handover!Next
<1>3. ASSUME NEW n \in AllOperatorNamespaces, OperatorExists(n), dep' = [dep EXCEPT ![n] = NoOperator]
      PROVE  [Handover!Next]_RunningReconcilers
  BY <1>3, <1>k, ReleaseStep DEF Handover!Next
<1>4. CASE (\E n \in AllOperatorNamespaces : NamespaceContentDeleted(n)) /\ ~UNCHANGED dep
  <2> PICK n \in AllOperatorNamespaces : NamespaceContentDeleted(n)
    BY <1>4
  <2>1. dep' = [dep EXCEPT ![n] = NoOperator]
    BY DEF NamespaceContentDeleted
  <2>2. OperatorExists(n)
    BY <1>4, <2>1 DEF OperatorExists
  <2> QED BY <1>3, <2>1, <2>2
<1>5. CASE OLMCollects /\ ~UNCHANGED dep
  <2>1. dep' = [dep EXCEPT !["system"] = NoOperator] /\ OperatorExists("system") /\ "system" \in AllOperatorNamespaces
    BY <1>5 DEF OLMCollects, OperatorExists, NoOperator, AllOperatorNamespaces
  <2> QED BY <1>3, <2>1
<1>6. \/ UNCHANGED dep \/ CreateDeployment \/ OLMInstalls \/ OLMCollects
      \/ \E n \in AllOperatorNamespaces : NamespaceContentDeleted(n)
  BY ObjectFrame DEF DeleteOperatorNamespace, DeleteNamespace, DeleteOLMNamespace,
       DeleteSubscription,
       PrepareNamespace, CreateSubscription, WaitForAndApproveInstallPlan,
       OLMProposesInstallPlan, NamespaceRemoved
<1> QED BY <1>0, <1>1, <1>2, <1>4, <1>5, <1>6

\* Two running operators never reconcile the same kind, whatever sequence of
\* deploys, mode switches, teardowns and interruptions led there.
THEOREM NeverDoubleReconcile == ASSUME MaxFaults = 0 PROVE Spec => []NoDoubleReconcile
<1>1. IndInv => NoDoubleReconcile
  BY ExclusiveIsEnough DEF IndInv
<1> QED BY <1>1, Inductive, PTL

\* The commands implement the handover of reconcilers: an operator starts only
\* when whoever reconciled its kinds before is gone.
THEOREM ImplementsHandover == ASSUME MaxFaults = 0 PROVE Spec => HandoverSpec
<1>1. Init => Handover!Init
  BY DEF Init, Handover!Init, RunningReconcilers, OperatorExists
<1>2. IndInv /\ IndInv' /\ [Next]_vars => [Handover!Next]_RunningReconcilers
  BY HandoverStep, ExclusiveIsEnough DEF IndInv, TypeOK
<1> QED BY <1>1, <1>2, Inductive, PTL DEF Spec, HandoverSpec, Handover!Spec

(***************************************************************************)
(* What uninterrupted commands keep and leave.  A namespace at which the   *)
(* process does no work is bare or holds a whole operator (Tidy); AtHand   *)
(* says how far the work on the current one has come, Elsewhere what the   *)
(* process has made sure of about the others, Unwanted why an operator is  *)
(* being removed.  The CRDs are ahead of the operators (CrdsCurrent).      *)
(***************************************************************************)
\* Nothing of an operator is left in or for a namespace.
Bare(n) ==
  /\ ns[n] = "absent" /\ dep[n] = NoOperator /\ rbac[n] = {}
  /\ n = "system" => sub = NoSubscription /\ csv = 0

\* The operator of a namespace runs, with all that it needs.
Runs(n) ==
  /\ ns[n] = "active" /\ dep[n].ver # 0
  /\ IF dep[n].olm
     THEN n = "system" /\ rbac[n] = {} /\ sub = [ver |-> dep[n].ver, plan |-> "approved"] /\ csv = dep[n].ver
     ELSE rbac[n] = {"role", "binding"} /\ (n = "system" => sub = NoSubscription /\ csv = 0)
RunsAsPlanned(n) == Runs(n) /\ dep[n] = [ver |-> InstanceVersion(cfg, n), olm |-> cfg.olm]

\* Its namespace is being deleted or gone, and these permissions may be left.
Going(n, left) ==
  /\ ns[n] # "active" /\ rbac[n] \subseteq left
  /\ ns[n] = "absent" => ~OperatorExists(n) /\ (n = "system" => sub = NoSubscription /\ csv = 0)

\* Its Subscription is gone, and OLM is collecting the rest.
OLMGoing == /\ ns["system"] = "active" /\ rbac["system"] = {} /\ sub = NoSubscription
            /\ OperatorExists("system") => dep["system"].olm

\* Its namespace is there, and these permissions.
Coming(n, done) ==
  /\ ns[n] = "active" /\ rbac[n] = done /\ ~OperatorExists(n)
  /\ n = "system" => sub = NoSubscription /\ csv = 0

\* Its Subscription is there, and OLM installs it or has installed it.
OLMComing ==
  /\ ns["system"] = "active" /\ rbac["system"] = {} /\ sub.ver = cfg.central
  /\ \/ csv = 0 /\ ~OperatorExists("system")
     \/ csv = cfg.central /\ dep["system"] = [ver |-> cfg.central, olm |-> TRUE] /\ sub.plan = "approved"

\* In all other places of the process every namespace is in one of two states.
Busy == 
  \/ pc \in {"bindingDelete", "roleDelete"} /\ ret # "allRBAC"
  \/ pc \in {"nsWait", "csvDelete", "olmNsDelete", "role", "binding", "deployment", "subscribe", "plan", "csvWait"}
Tidy == \A n \in AllOperatorNamespaces : (n = cur => ~Busy) => Bare(n) \/ Runs(n)

\* What the process knows of the namespace that it works on.
AtHand ==
  /\ pc = "bindingDelete" /\ ret # "allRBAC" => Going(cur, {"role", "binding"})
  /\ pc = "roleDelete" /\ ret # "allRBAC" => Going(cur, {"role"})
  /\ pc = "nsWait" => Going(cur, {})
  /\ pc \in {"csvDelete", "olmNsDelete"} => OLMGoing
  /\ pc = "olmNsDelete" => csv = 0
  /\ pc \in {"role", "subscribe"} => Coming(cur, {})
  /\ pc = "binding" => Coming(cur, {"role"})
  /\ pc = "deployment" => Coming(cur, {"role", "binding"})
  /\ pc \in {"plan", "csvWait"} => OLMComing
  /\ pc = "plan" => csv = 0 /\ sub.plan # "approved"
  /\ pc = "csvWait" => sub.plan = "approved"
  /\ pc \in {"nsDelete", "image", "olmImage", "subDelete"} => Runs(cur)
  /\ pc \in {"olmImage", "subDelete"} => dep[cur].olm
  /\ pc \in {"crdUpgrade", "prepare", "olmCheck"} => Bare(cur)
  /\ pc = "ready" => RunsAsPlanned(cur)

Replacing == pc \in TeardownLabels /\ ret = "replace"
TearingAllDown == pc = "all" \/ (pc \in TeardownLabels /\ ret = "all")

\* What it knows of the others.
Elsewhere ==
  /\ pc \in OLMTeardownLabels \/ (pc = "nsWait" /\ ret = "olm") => Bare("central") /\ Bare("sensor")
  /\ \A n \in AllOperatorNamespaces : Passed(n) /\ n \notin OperatorInstances(cfg) => Bare(n)
  /\ TearingAllDown /\ cur # "system" => Bare("system")
  /\ TearingAllDown /\ cur = "sensor" => Bare("central")
  /\ pc \in {"bindingDelete", "roleDelete"} /\ ret = "allRBAC" => \A n \in AllOperatorNamespaces : Bare(n)
  /\ pc = "others" => Bare("system")
  /\ pc = "crdInstall" => \A n \in AllOperatorNamespaces : Bare(n)
  /\ pc \in TeardownLabels /\ ret = "stale" => \A n \in OperatorInstances(cfg) : Bare(n)
  /\ (pc \in InstanceLabels \/ Replacing) /\ cur = "sensor" => RunsAsPlanned("central")

\* Why the old operator goes.
Unwanted ==
  /\ pc = "nsDelete" /\ ret = "replace" => dep[cur].ver # InstanceVersion(cfg, cur)
  /\ pc = "subDelete" /\ cmd = "deploy" /\ cfg.olm => dep["system"].ver # cfg.central
  /\ cmd = "deploy" /\ cur = "system" /\ (pc = "all" \/ (pc = "nsDelete" /\ ret = "all")) => ~dep["system"].olm

\* What a command that has ended leaves.
Left ==
  pc = "idle" =>
    /\ result # "running"
    /\ IF cmd = "deploy" /\ result = "ok"
       THEN \A n \in AllOperatorNamespaces : IF n \in OperatorInstances(cfg) THEN RunsAsPlanned(n) ELSE Bare(n)
       ELSE \A n \in AllOperatorNamespaces : Bare(n)

\* No CRD is older than an operator that runs. During a deploy that is known up to the newest version of its plan.
CrdsCurrent ==
  IF cmd = "deploy" /\ pc \notin {"idle", "crdCheck"}
  THEN \A n \in AllOperatorNamespaces, c \in Crds :
         dep[n].ver >= NewestOperatorVersion(cfg) => crd[c] >= NewestOperatorVersion(cfg)
  ELSE \A n \in AllOperatorNamespaces, c \in Crds : crd[c] >= dep[n].ver
CrdsApplied ==
  /\ pc = "crdUpgrade" => \A c \in Crds \ crdTodo : crd[c] = NewestOperatorVersion(cfg)
  /\ pc \in {"prepare", "role", "binding", "deployment"} /\ ~cfg.olm
       /\ InstanceVersion(cfg, cur) = NewestOperatorVersion(cfg) =>
       \A c \in Crds : crd[c] = NewestOperatorVersion(cfg)

Orderly == Tidy /\ AtHand /\ Elsewhere /\ Unwanted /\ Left
Undisturbed == Orderly /\ CrdsCurrent /\ CrdsApplied

(***************************************************************************)
(* What a step keeps of a namespace.                                       *)
(***************************************************************************)
\* Without a budget for interruptions no command is interrupted.
LEMMA NoGiveUps == ASSUME BudgetTypeOK, MaxGiveUps = 0 PROVE ~GiveUp
  BY DEF BudgetTypeOK, GiveUp

\* All that the cluster has of the operator of a namespace.
SameAt(n) ==
  /\ ns'[n] = ns[n] /\ dep'[n] = dep[n] /\ rbac'[n] = rbac[n]
  /\ n = "system" => UNCHANGED <<sub, csv>>

\* What is the same stays in the same state.
LEMMA SameState ==
  ASSUME NEW n \in AllOperatorNamespaces, SameAt(n)
  PROVE  /\ Bare(n)' <=> Bare(n)
         /\ Runs(n)' <=> Runs(n)
         /\ \A p \in SUBSET {"role", "binding"} : (Going(n, p)' <=> Going(n, p)) /\ (Coming(n, p)' <=> Coming(n, p))
  BY DEF SameAt, Bare, Runs, Going, Coming, OperatorExists

\* The two states exclude one another.
LEMMA TwoStates ==
  ASSUME NEW n \in AllOperatorNamespaces
  PROVE  /\ Bare(n) => ns[n] = "absent" /\ ~OperatorExists(n) /\ rbac[n] = {}
         /\ Bare(n) /\ n = "system" => sub = NoSubscription /\ csv = 0
         /\ Runs(n) => ns[n] = "active" /\ OperatorExists(n) /\ dep[n].ver # 0
  BY DEF Bare, Runs, OperatorExists, NoOperator

\* roxie and the cluster leave a namespace alone that is in one of them and at which no work has begun.
LEMMA RestKept ==
  ASSUME ~Fault, IndInv, AtHand, Elsewhere, [Next]_vars, NEW n \in AllOperatorNamespaces, Bare(n) \/ Runs(n), n = cur => ~Busy,
         pc' = pc \/ ~(n = cur /\ pc \in {"prepare", "nsDelete"}), pc' = pc \/ ~(n = "system" /\ pc = "subDelete")
  PROVE  SameAt(n)
<1>0. /\ ns \in [AllOperatorNamespaces -> {"absent", "active", "terminating"}]
      /\ dep \in [AllOperatorNamespaces -> [ver : VersionOrNone, olm : BOOLEAN]]
      /\ rbac \in [AllOperatorNamespaces -> SUBSET {"role", "binding"}]
      /\ cur \in AllOperatorNamespaces /\ "system" \in AllOperatorNamespaces
  BY DEF IndInv, TypeOK, ClusterTypeOK, ProcessTypeOK, AllOperatorNamespaces
<1>1. CASE UNCHANGED <<ns, dep, rbac, sub, csv>>
  BY <1>1 DEF SameAt
<1>2. CASE DeleteOperatorNamespace \/ PrepareNamespace
  <2>1. pc' # pc /\ (n = cur => pc \in {"prepare", "nsDelete"})
    BY <1>2 DEF DeleteOperatorNamespace, PrepareNamespace, DeleteNamespace, Goto, Jump, Finish
  <2> QED BY <1>0, <1>2, <2>1 DEF DeleteOperatorNamespace, PrepareNamespace, DeleteNamespace, Silently, SameAt
<1>3. CASE DeleteClusterRoleBinding \/ DeleteClusterRole
  <2>1. n = cur => rbac[n] = {}
    BY <1>0, <1>3, TwoStates DEF DeleteClusterRoleBinding, DeleteClusterRole, Busy, Elsewhere
  <2> QED BY <1>0, <1>3, <2>1 DEF DeleteClusterRoleBinding, DeleteClusterRole, DeleteRBAC, Silently, SameAt
<1>4. CASE DeleteSubscription \/ DeleteCSV \/ DeleteOLMNamespace
  <2>1. cur = "system" /\ n # "system"
    BY <1>4 DEF DeleteSubscription, DeleteCSV, DeleteOLMNamespace, IndInv, ControlOK, OLMTeardownLabels, Busy, Goto, Jump
  <2> QED BY <1>0, <1>4, <2>1 DEF DeleteSubscription, DeleteCSV, DeleteOLMNamespace, Silently, SameAt
<1>5. CASE CreateSubscription \/ WaitForAndApproveInstallPlan
  <2>1. cur = "system" /\ n # "system"
    BY <1>5 DEF CreateSubscription, WaitForAndApproveInstallPlan, IndInv, ControlOK, OLMLabels, Busy
  <2> QED BY <1>5, <2>1 DEF CreateSubscription, WaitForAndApproveInstallPlan, SameAt
<1>6. CASE CreateClusterRole \/ CreateClusterRoleBinding \/ CreateDeployment
  <2>1. n # cur
    BY <1>6 DEF CreateClusterRole, CreateClusterRoleBinding, CreateDeployment, Busy
  <2> QED BY <1>0, <1>6, <2>1 DEF CreateClusterRole, CreateClusterRoleBinding, CreateDeployment, SameAt
<1>7. CASE \E m \in AllOperatorNamespaces : NamespaceContentDeleted(m)
  <2>1. PICK m \in AllOperatorNamespaces : NamespaceContentDeleted(m)
    BY <1>7
  <2>2. m # n
    BY <2>1, TwoStates DEF NamespaceContentDeleted
  <2> QED BY <1>0, <2>1, <2>2 DEF NamespaceContentDeleted, SameAt
<1>8. CASE \E m \in AllOperatorNamespaces : NamespaceRemoved(m)
  <2>1. PICK m \in AllOperatorNamespaces : NamespaceRemoved(m)
    BY <1>8
  <2>2. m # n
    BY <2>1, TwoStates DEF NamespaceRemoved
  <2> QED BY <1>0, <2>1, <2>2 DEF NamespaceRemoved, SameAt
<1>9. CASE OLMProposesInstallPlan \/ OLMInstalls
  <2>1. n # "system"
    BY <1>9 DEF OLMProposesInstallPlan, OLMInstalls, OLMCanInstall, Bare, Runs, OperatorExists, NoOperator, NoSubscription
  <2> QED BY <1>0, <1>9, <2>1 DEF OLMProposesInstallPlan, OLMInstalls, SameAt
<1>10. CASE OLMCollects
  <2>1. n # "system"
    BY <1>10 DEF OLMCollects, Bare, Runs, NoOperator, NoSubscription
  <2> QED BY <1>0, <1>10, <2>1 DEF OLMCollects, SameAt
<1>11. ASSUME \/ EnsureCRDsInstalled \/ ApplyCRD("crdInstall", "stale") \/ ApplyCRD("crdUpgrade", "prepare")
              \/ TeardownStaleOperatorNamespaces \/ DetectOperatorDeploymentMode \/ TeardownOperatorElsewhere
              \/ WaitForNamespaceDeletion \/ TeardownOperatorNonOLM \/ CheckOperatorExists \/ CheckOperatorImage
              \/ CheckOLMOperatorImage \/ CheckOLMInstalled \/ WaitForOperatorReady \/ WaitForCSVSuccess
       PROVE  UNCHANGED <<ns, dep, rbac, sub, csv>>
  BY <1>11 DEF EnsureCRDsInstalled, ApplyCRD, TeardownStaleOperatorNamespaces, DetectOperatorDeploymentMode,
               TeardownOperatorElsewhere, WaitForNamespaceDeletion, TeardownOperatorNonOLM, CheckOperatorExists,
               CheckOperatorImage, CheckOLMOperatorImage, CheckOLMInstalled, WaitForOperatorReady,
               WaitForCSVSuccess, cluster
<1>12. ASSUME Start \/ GiveUp \/ UNCHANGED vars PROVE UNCHANGED <<ns, dep, rbac, sub, csv>>
  BY <1>12 DEF Start, StartDeploy, StartTeardown, GiveUp, vars, cluster
<1> QED
  BY <1>1, <1>2, <1>3, <1>4, <1>5, <1>6, <1>7, <1>8, <1>9, <1>10, <1>11, <1>12 DEF Next, RoxieStep, ClusterStep

\* What a step that leaves the cluster alone keeps.
LEMMA ClusterSame ==
  ASSUME UNCHANGED <<ns, dep, rbac, sub, csv>>
  PROVE  /\ \A n \in AllOperatorNamespaces : (Bare(n)' <=> Bare(n)) /\ (Runs(n)' <=> Runs(n)) /\ dep'[n] = dep[n]
         /\ UNCHANGED cfg => \A n \in AllOperatorNamespaces : RunsAsPlanned(n)' <=> RunsAsPlanned(n)
<1>1. \A n \in AllOperatorNamespaces : SameAt(n)
  BY DEF SameAt
<1> QED BY <1>1, SameState DEF RunsAsPlanned, InstanceVersion

\* Where no work has begun every namespace is in one of the two states.
LEMMA AllTidy == ASSUME Tidy, ~Busy PROVE \A n \in AllOperatorNamespaces : Bare(n) \/ Runs(n)
  BY DEF Tidy

(***************************************************************************)
(* Orderly, action by action.                                              *)
(***************************************************************************)
\* Starting a command.
LEMMA StartOrderly ==
  ASSUME IndInv, Orderly, Start
  PROVE  Orderly'
<1>1. /\ pc = "idle" /\ UNCHANGED <<ns, dep, rbac, sub, csv>>
      /\ \/ pc' = "crdCheck" /\ cmd' = "deploy"
         \/ pc' = "detect" /\ cmd' = "teardown"
  BY DEF Start, StartDeploy, StartTeardown, MayStart, cluster
<1>2. \A n \in AllOperatorNamespaces : Bare(n)' \/ Runs(n)'
  BY <1>1, ClusterSame, AllTidy DEF Orderly, Busy
<1>3. Tidy' /\ AtHand' /\ Unwanted' /\ Left'
  BY <1>1, <1>2 DEF Tidy, AtHand, Unwanted, Left
<1>4. Elsewhere'
  BY <1>1 DEF Elsewhere, Passed, PastStaleLoop, InStaleLoop, InstanceLabels, CreateLabels, OLMLabels, TeardownLabels,
              OLMTeardownLabels, TearingAllDown, Replacing
<1> QED BY <1>3, <1>4 DEF Orderly

\* The CRDs come first.
LEMMA CrdsOrderly ==
  ASSUME ~Fault, IndInv, Orderly, CrdsCurrent,
         EnsureCRDsInstalled \/ ApplyCRD("crdInstall", "stale") \/ ApplyCRD("crdUpgrade", "prepare")
  PROVE  Orderly'
<1>1. UNCHANGED <<ns, dep, rbac, sub, csv, cmd, cfg>> /\ ~Busy
  BY DEF EnsureCRDsInstalled, ApplyCRD, Jump, cluster, Busy
<1>2. \A n \in AllOperatorNamespaces : Bare(n)' \/ Runs(n)'
  BY <1>1, ClusterSame, AllTidy DEF Orderly
<1>3. /\ \A n \in AllOperatorNamespaces : (Bare(n)' <=> Bare(n)) /\ (Runs(n)' <=> Runs(n)) /\ dep'[n] = dep[n]
      /\ \A n \in AllOperatorNamespaces : RunsAsPlanned(n)' <=> RunsAsPlanned(n)
  BY <1>1, ClusterSame
<1>4. \/ pc \in {"crdCheck", "crdInstall"} /\ pc' = "stale" /\ cur' = "system"
      \/ pc = "crdCheck" /\ pc' = "crdInstall" /\ ~(\A c \in Crds : crd[c] # 0)
      \/ pc = "crdInstall" /\ pc' = "crdInstall"
      \/ pc = "crdUpgrade" /\ pc' \in {"crdUpgrade", "prepare"} /\ UNCHANGED <<cur, ret>>
  BY DEF EnsureCRDsInstalled, ApplyCRD, Jump, Sees, IndInv, ControlOK
<1>5. pc = "crdUpgrade" => Bare(cur) /\ (cur = "sensor" => RunsAsPlanned("central")) /\ cur \in AllOperatorNamespaces
  BY DEF Orderly, AtHand, Elsewhere, InstanceLabels, CreateLabels, IndInv, TypeOK, ProcessTypeOK
<1>6. pc' = "crdInstall" => \A n \in AllOperatorNamespaces : Bare(n)
  <2>1. CASE pc = "crdInstall"
    BY <2>1 DEF Orderly, Elsewhere
  <2>2. CASE pc = "crdCheck" /\ ~(\A c \in Crds : crd[c] # 0)
    <3>1. PICK c \in Crds : crd[c] = 0
      BY <2>2
    <3>2. \A n \in AllOperatorNamespaces : dep[n].ver \in Nat /\ crd[c] >= dep[n].ver
      BY <2>2, ConstantsAssumption DEF CrdsCurrent, IndInv, TypeOK, ClusterTypeOK, VersionOrNone
    <3>3. \A n \in AllOperatorNamespaces : ~Runs(n)
      BY <3>1, <3>2, TwoStates
    <3> QED BY <1>1, <3>3, AllTidy DEF Orderly
  <2> QED BY <1>4, <2>1, <2>2
<1>7. Tidy' /\ Unwanted' /\ Left'
  BY <1>2, <1>4 DEF Tidy, Unwanted, Left
<1>8. AtHand'
  BY <1>3, <1>4, <1>5 DEF AtHand
<1>9. Elsewhere'
  <2>1. \A n \in AllOperatorNamespaces : Passed(n)' /\ n \notin OperatorInstances(cfg) => Passed(n)
    BY <1>1, <1>4 DEF Passed, PastStaleLoop, InStaleLoop, InstanceLabels, CreateLabels, OLMLabels, TeardownLabels,
              OLMTeardownLabels
  <2>2. \A n \in AllOperatorNamespaces : Passed(n)' /\ (n \notin OperatorInstances(cfg))' => Bare(n)'
    BY <1>1, <1>3, <2>1 DEF Orderly, Elsewhere, OperatorInstances, HasMixedVersions
  <2>3. "central" \in AllOperatorNamespaces
    BY DEF AllOperatorNamespaces
  <2> QED BY <1>3, <1>4, <1>5, <1>6, <2>2, <2>3 DEF Elsewhere, InstanceLabels, CreateLabels, TeardownLabels,
              OLMTeardownLabels, TearingAllDown, Replacing
<1> QED BY <1>7, <1>8, <1>9 DEF Orderly

\* A step that only moves the process on, from where no work has begun.
LEMMA Standing ==
  ASSUME Tidy, ~Busy, UNCHANGED <<ns, dep, rbac, sub, csv, cmd, cfg>>
  PROVE  /\ Tidy' /\ dep' = dep
         /\ \A n \in AllOperatorNamespaces : (Bare(n)' <=> Bare(n)) /\ (Runs(n)' <=> Runs(n))
         /\ \A n \in AllOperatorNamespaces : RunsAsPlanned(n)' <=> RunsAsPlanned(n)
         /\ \A n \in AllOperatorNamespaces : Bare(n) \/ Runs(n)
         /\ OperatorInstances(cfg)' = OperatorInstances(cfg)
  BY ClusterSame, AllTidy DEF Tidy, OperatorInstances, HasMixedVersions

\* The namespaces and the plans that there are.
LEMMA Plans ==
  ASSUME ProcessTypeOK
  PROVE  /\ AllOperatorNamespaces = {"system", "central", "sensor"} /\ cur \in AllOperatorNamespaces
         /\ \/ cfg.central = cfg.sensor /\ OperatorInstances(cfg) = {"system"} /\ FirstInstance(cfg) = "system"
               /\ LastInstance(cfg) = "system"
            \/ cfg.central # cfg.sensor /\ OperatorInstances(cfg) = {"central", "sensor"}
               /\ FirstInstance(cfg) = "central" /\ LastInstance(cfg) = "sensor" /\ ~cfg.olm
         /\ After("system") = "central" /\ After("central") = "sensor"
  BY DEF ProcessTypeOK, AllOperatorNamespaces, OperatorInstances, HasMixedVersions, FirstInstance, LastInstance,
         After, Configs

\* The loop over the stale namespaces.
LEMMA StaleOrderly ==
  ASSUME ~Fault, IndInv, Orderly, TeardownStaleOperatorNamespaces
  PROVE  Orderly'
<1>1. UNCHANGED <<ns, dep, rbac, sub, csv, cmd, cfg>> /\ ~Busy /\ pc = "stale" /\ cmd = "deploy"
  BY DEF TeardownStaleOperatorNamespaces, NextStale, Jump, cluster, Busy, IndInv, ControlOK
<1>2. /\ Tidy' /\ dep' = dep
      /\ \A n \in AllOperatorNamespaces : (Bare(n)' <=> Bare(n)) /\ (Runs(n)' <=> Runs(n))
      /\ \A n \in AllOperatorNamespaces : Bare(n) \/ Runs(n)
      /\ OperatorInstances(cfg)' = OperatorInstances(cfg)
  BY <1>1, Standing DEF Orderly
<1>3. ProcessTypeOK
  BY DEF IndInv, TypeOK
<1>4. \/ pc' = "nsDelete" /\ ret' = "stale" /\ cur' = cur /\ Runs(cur) /\ cur \notin OperatorInstances(cfg)
      \/ /\ IF cur = "sensor" THEN pc' = "detect" /\ cur' = "system" ELSE pc' = "stale" /\ cur' = After(cur)
         /\ ret' = "none" /\ (cur \notin OperatorInstances(cfg) => Bare(cur))
  BY <1>2, <1>3, Plans, TwoStates DEF TeardownStaleOperatorNamespaces, NextStale, Jump, Sees, IsStale
<1>5. ASSUME NEW n \in AllOperatorNamespaces, Passed(n)', n \notin OperatorInstances(cfg) PROVE Bare(n)
  <2>1. Passed(n) \/ (n = cur /\ pc' # "nsDelete")
    BY <1>1, <1>3, <1>4, <1>5, Plans DEF Passed, PastStaleLoop, InStaleLoop, InstanceLabels, CreateLabels, OLMLabels,
       TeardownLabels, OLMTeardownLabels
  <2> QED BY <1>4, <1>5, <2>1 DEF Orderly, Elsewhere
<1>6. pc' = "nsDelete" => \A n \in OperatorInstances(cfg) : Bare(n)
  <2> SUFFICES ASSUME Runs(cur), cur \notin OperatorInstances(cfg), NEW n \in OperatorInstances(cfg) PROVE Bare(n)
    BY <1>4
  <2>1. n \in AllOperatorNamespaces /\ (cur = "system" <=> n # "system")
    BY <1>3, Plans
  <2>2. ~Runs(n)
    BY <1>3, <2>1, Plans, TwoStates DEF IndInv, SystemExclusive
  <2> QED BY <1>2, <2>1, <2>2
<1>7. AtHand'
  BY <1>2, <1>3, <1>4, Plans DEF AtHand
<1>8. Elsewhere'
  BY <1>1, <1>2, <1>3, <1>4, <1>5, <1>6, Plans DEF Elsewhere, TeardownLabels, OLMTeardownLabels, TearingAllDown,
     Replacing, InstanceLabels, CreateLabels
<1>9. Unwanted' /\ Left'
  BY <1>4 DEF Unwanted, Left
<1> QED BY <1>2, <1>7, <1>8, <1>9 DEF Orderly

\* What detection finds in the system namespace, and that it excludes others.
LEMMA SystemOperator ==
  ASSUME IndInv, Orderly, \A n \in AllOperatorNamespaces : Bare(n) \/ Runs(n)
  PROVE  /\ Bare("system") => sub.ver = 0 /\ ~OperatorExists("system") /\ ~dep["system"].olm
         /\ Runs("system") => /\ OperatorExists("system") /\ (dep["system"].olm <=> sub.ver # 0)
                              /\ Bare("central") /\ Bare("sensor")
<1>1. {"system", "central", "sensor"} \subseteq AllOperatorNamespaces
  BY DEF AllOperatorNamespaces
<1>2. Bare("system") => sub.ver = 0 /\ ~OperatorExists("system") /\ ~dep["system"].olm
  BY DEF Bare, NoSubscription, NoOperator, OperatorExists
<1>3. ASSUME Runs("system") PROVE OperatorExists("system") /\ (dep["system"].olm <=> sub.ver # 0)
  BY <1>1, <1>3, TwoStates DEF Runs, NoSubscription
<1>4. Runs("system") => ~Runs("central") /\ ~Runs("sensor")
  BY <1>1, <1>3, TwoStates DEF IndInv, SystemExclusive
<1> QED BY <1>1, <1>2, <1>3, <1>4

\* Detection.
LEMMA DetectOrderly ==
  ASSUME ~Fault, IndInv, Orderly, DetectOperatorDeploymentMode
  PROVE  Orderly'
<1>1. UNCHANGED <<ns, dep, rbac, sub, csv, cmd, cfg>> /\ ~Busy /\ pc = "detect"
  BY DEF DetectOperatorDeploymentMode, OnDetected, Jump, cluster, Busy
<1>2. /\ Tidy' /\ dep' = dep
      /\ \A n \in AllOperatorNamespaces : (Bare(n)' <=> Bare(n)) /\ (Runs(n)' <=> Runs(n))
      /\ \A n \in AllOperatorNamespaces : Bare(n) \/ Runs(n)
      /\ OperatorInstances(cfg)' = OperatorInstances(cfg)
  BY <1>1, Standing DEF Orderly
<1>3. ProcessTypeOK /\ {"system", "central", "sensor"} \subseteq AllOperatorNamespaces
  BY DEF IndInv, TypeOK, AllOperatorNamespaces
<1>4. \/ cmd = "deploy" /\ cfg.olm /\ Runs("system") /\ dep["system"].olm /\ pc' = "olmImage" /\ cur' = "system"
      \/ /\ ~(cmd = "deploy" /\ cfg.olm) /\ Runs("system") /\ dep["system"].olm
         /\ pc' = "subDelete" /\ cur' = "system"
      \/ cmd = "deploy" /\ ~cfg.olm /\ pc' = "exists" /\ cur' = FirstInstance(cfg)
      \/ ~(cmd = "deploy" /\ ~cfg.olm) /\ Runs("system") /\ ~dep["system"].olm /\ pc' = "all" /\ cur' = "system"
      \/ cmd = "deploy" /\ cfg.olm /\ Bare("system") /\ pc' = "olmCheck" /\ cur' = "system"
      \/ cmd # "deploy" /\ Bare("system") /\ pc' = "others"
  <2>1. OnDetected(sub.ver # 0 \/ OperatorExists("system"), sub.ver # 0 \/ dep["system"].olm)
    BY DEF DetectOperatorDeploymentMode, Sees
  <2>2. \/ Bare("system") /\ OnDetected(FALSE, FALSE)
        \/ Runs("system") /\ dep["system"].olm /\ OnDetected(TRUE, TRUE)
        \/ Runs("system") /\ ~dep["system"].olm /\ OnDetected(TRUE, FALSE)
    BY <1>2, <1>3, <2>1, SystemOperator
  <2> QED BY <2>2 DEF OnDetected, Jump
<1>5. pc' = "subDelete" => Bare("central") /\ Bare("sensor")
  BY <1>2, <1>4, SystemOperator
<1>6. ASSUME NEW n \in AllOperatorNamespaces, Passed(n)', n \notin OperatorInstances(cfg) PROVE Bare(n)
  <2>1. Passed(n)
    BY <1>1, <1>4, <1>6 DEF Passed, PastStaleLoop, InStaleLoop, InstanceLabels, CreateLabels, OLMLabels,
       TeardownLabels, OLMTeardownLabels
  <2> QED BY <1>6, <2>1 DEF Orderly, Elsewhere
<1>7. AtHand'
  BY <1>2, <1>3, <1>4, Plans DEF AtHand
<1>8. Elsewhere'
  <2>1. pc' = "exists" => cur' # "sensor"
    BY <1>3, <1>4, Plans
  <2> QED BY <1>1, <1>2, <1>3, <1>4, <1>5, <1>6, <2>1 DEF Elsewhere, TeardownLabels, OLMTeardownLabels, TearingAllDown,
     Replacing, InstanceLabels, CreateLabels
<1>9. Unwanted' /\ Left'
  BY <1>1, <1>2, <1>4 DEF Unwanted, Left
<1> QED BY <1>2, <1>7, <1>8, <1>9 DEF Orderly

\* The search outside the system namespace, and the teardown of one namespace after the other.
LEMMA TeardownOrderly ==
  ASSUME ~Fault, IndInv, Orderly, TeardownOperatorElsewhere \/ TeardownOperatorNonOLM
  PROVE  Orderly'
<1>1. /\ UNCHANGED <<ns, dep, rbac, sub, csv, cmd, cfg>> /\ ~Busy /\ pc \in {"others", "all"}
      /\ pc = "others" => cmd = "teardown"
  BY DEF TeardownOperatorElsewhere, TeardownOperatorNonOLM, Jump, Finish, cluster, Busy, IndInv, ControlOK
<1>2. /\ Tidy' /\ dep' = dep
      /\ \A n \in AllOperatorNamespaces : (Bare(n)' <=> Bare(n)) /\ (Runs(n)' <=> Runs(n))
      /\ \A n \in AllOperatorNamespaces : Bare(n) \/ Runs(n)
      /\ OperatorInstances(cfg)' = OperatorInstances(cfg)
  BY <1>1, Standing DEF Orderly
<1>3. ProcessTypeOK /\ {"system", "central", "sensor"} \subseteq AllOperatorNamespaces
  BY DEF IndInv, TypeOK, AllOperatorNamespaces
<1>4. /\ pc = "others" => Bare("system")
      /\ pc = "all" /\ cur # "system" => Bare("system")
      /\ pc = "all" /\ cur = "sensor" => Bare("central")
      /\ pc = "all" /\ cmd = "deploy" /\ cur = "system" => ~dep["system"].olm
  BY DEF Orderly, Elsewhere, Unwanted, TearingAllDown
<1>5. \/ pc = "others" /\ pc' = "all" /\ cur' = "system"
      \/ /\ pc = "others" /\ pc' = "idle" /\ result' = "ok"
         /\ \A n \in AllOperatorNamespaces : Bare(n)
      \/ pc = "all" /\ pc' = "nsDelete" /\ ret' = "all" /\ cur' = cur /\ Runs(cur)
      \/ pc = "all" /\ pc' = "all" /\ cur # "sensor" /\ cur' = After(cur) /\ Bare(cur)
      \/ /\ pc = "all" /\ pc' = "bindingDelete" /\ ret' = "allRBAC"
         /\ \A n \in AllOperatorNamespaces : Bare(n)
  <2>1. CASE TeardownOperatorElsewhere
    <3>1. \/ pc = "others" /\ pc' = "all" /\ cur' = "system"
          \/ /\ pc = "others" /\ pc' = "idle" /\ result' = "ok"
             /\ ~OperatorExists("central") /\ ~OperatorExists("sensor")
      BY <2>1 DEF TeardownOperatorElsewhere, Sees, Jump, Finish
    <3>2. ~OperatorExists("central") /\ ~OperatorExists("sensor") => Bare("central") /\ Bare("sensor")
      BY <1>2, <1>3, TwoStates
    <3>3. pc' = "idle" => \A n \in AllOperatorNamespaces : Bare(n)
      BY <1>3, <1>4, <3>1, <3>2, Plans
    <3> QED BY <3>1, <3>3
  <2>2. CASE TeardownOperatorNonOLM
    <3>1. \/ pc = "all" /\ pc' = "nsDelete" /\ ret' = "all" /\ cur' = cur /\ ns[cur] # "absent"
          \/ pc = "all" /\ pc' = "all" /\ cur # "sensor" /\ cur' = After(cur) /\ ns[cur] = "absent"
          \/ pc = "all" /\ cur = "sensor" /\ pc' = "bindingDelete" /\ ret' = "allRBAC" /\ ns[cur] = "absent"
      BY <2>2 DEF TeardownOperatorNonOLM, Sees, Jump
    <3>2. IF ns[cur] = "absent" THEN Bare(cur) ELSE Runs(cur)
      BY <1>2, <1>3, Plans, TwoStates
    <3>3. pc' = "bindingDelete" => \A n \in AllOperatorNamespaces : Bare(n)
      BY <1>3, <1>4, <3>1, <3>2, Plans
    <3> QED BY <3>1, <3>2, <3>3
  <2> QED BY <2>1, <2>2
<1>6. ASSUME NEW n \in AllOperatorNamespaces, Passed(n)', n \notin OperatorInstances(cfg) PROVE Bare(n)
  <2>1. Passed(n)
    BY <1>1, <1>5, <1>6 DEF Passed, PastStaleLoop, InStaleLoop, InstanceLabels, CreateLabels, OLMLabels,
       TeardownLabels, OLMTeardownLabels
  <2> QED BY <1>6, <2>1 DEF Orderly, Elsewhere
<1>7. AtHand'
  BY <1>2, <1>3, <1>5, Plans DEF AtHand
<1>8. Elsewhere'
  BY <1>1, <1>2, <1>3, <1>4, <1>5, <1>6, Plans DEF Elsewhere, TeardownLabels, OLMTeardownLabels, TearingAllDown,
     Replacing, InstanceLabels, CreateLabels
<1>9. Unwanted'
  BY <1>1, <1>2, <1>3, <1>4, <1>5, Plans DEF Unwanted
<1>10. Left'
  BY <1>1, <1>2, <1>5 DEF Left
<1> QED BY <1>2, <1>7, <1>8, <1>9, <1>10 DEF Orderly

\* An instance of the plan is in place: the next one, or the end of the command.
LEMMA NextOrderly ==
  ASSUME IndInv, Orderly, Tidy', cmd = "deploy", pc \in InstanceLabels, RunsAsPlanned(cur), NextInstance,
         UNCHANGED <<ns, dep, rbac, sub, csv>>,
         \A n \in AllOperatorNamespaces : Bare(n) \/ Runs(n)
  PROVE  Orderly'
<1>1. UNCHANGED <<cmd, cfg>>
  BY DEF NextInstance, Jump, Finish
<1>2. /\ \A n \in AllOperatorNamespaces : (Bare(n)' <=> Bare(n)) /\ (RunsAsPlanned(n)' <=> RunsAsPlanned(n))
      /\ OperatorInstances(cfg)' = OperatorInstances(cfg) /\ dep' = dep
  BY <1>1, ClusterSame DEF OperatorInstances, HasMixedVersions
<1>3. /\ ProcessTypeOK /\ cur \in OperatorInstances(cfg)
      /\ \A n \in AllOperatorNamespaces : n \notin OperatorInstances(cfg) => Bare(n)
      /\ cur = "sensor" => RunsAsPlanned("central")
  BY DEF IndInv, TypeOK, ControlOK, Orderly, Elsewhere, Passed, PastStaleLoop
<1>4. \/ /\ cur # LastInstance(cfg) /\ cur = "central" /\ pc' = "exists" /\ cur' = "sensor"
      \/ /\ cur = LastInstance(cfg) /\ pc' = "idle" /\ result' = "ok"
         /\ \A n \in OperatorInstances(cfg) : RunsAsPlanned(n)
  BY <1>3, Plans DEF NextInstance, Jump, Finish
<1>5. AtHand' /\ Unwanted'
  BY <1>4 DEF AtHand, Unwanted
<1>6. Elsewhere'
  BY <1>2, <1>3, <1>4 DEF Elsewhere, TeardownLabels, OLMTeardownLabels, TearingAllDown, Replacing, InstanceLabels, CreateLabels,
     Passed, PastStaleLoop, InStaleLoop, AllOperatorNamespaces
<1>7. Left'
  BY <1>1, <1>2, <1>3, <1>4 DEF Left
<1> QED BY <1>5, <1>6, <1>7 DEF Orderly

\* Deploying an instance where nothing of one is left.
LEMMA DeployOrderly ==
  ASSUME IndInv, Orderly, Tidy', cmd = "deploy", DeployInstance(cur), Bare(cur)', UNCHANGED <<ns, dep, rbac, sub, csv>>,
         pc \in InstanceLabels \/ Replacing
  PROVE  Orderly'
<1>1. UNCHANGED <<cmd, cfg>> /\ cur' = cur /\ pc' \in {"crdUpgrade", "prepare"}
  BY DEF DeployInstance, Jump
<1>2. /\ \A n \in AllOperatorNamespaces : (Bare(n)' <=> Bare(n)) /\ (RunsAsPlanned(n)' <=> RunsAsPlanned(n))
      /\ OperatorInstances(cfg)' = OperatorInstances(cfg) /\ dep' = dep
  BY <1>1, ClusterSame DEF OperatorInstances, HasMixedVersions
<1>3. /\ \A n \in AllOperatorNamespaces : n \notin OperatorInstances(cfg) => Bare(n)
      /\ cur = "sensor" => RunsAsPlanned("central")
  BY DEF Orderly, Elsewhere, Passed, PastStaleLoop, Replacing
<1>4. AtHand' /\ Unwanted' /\ Left'
  BY <1>1 DEF AtHand, Unwanted, Left
<1>5. Elsewhere'
  BY <1>1, <1>2, <1>3 DEF Elsewhere, TeardownLabels, OLMTeardownLabels, TearingAllDown, Replacing, InstanceLabels, CreateLabels,
     AllOperatorNamespaces
<1> QED BY <1>4, <1>5 DEF Orderly

\* Looking for an instance of the plan and at its image, and the wait until it is ready.
LEMMA InstanceOrderly ==
  ASSUME ~Fault, IndInv, Orderly, CheckOperatorExists \/ CheckOperatorImage \/ WaitForOperatorReady
  PROVE  Orderly'
<1>1. /\ UNCHANGED <<ns, dep, rbac, sub, csv, cmd, cfg>> /\ ~Busy /\ pc \in InstanceLabels /\ cmd = "deploy"
      /\ pc \in {"exists", "image"} => ~cfg.olm
  BY DEF CheckOperatorExists, CheckOperatorImage, WaitForOperatorReady, DeployInstance, NextInstance, Jump, Goto, Finish,
         cluster, Busy, InstanceLabels, IndInv, ControlOK
<1>2. /\ Tidy' /\ dep' = dep
      /\ \A n \in AllOperatorNamespaces : (Bare(n)' <=> Bare(n)) /\ (Runs(n)' <=> Runs(n))
      /\ \A n \in AllOperatorNamespaces : RunsAsPlanned(n)' <=> RunsAsPlanned(n)
      /\ \A n \in AllOperatorNamespaces : Bare(n) \/ Runs(n)
      /\ OperatorInstances(cfg)' = OperatorInstances(cfg)
  BY <1>1, Standing DEF Orderly
<1>3. /\ ProcessTypeOK /\ cur \in AllOperatorNamespaces /\ cur \in OperatorInstances(cfg)
      /\ \A n \in AllOperatorNamespaces : n \notin OperatorInstances(cfg) => Bare(n)
      /\ cur = "sensor" => RunsAsPlanned("central")
  BY <1>1 DEF IndInv, TypeOK, ProcessTypeOK, ControlOK, Orderly, Elsewhere, Passed, PastStaleLoop
<1>4. CASE NextInstance /\ RunsAsPlanned(cur)
  BY <1>1, <1>2, <1>4, NextOrderly
<1>5. CASE DeployInstance(cur) /\ Bare(cur)
  <2>1. Bare(cur)'
    BY <1>2, <1>3, <1>5 DEF DeployInstance, Jump
  <2> QED BY <1>1, <1>2, <1>5, <2>1, DeployOrderly
<1>6. CASE pc' = "image" /\ cur' = cur /\ Runs(cur)
  <2>1. AtHand' /\ Unwanted' /\ Left'
    BY <1>2, <1>3, <1>6 DEF AtHand, Unwanted, Left
  <2>2. Elsewhere'
    BY <1>2, <1>3, <1>6 DEF Elsewhere, TeardownLabels, OLMTeardownLabels, TearingAllDown, Replacing, InstanceLabels, CreateLabels,
       AllOperatorNamespaces
  <2> QED BY <1>2, <2>1, <2>2 DEF Orderly
<1>7. CASE pc' = "nsDelete" /\ ret' = "replace" /\ cur' = cur /\ Runs(cur) /\ dep[cur].ver # InstanceVersion(cfg, cur)
  <2>1. AtHand' /\ Left'
    BY <1>2, <1>3, <1>7 DEF AtHand, Left
  <2>2. Elsewhere'
    BY <1>2, <1>3, <1>7 DEF Elsewhere, TeardownLabels, OLMTeardownLabels, TearingAllDown, Replacing, InstanceLabels, CreateLabels,
       AllOperatorNamespaces
  <2>3. Unwanted'
    BY <1>1, <1>2, <1>3, <1>7 DEF Unwanted, InstanceVersion
  <2> QED BY <1>2, <2>1, <2>2, <2>3 DEF Orderly
<1>8. CASE CheckOperatorExists
  BY <1>2, <1>3, <1>5, <1>6, <1>8, TwoStates DEF CheckOperatorExists, Sees, Goto, Jump
<1>9. CASE CheckOperatorImage
  <2>1. Runs(cur) /\ sub = NoSubscription
    BY <1>1, <1>9 DEF CheckOperatorImage, Orderly, AtHand, IndInv, NothingToReplace
  <2>2. dep[cur].olm = FALSE /\ dep[cur] \in [ver : VersionOrNone, olm : BOOLEAN]
    BY <1>3, <2>1 DEF Runs, NoSubscription, IndInv, TypeOK, ClusterTypeOK
  <2>3. dep[cur].ver = InstanceVersion(cfg, cur) => RunsAsPlanned(cur)
    <3>1. cfg.olm = FALSE
      BY <1>1, <1>3, <1>9 DEF CheckOperatorImage, ProcessTypeOK, Configs
    <3> QED BY <2>1, <2>2, <3>1 DEF RunsAsPlanned
  <2> QED BY <1>4, <1>7, <1>9, <2>1, <2>3 DEF CheckOperatorImage, Sees, IsOperatorImageCorrect, Jump
<1>10. CASE WaitForOperatorReady
  <2>1. RunsAsPlanned(cur)
    BY <1>10 DEF WaitForOperatorReady, Orderly, AtHand
  <2>2. OperatorExists(cur)
    BY <1>3, <2>1, TwoStates DEF RunsAsPlanned
  <2> QED BY <1>4, <1>10, <2>1, <2>2 DEF WaitForOperatorReady
<1> QED BY <1>8, <1>9, <1>10

\* The wait for a namespace ends when it is gone, with all that it held.
LEMMA WaitOrderly ==
  ASSUME ~Fault, IndInv, Orderly, WaitForNamespaceDeletion
  PROVE  Orderly'
<1>1. UNCHANGED <<ns, dep, rbac, sub, csv, cmd, cfg>> /\ pc = "nsWait" /\ AfterTeardown
  BY DEF WaitForNamespaceDeletion, AfterTeardown, NextStale, DeployInstance, Jump, Finish, cluster
<1>2. /\ ProcessTypeOK /\ {"system", "central", "sensor"} \subseteq AllOperatorNamespaces /\ cur \in AllOperatorNamespaces
      /\ ns[cur] \in {"absent", "active", "terminating"}
  BY DEF IndInv, TypeOK, ProcessTypeOK, ClusterTypeOK, AllOperatorNamespaces
<1>3. Bare(cur)
  <2>1. ns[cur] # "terminating" /\ Going(cur, {})
    BY <1>1 DEF WaitForNamespaceDeletion, WaitEnds, Orderly, AtHand
  <2> QED BY <1>2, <2>1 DEF Going, Bare, OperatorExists
<1>4. /\ \A n \in AllOperatorNamespaces : (Bare(n)' <=> Bare(n)) /\ (Runs(n)' <=> Runs(n)) /\ dep'[n] = dep[n]
      /\ \A n \in AllOperatorNamespaces : Bare(n) \/ Runs(n)
      /\ OperatorInstances(cfg)' = OperatorInstances(cfg)
  BY <1>1, <1>3, ClusterSame DEF Orderly, Tidy, OperatorInstances, HasMixedVersions
<1>5. Tidy'
  BY <1>4 DEF Tidy
<1>6. /\ ret \in {"stale", "replace", "all", "olm"}
      /\ ret = "stale" => cmd = "deploy" /\ cur \notin OperatorInstances(cfg)
      /\ ret = "replace" => cmd = "deploy"
      /\ ret = "olm" => cur = "system" /\ Bare("central") /\ Bare("sensor")
      /\ ret = "all" /\ cur # "system" => Bare("system")
      /\ ret = "all" /\ cur = "sensor" => Bare("central")
  BY <1>1 DEF IndInv, ControlOK, Orderly, Elsewhere, TeardownLabels, TearingAllDown
<1>7. CASE ret = "replace"
  <2>1. DeployInstance(cur) /\ Replacing /\ Bare(cur)'
    BY <1>1, <1>2, <1>4, <1>3, <1>7 DEF AfterTeardown, Replacing, TeardownLabels, DeployInstance, Jump
  <2> QED BY <1>1, <1>5, <1>6, <1>7, <2>1, DeployOrderly
<1>8. CASE ret # "replace"
  <2>1. \/ /\ ret = "stale" /\ ret' = "none"
           /\ IF cur = "sensor" THEN pc' = "detect" /\ cur' = "system" ELSE pc' = "stale" /\ cur' = After(cur)
        \/ ret = "all" /\ cur # "sensor" /\ pc' = "all" /\ cur' = After(cur)
        \/ ret = "all" /\ cur = "sensor" /\ pc' = "bindingDelete" /\ ret' = "allRBAC"
        \/ ret = "olm" /\ cmd = "teardown" /\ pc' = "idle" /\ result' = "ok"
        \/ ret = "olm" /\ cmd = "deploy" /\ cfg.olm /\ pc' = "olmCheck" /\ cur' = "system"
        \/ ret = "olm" /\ cmd = "deploy" /\ ~cfg.olm /\ pc' = "exists" /\ cur' = FirstInstance(cfg)
    BY <1>1, <1>8 DEF AfterTeardown, NextStale, Jump, Finish
  <2>2. pc' \in {"bindingDelete", "idle"} => \A n \in AllOperatorNamespaces : Bare(n)
    BY <1>2, <1>3, <1>6, <2>1, Plans
  <2>3. ASSUME NEW n \in AllOperatorNamespaces, Passed(n)', n \notin OperatorInstances(cfg) PROVE Bare(n)
    <3>1. Passed(n) \/ n = cur
      BY <1>1, <1>2, <1>6, <2>1, <2>3, Plans DEF Passed, PastStaleLoop, InStaleLoop, InstanceLabels, CreateLabels, OLMLabels,
         TeardownLabels, OLMTeardownLabels
    <3> QED BY <1>3, <2>3, <3>1 DEF Orderly, Elsewhere
  <2>4. AtHand'
    BY <1>2, <1>3, <1>4, <1>6, <2>1, Plans DEF AtHand
  <2>5. Elsewhere'
    <3>1. pc' = "exists" => cur' # "sensor"
      BY <1>2, <2>1, Plans
    <3>2. cmd' = cmd /\ cfg' = cfg
      BY <1>1
    <3> QED BY <1>2, <1>3, <1>4, <1>6, <2>1, <2>2, <2>3, <3>1, <3>2, Plans DEF Elsewhere, TeardownLabels, OLMTeardownLabels,
     TearingAllDown, Replacing, InstanceLabels, CreateLabels
  <2>6. Unwanted'
    BY <1>2, <2>1, Plans DEF Unwanted
  <2>7. Left'
    BY <1>1, <1>4, <2>1, <2>2 DEF Left
  <2> QED BY <1>5, <2>4, <2>5, <2>6, <2>7 DEF Orderly
<1> QED BY <1>7, <1>8

\* The steps of a deploy through OLM that only look.
LEMMA OLMOrderly ==
  ASSUME ~Fault, IndInv, Orderly, CheckOLMOperatorImage \/ CheckOLMInstalled \/ WaitForCSVSuccess
  PROVE  Orderly'
<1>1. /\ UNCHANGED <<ns, dep, rbac, sub, csv, cmd, cfg>> /\ pc \in {"olmImage", "olmCheck", "csvWait"}
      /\ cmd = "deploy" /\ cfg.olm = TRUE /\ cur = "system"
  BY DEF CheckOLMOperatorImage, CheckOLMInstalled, WaitForCSVSuccess, Jump, Goto, Finish, cluster, IndInv, ControlOK, OLMLabels,
         TypeOK, ProcessTypeOK, Configs
<1>2. /\ ProcessTypeOK /\ OperatorInstances(cfg) = {"system"} /\ AllOperatorNamespaces = {"system", "central", "sensor"}
      /\ InstanceVersion(cfg, "system") = cfg.central /\ cfg.central # 0
      /\ dep["system"] \in [ver : VersionOrNone, olm : BOOLEAN]
      /\ sub \in [ver : VersionOrNone, plan : {"none", "pending", "approved"}]
      /\ rbac["system"] \in SUBSET {"role", "binding"}
  BY <1>1, Plans DEF IndInv, TypeOK, ProcessTypeOK, ClusterTypeOK, Configs, InstanceVersion, Versions
<1>3. /\ \A n \in AllOperatorNamespaces : (Bare(n)' <=> Bare(n)) /\ (Runs(n)' <=> Runs(n)) /\ dep'[n] = dep[n]
      /\ \A n \in AllOperatorNamespaces : RunsAsPlanned(n)' <=> RunsAsPlanned(n)
      /\ OperatorInstances(cfg)' = OperatorInstances(cfg)
  BY <1>1, ClusterSame DEF OperatorInstances, HasMixedVersions
<1>4. Bare("central") /\ Bare("sensor")
  BY <1>1, <1>2 DEF Orderly, Elsewhere, Passed, PastStaleLoop, OLMLabels
<1>5. \/ pc' = "idle" /\ result' = "ok" /\ RunsAsPlanned("system")
      \/ pc' = "subDelete" /\ cur' = "system" /\ Runs("system") /\ dep["system"].olm /\ dep["system"].ver # cfg.central
      \/ pc' = "idle" /\ result' = "failed" /\ Bare("system")
      \/ pc' = "prepare" /\ cur' = "system" /\ Bare("system")
      \/ pc' = "ready" /\ cur' = "system" /\ RunsAsPlanned("system")
  <2>1. CASE CheckOLMOperatorImage
    <3>1. Runs("system") /\ dep["system"].olm
      BY <1>1, <2>1 DEF CheckOLMOperatorImage, Orderly, AtHand
    <3>2. dep["system"].ver = cfg.central => RunsAsPlanned("system")
      BY <1>1, <1>2, <3>1 DEF RunsAsPlanned
    <3> QED BY <1>1, <1>2, <2>1, <3>1, <3>2 DEF CheckOLMOperatorImage, Sees, IsOperatorImageCorrect, Jump, Finish
  <2>2. CASE CheckOLMInstalled
    BY <1>1, <2>2 DEF CheckOLMInstalled, Orderly, AtHand, Goto, Jump, Finish
  <2>3. CASE WaitForCSVSuccess
    <3>1. OLMComing /\ sub.plan = "approved"
      BY <2>3 DEF WaitForCSVSuccess, Orderly, AtHand
    <3>2. csv = cfg.central
      BY <2>3, <3>1 DEF WaitForCSVSuccess, OLMComing, OLMCanInstall
    <3>3. RunsAsPlanned("system")
      <4>1. /\ ns["system"] = "active" /\ rbac["system"] = {} /\ sub.ver = cfg.central
            /\ dep["system"] = [ver |-> cfg.central, olm |-> TRUE]
        BY <1>2, <3>1, <3>2 DEF OLMComing
      <4>2. sub = [ver |-> cfg.central, plan |-> "approved"]
        BY <1>2, <3>1, <4>1
      <4>3. dep["system"].ver = cfg.central /\ dep["system"].olm
        BY <4>1
      <4>4. Runs("system")
        BY <1>2, <3>2, <4>1, <4>2, <4>3 DEF Runs
      <4> QED BY <1>1, <1>2, <4>1, <4>4 DEF RunsAsPlanned
    <3> QED BY <1>1, <2>3, <3>2, <3>3 DEF WaitForCSVSuccess, Goto, Jump
  <2> QED BY <2>1, <2>2, <2>3
<1>6. Bare("system") \/ Runs("system")
  BY <1>5 DEF RunsAsPlanned
<1>7. Tidy'
  BY <1>2, <1>3, <1>4, <1>6 DEF Tidy
<1>8. AtHand'
  BY <1>2, <1>3, <1>5 DEF AtHand
<1>9. Elsewhere'
  BY <1>2, <1>3, <1>4, <1>5 DEF Elsewhere, TeardownLabels, OLMTeardownLabels, TearingAllDown, Replacing, InstanceLabels, CreateLabels
<1>10. Unwanted'
  BY <1>1, <1>2, <1>3, <1>5 DEF Unwanted
<1>11. Left'
  BY <1>1, <1>2, <1>3, <1>4, <1>5 DEF Left
<1> QED BY <1>7, <1>8, <1>9, <1>10, <1>11 DEF Orderly

\* A step leaves the namespaces alone at which the process is not.
LEMMA OthersKept ==
  ASSUME ~Fault, IndInv, Orderly, [Next]_vars, NEW n \in AllOperatorNamespaces, n # cur
  PROVE  /\ SameAt(n) /\ (Bare(n) \/ Runs(n))
         /\ (Bare(n)' <=> Bare(n)) /\ (Runs(n)' <=> Runs(n))
         /\ UNCHANGED cfg => (RunsAsPlanned(n)' <=> RunsAsPlanned(n))
<1>1. Bare(n) \/ Runs(n)
  BY DEF Orderly, Tidy
<1>2. ~(n = "system" /\ pc = "subDelete")
  BY DEF IndInv, ControlOK, OLMTeardownLabels
<1>3. SameAt(n)
  BY <1>1, <1>2, RestKept DEF Orderly
<1>4. UNCHANGED cfg => (RunsAsPlanned(n)' <=> RunsAsPlanned(n))
  BY <1>3, SameState DEF RunsAsPlanned, InstanceVersion, SameAt
<1> QED BY <1>1, <1>3, <1>4, SameState

\* What the process works on, typed.
LEMMA CurTypes ==
  ASSUME IndInv
  PROVE  /\ ProcessTypeOK /\ cur \in AllOperatorNamespaces /\ AllOperatorNamespaces = {"system", "central", "sensor"}
         /\ ns \in [AllOperatorNamespaces -> {"absent", "active", "terminating"}]
         /\ dep \in [AllOperatorNamespaces -> [ver : VersionOrNone, olm : BOOLEAN]]
         /\ rbac \in [AllOperatorNamespaces -> SUBSET {"role", "binding"}]
         /\ sub \in [ver : VersionOrNone, plan : {"none", "pending", "approved"}]
  BY DEF IndInv, TypeOK, ProcessTypeOK, ClusterTypeOK, AllOperatorNamespaces

\* Deleting a namespace and its cluster permissions.
LEMMA DeleteOrderly ==
  ASSUME ~Fault, IndInv, Orderly, DeleteOperatorNamespace \/ DeleteClusterRoleBinding \/ DeleteClusterRole, ret # "allRBAC"
  PROVE  Orderly'
<1>1. /\ UNCHANGED <<dep, sub, csv, cmd, cfg, cur, ret>> /\ pc \in {"nsDelete", "bindingDelete", "roleDelete"}
      /\ pc' = IF pc = "nsDelete" THEN "bindingDelete" ELSE IF pc = "bindingDelete" THEN "roleDelete" ELSE "nsWait"
      /\ ret \in {"stale", "replace", "all"}
  BY DEF DeleteOperatorNamespace, DeleteClusterRoleBinding, DeleteClusterRole, DeleteNamespace, DeleteRBAC, Goto, Jump,
         IndInv, ControlOK
<1>2. \A n \in AllOperatorNamespaces : n # cur =>
        /\ Bare(n) \/ Runs(n)
        /\ (Bare(n)' <=> Bare(n)) /\ (Runs(n)' <=> Runs(n)) /\ (RunsAsPlanned(n)' <=> RunsAsPlanned(n))
  BY <1>1, OthersKept DEF Next, RoxieStep
<1>3. OperatorInstances(cfg)' = OperatorInstances(cfg) /\ dep' = dep
  BY <1>1 DEF OperatorInstances, HasMixedVersions
<1>4. /\ pc = "nsDelete" => Going(cur, {"role", "binding"})' /\ ~Bare(cur)
      /\ pc = "bindingDelete" => Going(cur, {"role"})' /\ (Bare(cur) => Bare(cur)')
      /\ pc = "roleDelete" => Going(cur, {})' /\ (Bare(cur) => Bare(cur)')
  <2>1. CASE pc = "nsDelete"
    <3>1. Runs(cur) /\ ns' = [ns EXCEPT ![cur] = IF @ = "absent" THEN @ ELSE "terminating"] /\ UNCHANGED rbac
      BY <2>1 DEF DeleteOperatorNamespace, DeleteClusterRoleBinding, DeleteClusterRole, DeleteNamespace, Silently, Orderly, AtHand
    <3>2. ns'[cur] = "terminating" /\ ~Bare(cur)
      BY <3>1, CurTypes, TwoStates
    <3> QED BY <1>1, <2>1, <3>1, <3>2, CurTypes DEF Going
  <2>2. CASE pc = "bindingDelete"
    <3>1. Going(cur, {"role", "binding"}) /\ rbac' = [rbac EXCEPT ![cur] = @ \ {"binding"}] /\ UNCHANGED ns
      BY <2>2 DEF DeleteOperatorNamespace, DeleteClusterRoleBinding, DeleteClusterRole, DeleteRBAC, Silently, Orderly, AtHand
    <3>2. rbac'[cur] = rbac[cur] \ {"binding"}
      BY <3>1, CurTypes
    <3> QED BY <1>1, <2>2, <3>1, <3>2, CurTypes DEF Going, Bare, OperatorExists
  <2>3. CASE pc = "roleDelete"
    <3>1. Going(cur, {"role"}) /\ rbac' = [rbac EXCEPT ![cur] = @ \ {"role"}] /\ UNCHANGED ns
      BY <2>3 DEF DeleteOperatorNamespace, DeleteClusterRoleBinding, DeleteClusterRole, DeleteRBAC, Silently, Orderly, AtHand
    <3>2. rbac'[cur] = rbac[cur] \ {"role"}
      BY <3>1, CurTypes
    <3> QED BY <1>1, <2>3, <3>1, <3>2, CurTypes DEF Going, Bare, OperatorExists
  <2> QED BY <1>1, <2>1, <2>2, <2>3
<1>5. Tidy'
  BY <1>1, <1>2 DEF Tidy, Busy
<1>6. AtHand'
  BY <1>1, <1>4 DEF AtHand
<1>7. Elsewhere'
  <2>1. \A n \in AllOperatorNamespaces : Passed(n)' => Passed(n)
    BY <1>1 DEF Passed, PastStaleLoop, InStaleLoop, InstanceLabels, CreateLabels, OLMLabels, TeardownLabels, OLMTeardownLabels
  <2>2. \A n \in AllOperatorNamespaces : Passed(n)' /\ n \notin OperatorInstances(cfg) => Bare(n)'
    BY <1>1, <1>2, <1>4, <2>1 DEF Orderly, Elsewhere
  <2>3. ret = "stale" => \A n \in OperatorInstances(cfg) : n \in AllOperatorNamespaces /\ n # cur /\ Bare(n)
    BY <1>1, CurTypes, Plans DEF Orderly, Elsewhere, TeardownLabels, IndInv, ControlOK
  <2>4. /\ ret = "all" /\ cur # "system" => Bare("system")
        /\ ret = "all" /\ cur = "sensor" => Bare("central")
        /\ ret = "replace" /\ cur = "sensor" => RunsAsPlanned("central")
    BY <1>1 DEF Orderly, Elsewhere, TearingAllDown, TeardownLabels, Replacing
  <2> QED BY <1>1, <1>2, <1>3, <2>2, <2>3, <2>4, CurTypes DEF Elsewhere, TeardownLabels, OLMTeardownLabels, TearingAllDown, Replacing,
          InstanceLabels, CreateLabels
<1>8. Unwanted' /\ Left'
  BY <1>1 DEF Unwanted, Left
<1> QED BY <1>5, <1>6, <1>7, <1>8 DEF Orderly

\* The cluster permissions of all three, of which none is left.
LEMMA AllRBACOrderly ==
  ASSUME ~Fault, IndInv, Orderly, DeleteClusterRoleBinding \/ DeleteClusterRole, ret = "allRBAC"
  PROVE  Orderly'
<1>1. /\ UNCHANGED <<ns, dep, sub, csv, cmd, cfg>> /\ pc \in {"bindingDelete", "roleDelete"}
      /\ \/ pc' \in {"bindingDelete", "roleDelete"} /\ ret' = "allRBAC"
         \/ pc' = "idle" /\ result' = "ok" /\ cmd = "teardown"
         \/ pc' = "olmCheck" /\ cur' = "system" /\ cmd # "teardown"
  BY DEF DeleteClusterRoleBinding, DeleteClusterRole, DeleteRBAC, NextRBAC, Goto, Jump, Finish
<1>2. \A n \in AllOperatorNamespaces : Bare(n)
  BY <1>1 DEF Orderly, Elsewhere
<1>3. UNCHANGED rbac
  <2>1. rbac[cur] = {}
    BY <1>2, CurTypes, TwoStates
  <2>2. PICK x \in {"role", "binding"} : rbac' = [rbac EXCEPT ![cur] = @ \ {x}] \/ UNCHANGED rbac
    BY DEF DeleteClusterRoleBinding, DeleteClusterRole, DeleteRBAC, Silently
  <2>3. rbac[cur] \ {x} = rbac[cur]
    BY <2>1
  <2>4. [rbac EXCEPT ![cur] = @ \ {x}] = rbac
    BY <2>3, CurTypes
  <2> QED BY <2>2, <2>4
<1>4. \A n \in AllOperatorNamespaces : Bare(n)'
  BY <1>1, <1>2, <1>3, ClusterSame
<1>5. \A n \in OperatorInstances(cfg)' : n \in AllOperatorNamespaces
  BY <1>1, CurTypes, Plans DEF OperatorInstances, HasMixedVersions
<1>6. Tidy' /\ Unwanted' /\ Left'
  BY <1>1, <1>4 DEF Tidy, Unwanted, Left
<1>7. AtHand'
  BY <1>1, <1>4 DEF AtHand, AllOperatorNamespaces
<1>8. Elsewhere'
  BY <1>1, <1>4, <1>5 DEF Elsewhere, TeardownLabels, OLMTeardownLabels, TearingAllDown, Replacing, InstanceLabels, CreateLabels,
     AllOperatorNamespaces
<1> QED BY <1>6, <1>7, <1>8 DEF Orderly

\* Deleting the Subscription, the CSV and their namespace.
LEMMA OLMDeleteOrderly ==
  ASSUME ~Fault, IndInv, Orderly, DeleteSubscription \/ DeleteCSV \/ DeleteOLMNamespace
  PROVE  Orderly'
<1>1. /\ UNCHANGED <<dep, rbac, cmd, cfg>> /\ pc \in OLMTeardownLabels /\ cur = "system" /\ cur' = "system"
      /\ pc' = IF pc = "subDelete" THEN "csvDelete" ELSE IF pc = "csvDelete" THEN "olmNsDelete" ELSE "nsWait"
      /\ pc = "olmNsDelete" => ret' = "olm"
  BY DEF DeleteSubscription, DeleteCSV, DeleteOLMNamespace, Goto, Jump, IndInv, ControlOK, OLMTeardownLabels
<1>2. \A n \in AllOperatorNamespaces : n # "system" => Bare(n) /\ Bare(n)'
  <2>1. Bare("central") /\ Bare("sensor")
    BY <1>1 DEF Orderly, Elsewhere
  <2> QED BY <1>1, <2>1, OthersKept, CurTypes DEF Next, RoxieStep
<1>3. OperatorInstances(cfg)' = OperatorInstances(cfg) /\ dep' = dep
  BY <1>1 DEF OperatorInstances, HasMixedVersions
<1>4. /\ pc \in {"subDelete", "csvDelete"} => OLMGoing'
      /\ pc = "csvDelete" => csv' = 0
      /\ pc = "olmNsDelete" => Going("system", {})'
      /\ ns["system"] = "active"
  <2>1. CASE pc = "subDelete"
    <3>1. Runs("system") /\ dep["system"].olm /\ sub' = NoSubscription /\ UNCHANGED ns
      BY <1>1, <2>1 DEF DeleteSubscription, DeleteCSV, DeleteOLMNamespace, Silently, Orderly, AtHand
    <3>2. ns["system"] = "active" /\ rbac["system"] = {}
      BY <3>1 DEF Runs
    <3> QED BY <1>1, <2>1, <3>1, <3>2 DEF OLMGoing
  <2>2. CASE pc = "csvDelete"
    <3>1. OLMGoing /\ csv' = 0 /\ UNCHANGED <<ns, sub>>
      BY <1>1, <2>2 DEF DeleteSubscription, DeleteCSV, DeleteOLMNamespace, Silently, Orderly, AtHand
    <3> QED BY <1>1, <2>2, <3>1 DEF OLMGoing, OperatorExists
  <2>3. CASE pc = "olmNsDelete"
    <3>1. OLMGoing /\ ns' = [ns EXCEPT !["system"] = IF @ = "absent" THEN @ ELSE "terminating"] /\ UNCHANGED <<sub, csv>>
      BY <1>1, <2>3 DEF DeleteSubscription, DeleteCSV, DeleteOLMNamespace, Silently, Orderly, AtHand
    <3>2. ns["system"] = "active" /\ ns'["system"] = "terminating" /\ rbac["system"] = {}
      BY <3>1, CurTypes DEF OLMGoing
    <3> QED BY <1>1, <2>3, <3>2 DEF Going
  <2> QED BY <1>1, <2>1, <2>2, <2>3 DEF OLMTeardownLabels
<1>5. Tidy'
  BY <1>1, <1>2 DEF Tidy, Busy, OLMTeardownLabels
<1>6. AtHand'
  BY <1>1, <1>4 DEF AtHand, OLMTeardownLabels
<1>7. Elsewhere'
  <2>1. \A n \in AllOperatorNamespaces : Passed(n)' => Passed(n)
    BY <1>1 DEF Passed, PastStaleLoop, InStaleLoop, InstanceLabels, CreateLabels, OLMLabels, TeardownLabels, OLMTeardownLabels
  <2>2. ~Bare("system") /\ "system" \in AllOperatorNamespaces
    BY <1>4, CurTypes, TwoStates
  <2>3. \A n \in AllOperatorNamespaces : Passed(n)' /\ n \notin OperatorInstances(cfg) => Bare(n)'
    BY <1>2, <2>1, <2>2 DEF Orderly, Elsewhere
  <2> QED BY <1>1, <1>2, <1>3, <2>3, CurTypes DEF Elsewhere, TeardownLabels, OLMTeardownLabels, TearingAllDown, Replacing,
          InstanceLabels, CreateLabels
<1>8. Unwanted' /\ Left'
  BY <1>1 DEF Unwanted, Left, OLMTeardownLabels
<1> QED BY <1>5, <1>6, <1>7, <1>8 DEF Orderly

\* Creating an operator, step by step, where nothing of one is left.
LEMMA CreateOrderly ==
  ASSUME ~Fault, IndInv, Orderly, PrepareNamespace \/ CreateClusterRole \/ CreateClusterRoleBinding \/ CreateDeployment
  PROVE  Orderly'
<1>1. /\ UNCHANGED <<sub, csv, cmd, cfg>> /\ pc \in {"prepare", "role", "binding", "deployment"}
      /\ cmd = "deploy" /\ cur \in OperatorInstances(cfg) /\ (pc # "prepare" => ~cfg.olm)
  BY DEF PrepareNamespace, CreateClusterRole, CreateClusterRoleBinding, CreateDeployment, Goto, Jump, Finish, IndInv, ControlOK,
         InstanceLabels, CreateLabels
<1>2. /\ pc = "prepare" => Bare(cur)
      /\ pc = "role" => Coming(cur, {})
      /\ pc = "binding" => Coming(cur, {"role"})
      /\ pc = "deployment" => Coming(cur, {"role", "binding"})
  BY DEF Orderly, AtHand
<1>3. /\ cur' = cur
      /\ \/ pc = "prepare" /\ pc' = (IF cfg.olm THEN "subscribe" ELSE "role") /\ Coming(cur, {})'
         \/ pc = "role" /\ pc' = "binding" /\ Coming(cur, {"role"})'
         \/ pc = "binding" /\ pc' = "deployment" /\ Coming(cur, {"role", "binding"})'
         \/ pc = "deployment" /\ pc' = "ready" /\ RunsAsPlanned(cur)'
  <2>1. CASE PrepareNamespace
    <3>1. /\ pc = "prepare" /\ ns' = [ns EXCEPT ![cur] = "active"] /\ UNCHANGED <<dep, rbac, cur>>
          /\ pc' = IF cfg.olm THEN "subscribe" ELSE "role"
      BY <1>2, <2>1, CurTypes, TwoStates DEF PrepareNamespace, Sees, Goto, Jump
    <3>2. ns'[cur] = "active"
      BY <3>1, CurTypes
    <3>3. rbac[cur] = {} /\ ~OperatorExists(cur) /\ (cur = "system" => sub = NoSubscription /\ csv = 0)
      BY <1>2, <3>1, CurTypes, TwoStates
    <3> QED BY <1>1, <3>1, <3>2, <3>3 DEF Coming, OperatorExists
  <2>2. CASE CreateClusterRole
    <3>1. /\ pc = "role" /\ rbac' = [rbac EXCEPT ![cur] = @ \cup {"role"}] /\ UNCHANGED <<ns, dep, cur>> /\ pc' = "binding"
      BY <1>2, <2>2 DEF CreateClusterRole, Coming, Goto, Jump
    <3>2. rbac'[cur] = {"role"}
      BY <1>2, <3>1, CurTypes DEF Coming
    <3> QED BY <1>1, <1>2, <3>1, <3>2 DEF Coming, OperatorExists
  <2>3. CASE CreateClusterRoleBinding
    <3>1. /\ pc = "binding" /\ rbac' = [rbac EXCEPT ![cur] = @ \cup {"binding"}] /\ UNCHANGED <<ns, dep, cur>> /\ pc' = "deployment"
      BY <2>3 DEF CreateClusterRoleBinding, Goto, Jump
    <3>2. rbac'[cur] = {"role", "binding"}
      BY <1>2, <3>1, CurTypes DEF Coming
    <3> QED BY <1>1, <1>2, <3>1, <3>2 DEF Coming, OperatorExists
  <2>4. CASE CreateDeployment
    <3>1. /\ pc = "deployment" /\ UNCHANGED <<ns, rbac, cur>> /\ pc' = "ready"
          /\ dep' = [dep EXCEPT ![cur] = [ver |-> InstanceVersion(cfg, cur), olm |-> FALSE]]
      BY <1>2, <2>4 DEF CreateDeployment, Coming, Goto, Jump
    <3>2. dep'[cur] = [ver |-> InstanceVersion(cfg, cur), olm |-> FALSE]
      BY <3>1, CurTypes
    <3>3. InstanceVersion(cfg, cur) # 0 /\ cfg.olm = FALSE
      BY <1>1, <3>1, CurTypes, PlanTypes DEF Versions, ProcessTypeOK, Configs
    <3>4. InstanceVersion(cfg, cur)' = InstanceVersion(cfg, cur)
      BY <1>1, <3>1 DEF InstanceVersion
    <3>5. /\ ns'[cur] = "active" /\ rbac'[cur] = {"role", "binding"}
          /\ cur = "system" => sub' = NoSubscription /\ csv' = 0
      BY <1>1, <1>2, <3>1 DEF Coming
    <3>6. dep'[cur].ver # 0 /\ dep'[cur].olm = FALSE
      BY <3>2, <3>3
    <3>7. cur' = cur /\ cfg' = cfg
      BY <1>1, <3>1
    <3>8. Runs(cur)'
      BY <3>5, <3>6, <3>7 DEF Runs
    <3>9. RunsAsPlanned(cur)'
      BY <3>2, <3>3, <3>4, <3>7, <3>8 DEF RunsAsPlanned
    <3> QED BY <3>1, <3>9
  <2> QED BY <2>1, <2>2, <2>3, <2>4
<1>4. /\ \A n \in AllOperatorNamespaces : n # cur =>
           /\ Bare(n) \/ Runs(n)
           /\ (Bare(n)' <=> Bare(n)) /\ (Runs(n)' <=> Runs(n)) /\ (RunsAsPlanned(n)' <=> RunsAsPlanned(n))
      /\ OperatorInstances(cfg)' = OperatorInstances(cfg)
  BY <1>1, OthersKept DEF Next, RoxieStep, OperatorInstances, HasMixedVersions
<1>5. Tidy'
  BY <1>3, <1>4 DEF Tidy, Busy, RunsAsPlanned
<1>6. AtHand' /\ Unwanted' /\ Left'
  BY <1>3 DEF AtHand, Unwanted, Left
<1>7. Elsewhere'
  <2>1. \A n \in AllOperatorNamespaces : n \notin OperatorInstances(cfg) => n # cur /\ Bare(n)
    BY <1>1 DEF Orderly, Elsewhere, Passed, PastStaleLoop, InstanceLabels, CreateLabels
  <2>2. cur = "sensor" => RunsAsPlanned("central")
    BY <1>1 DEF Orderly, Elsewhere, InstanceLabels, CreateLabels
  <2> QED BY <1>1, <1>3, <1>4, <2>1, <2>2, CurTypes DEF Elsewhere, TeardownLabels, OLMTeardownLabels, TearingAllDown, Replacing,
          InstanceLabels, CreateLabels
<1> QED BY <1>5, <1>6, <1>7 DEF Orderly

\* Creating the Subscription and approving its InstallPlan.
LEMMA SubscribeOrderly ==
  ASSUME ~Fault, IndInv, Orderly, CreateSubscription \/ WaitForAndApproveInstallPlan
  PROVE  Orderly'
<1>1. /\ UNCHANGED <<ns, dep, rbac, csv, cmd, cfg>> /\ pc \in {"subscribe", "plan"}
      /\ cmd = "deploy" /\ cur = "system" /\ cfg.olm
  BY DEF CreateSubscription, WaitForAndApproveInstallPlan, Goto, Jump, Finish, IndInv, ControlOK, OLMLabels
<1>2. /\ pc = "subscribe" => Coming("system", {})
      /\ pc = "plan" => OLMComing /\ csv = 0 /\ sub.ver # 0
  BY <1>1, CurTypes, ConstantsAssumption DEF Orderly, AtHand, OLMComing, ProcessTypeOK, Configs, Versions
<1>3. /\ cur' = "system" /\ OLMComing'
      /\ \/ pc = "subscribe" /\ pc' = "plan" /\ csv' = 0 /\ sub'.plan # "approved"
         \/ pc = "plan" /\ pc' = "csvWait" /\ sub'.plan = "approved"
  <2>1. CASE CreateSubscription
    <3>1. pc = "subscribe" /\ pc' = "plan" /\ cur' = cur /\ sub' = [ver |-> cfg.central, plan |-> "none"]
      BY <1>1, <1>2, <2>1 DEF CreateSubscription, Coming, Goto, Jump
    <3>2. sub'.ver = cfg.central /\ sub'.plan = "none"
      BY <3>1
    <3> QED BY <1>1, <1>2, <3>1, <3>2 DEF Coming, OLMComing, OperatorExists
  <2>2. CASE WaitForAndApproveInstallPlan
    <3>1. pc = "plan" /\ pc' = "csvWait" /\ cur' = cur /\ sub' = [sub EXCEPT !.plan = "approved"]
      BY <1>2, <2>2 DEF WaitForAndApproveInstallPlan, Goto, Jump
    <3>2. sub'.ver = sub.ver /\ sub'.plan = "approved"
      BY <3>1, CurTypes
    <3>3. csv = 0 /\ ~OperatorExists("system") /\ ns["system"] = "active" /\ rbac["system"] = {} /\ sub.ver = cfg.central
      BY <1>1, <1>2, <3>1, CurTypes DEF OLMComing, ProcessTypeOK, Configs, Versions
    <3> QED BY <1>1, <3>1, <3>2, <3>3 DEF OLMComing, OperatorExists
  <2> QED BY <2>1, <2>2
<1>4. \A n \in AllOperatorNamespaces : n # "system" => Bare(n) /\ Bare(n)'
  <2>1. \A n \in AllOperatorNamespaces : n # "system" => Bare(n)
    BY <1>1, CurTypes, Plans DEF Orderly, Elsewhere, Passed, PastStaleLoop, OLMLabels
  <2> QED BY <1>1, <2>1, OthersKept DEF Next, RoxieStep
<1>5. OperatorInstances(cfg)' = {"system"}
  BY <1>1, CurTypes, Plans DEF OperatorInstances, HasMixedVersions
<1>6. Tidy'
  BY <1>3, <1>4 DEF Tidy, Busy
<1>7. AtHand' /\ Unwanted' /\ Left'
  BY <1>3 DEF AtHand, Unwanted, Left
<1>8. Elsewhere'
  BY <1>1, <1>3, <1>4, <1>5, CurTypes DEF Elsewhere, TeardownLabels, OLMTeardownLabels, TearingAllDown, Replacing,
     InstanceLabels, CreateLabels
<1> QED BY <1>6, <1>7, <1>8 DEF Orderly

\* The cluster's own steps: they only finish what the process waits for.
LEMMA ClusterOrderly ==
  ASSUME ~Fault, IndInv, Orderly, ClusterStep
  PROVE  Orderly'
<1>1. UNCHANGED <<rbac, pc, cmd, cfg, cur, ret, crdTodo, result>>
  BY DEF ClusterStep, NamespaceContentDeleted, NamespaceRemoved, OLMProposesInstallPlan, OLMInstalls, OLMCollects, process
<1>2. OperatorInstances(cfg)' = OperatorInstances(cfg) /\ (Busy' <=> Busy)
  BY <1>1 DEF OperatorInstances, HasMixedVersions, Busy
<1>3. ASSUME NEW n \in AllOperatorNamespaces, n = cur => ~Busy
      PROVE  /\ SameAt(n) /\ (Bare(n) \/ Runs(n)) /\ dep'[n] = dep[n]
             /\ (Bare(n)' <=> Bare(n)) /\ (Runs(n)' <=> Runs(n)) /\ (RunsAsPlanned(n)' <=> RunsAsPlanned(n))
  <2>1. Bare(n) \/ Runs(n)
    BY <1>3 DEF Orderly, Tidy
  <2>2. SameAt(n)
    BY <1>1, <1>3, <2>1, RestKept DEF Orderly, Next
  <2>3. dep'[n] = dep[n]
    BY <2>2 DEF SameAt
  <2>4. RunsAsPlanned(n)' <=> RunsAsPlanned(n)
    BY <1>1, <2>2, <2>3, SameState DEF RunsAsPlanned, InstanceVersion
  <2> QED BY <2>1, <2>2, <2>3, <2>4, SameState
<1>4. ASSUME NEW p \in SUBSET {"role", "binding"}, Going(cur, p) PROVE Going(cur, p)'
  <2>1. CASE NamespaceContentDeleted(cur)
    BY <1>1, <1>4, <2>1, CurTypes DEF NamespaceContentDeleted, Going, OperatorExists
  <2>2. CASE NamespaceRemoved(cur)
    BY <1>1, <1>4, <2>2, CurTypes DEF NamespaceRemoved, Going, OperatorExists, SystemHoldsOLM
  <2>3. CASE \E n \in AllOperatorNamespaces : n # cur /\ (NamespaceContentDeleted(n) \/ NamespaceRemoved(n))
    BY <1>1, <1>4, <2>3, CurTypes DEF NamespaceContentDeleted, NamespaceRemoved, Going, OperatorExists
  <2>4. CASE OLMProposesInstallPlan \/ OLMInstalls
    BY <1>1, <1>4, <2>4, CurTypes DEF OLMProposesInstallPlan, OLMInstalls, OLMCanInstall, Going, OperatorExists
  <2>5. CASE OLMCollects
    BY <1>1, <1>4, <2>5, CurTypes DEF OLMCollects, Going, OperatorExists, NoOperator
  <2> QED BY <2>1, <2>2, <2>3, <2>4, <2>5 DEF ClusterStep
<1>5. ASSUME NEW p \in SUBSET {"role", "binding"}, Coming(cur, p) PROVE Coming(cur, p)'
  <2>1. \/ UNCHANGED ns /\ dep'[cur] = dep[cur] /\ (cur = "system" => UNCHANGED <<sub, csv>>)
        \/ \E n \in AllOperatorNamespaces : n # cur /\ (NamespaceContentDeleted(n) \/ NamespaceRemoved(n))
    BY <1>5, CurTypes DEF ClusterStep, NamespaceContentDeleted, NamespaceRemoved, OLMProposesInstallPlan, OLMInstalls, OLMCanInstall,
       OLMCollects, Coming, NoSubscription, OperatorExists, NoOperator
  <2>2. ns'[cur] = ns[cur] /\ dep'[cur] = dep[cur] /\ (cur = "system" => UNCHANGED <<sub, csv>>)
    BY <2>1, CurTypes DEF NamespaceContentDeleted, NamespaceRemoved
  <2> QED BY <1>1, <1>5, <2>2 DEF Coming, OperatorExists
<1>6. ASSUME OLMGoing PROVE OLMGoing' /\ (csv = 0 => csv' = 0)
  <2>1. ns["system"] = "active" /\ sub = NoSubscription
    BY <1>6 DEF OLMGoing
  <2>2. CASE \E n \in AllOperatorNamespaces : NamespaceContentDeleted(n) \/ NamespaceRemoved(n)
    BY <1>1, <1>6, <2>1, <2>2, CurTypes DEF NamespaceContentDeleted, NamespaceRemoved, OLMGoing, OperatorExists
  <2>3. CASE OLMCollects
    BY <1>1, <1>6, <2>3, CurTypes DEF OLMCollects, OLMGoing, OperatorExists, NoOperator
  <2>4. ~OLMProposesInstallPlan /\ ~OLMInstalls
    BY <2>1 DEF OLMProposesInstallPlan, OLMInstalls, OLMCanInstall, NoSubscription
  <2> QED BY <2>2, <2>3, <2>4 DEF ClusterStep
<1>7. ASSUME OLMComing
      PROVE  OLMComing' /\ (sub.plan = "approved" <=> sub'.plan = "approved") /\ (csv = 0 /\ sub.plan # "approved" => csv' = 0)
  <2>1. ns["system"] = "active" /\ sub.ver = cfg.central /\ cfg.central # 0 /\ rbac["system"] = {}
    BY <1>7, CurTypes DEF OLMComing, ProcessTypeOK, Configs, Versions
  <2>2. CASE \E n \in AllOperatorNamespaces : NamespaceContentDeleted(n) \/ NamespaceRemoved(n)
    BY <1>1, <1>7, <2>1, <2>2, CurTypes DEF NamespaceContentDeleted, NamespaceRemoved, OLMComing, OperatorExists
  <2>3. CASE OLMProposesInstallPlan
    <3>1. sub'.ver = sub.ver /\ sub'.plan = "pending" /\ sub.plan = "none"
      BY <2>3, CurTypes DEF OLMProposesInstallPlan
    <3> QED BY <1>1, <1>7, <2>3, <3>1 DEF OLMProposesInstallPlan, OLMComing, OperatorExists
  <2>4. CASE OLMInstalls
    <3>1. /\ sub.plan = "approved" /\ sub' = sub /\ ns' = ns /\ csv' = cfg.central
          /\ dep'["system"] = [ver |-> cfg.central, olm |-> TRUE]
      BY <2>1, <2>4, CurTypes DEF OLMInstalls, OLMCanInstall
    <3> QED BY <1>1, <2>1, <3>1 DEF OLMComing
  <2>5. ~OLMCollects
    BY <1>7, <2>1 DEF OLMCollects, OLMComing, OperatorExists, NoOperator
  <2> QED BY <2>2, <2>3, <2>4, <2>5 DEF ClusterStep
<1>8. ASSUME NEW n \in AllOperatorNamespaces, Bare(n) PROVE Bare(n)'
  BY <1>1, <1>8, CurTypes DEF ClusterStep, NamespaceContentDeleted, NamespaceRemoved, OLMProposesInstallPlan, OLMInstalls,
     OLMCanInstall, OLMCollects, Bare, NoSubscription, OperatorExists, NoOperator
<1>9. Tidy'
  BY <1>1, <1>2, <1>3 DEF Tidy
<1>10. AtHand'
  <2>1. cur \in AllOperatorNamespaces /\ AtHand
    BY CurTypes DEF Orderly
  <2>2. ~Busy => (Runs(cur) => Runs(cur)') /\ (RunsAsPlanned(cur) => RunsAsPlanned(cur)') /\ dep'[cur] = dep[cur]
    <3> SUFFICES ASSUME ~Busy PROVE (Runs(cur) => Runs(cur)') /\ (RunsAsPlanned(cur) => RunsAsPlanned(cur)') /\ dep'[cur] = dep[cur]
      OBVIOUS
    <3> DEFINE n == cur
    <3>1. (Runs(n)' <=> Runs(n)) /\ (RunsAsPlanned(n)' <=> RunsAsPlanned(n)) /\ dep'[n] = dep[n]
      BY <1>1, <1>3, <2>1
    <3> QED BY <1>1, <3>1 DEF Runs, RunsAsPlanned
  <2> QED BY <1>1, <1>4, <1>5, <1>6, <1>7, <1>8, <2>1, <2>2 DEF AtHand, Busy
<1>11. Elsewhere'
  <2>1. \A n \in AllOperatorNamespaces : Passed(n)' <=> Passed(n)
    BY <1>1 DEF Passed, PastStaleLoop, InStaleLoop
  <2>2. /\ \A n \in OperatorInstances(cfg) : n \in AllOperatorNamespaces
        /\ {"system", "central", "sensor"} \subseteq AllOperatorNamespaces
    BY CurTypes, Plans
  <2>3. cur = "sensor" /\ RunsAsPlanned("central") => RunsAsPlanned("central")'
    BY <1>3, <2>2
  <2>4. (TearingAllDown' <=> TearingAllDown) /\ (Replacing' <=> Replacing)
    BY <1>1 DEF TearingAllDown, Replacing
  <2>5. Elsewhere
    BY DEF Orderly
  <2> QED BY <1>1, <1>2, <1>8, <2>1, <2>2, <2>3, <2>4, <2>5 DEF Elsewhere
<1>12. Unwanted'
  <2>1. Unwanted /\ cur \in AllOperatorNamespaces /\ "system" \in AllOperatorNamespaces
    BY CurTypes DEF Orderly
  <2>2. pc = "subDelete" => cur = "system"
    BY DEF IndInv, ControlOK, OLMTeardownLabels
  <2>3. InstanceVersion(cfg, cur)' = InstanceVersion(cfg, cur)
    BY <1>1 DEF InstanceVersion
  <2>4. pc \in {"nsDelete", "subDelete", "all"} => dep'[cur] = dep[cur]
    BY <1>3, <2>1 DEF Busy
  <2> QED BY <1>1, <2>1, <2>2, <2>3, <2>4 DEF Unwanted
<1>13. Left'
  <2>1. pc = "idle" => \A n \in AllOperatorNamespaces : (Bare(n)' <=> Bare(n)) /\ (RunsAsPlanned(n)' <=> RunsAsPlanned(n))
    BY <1>3 DEF Busy
  <2>2. Left
    BY DEF Orderly
  <2> QED BY <1>1, <1>2, <2>1, <2>2 DEF Left
<1> QED BY <1>9, <1>10, <1>11, <1>12, <1>13 DEF Orderly

(***************************************************************************)
(* The CRDs.                                                               *)
(***************************************************************************)
\* How a step can change the deployments, the CRDs and the command.
LEMMA DepAndCrd ==
  ASSUME IndInv, [Next]_vars
  PROVE  \/ UNCHANGED crd /\ \A n \in AllOperatorNamespaces : dep'[n] = dep[n] \/ dep'[n] = NoOperator
         \/ (ApplyCRD("crdInstall", "stale") \/ ApplyCRD("crdUpgrade", "prepare")) /\ UNCHANGED dep
         \/ CreateDeployment
         \/ OLMInstalls
<1>1. ASSUME Start \/ GiveUp \/ UNCHANGED vars PROVE UNCHANGED <<crd, dep>>
  BY <1>1 DEF Start, StartDeploy, StartTeardown, GiveUp, vars, cluster
<1>2. ASSUME \/ EnsureCRDsInstalled \/ TeardownStaleOperatorNamespaces \/ DetectOperatorDeploymentMode \/ TeardownOperatorElsewhere
             \/ WaitForNamespaceDeletion \/ TeardownOperatorNonOLM \/ CheckOperatorExists \/ CheckOperatorImage
             \/ CheckOLMOperatorImage \/ CheckOLMInstalled \/ WaitForOperatorReady \/ WaitForCSVSuccess
      PROVE  UNCHANGED <<crd, dep>>
  BY <1>2 DEF EnsureCRDsInstalled, TeardownStaleOperatorNamespaces, DetectOperatorDeploymentMode,
     TeardownOperatorElsewhere, WaitForNamespaceDeletion, TeardownOperatorNonOLM, CheckOperatorExists,
     CheckOperatorImage, CheckOLMOperatorImage, CheckOLMInstalled, WaitForOperatorReady, WaitForCSVSuccess, cluster
<1>3. ASSUME \/ DeleteOperatorNamespace \/ DeleteClusterRoleBinding \/ DeleteClusterRole \/ DeleteSubscription \/ DeleteCSV
             \/ DeleteOLMNamespace \/ PrepareNamespace \/ CreateClusterRole \/ CreateClusterRoleBinding
             \/ CreateSubscription \/ WaitForAndApproveInstallPlan
      PROVE  UNCHANGED <<crd, dep>>
  BY <1>3 DEF DeleteOperatorNamespace, DeleteNamespace, DeleteClusterRoleBinding, DeleteClusterRole, DeleteRBAC,
     DeleteSubscription, DeleteCSV, DeleteOLMNamespace, PrepareNamespace, CreateClusterRole, CreateClusterRoleBinding,
     CreateSubscription, WaitForAndApproveInstallPlan
<1>4. ASSUME \/ \E n \in AllOperatorNamespaces : NamespaceContentDeleted(n) \/ NamespaceRemoved(n)
             \/ OLMProposesInstallPlan \/ OLMCollects
      PROVE  UNCHANGED crd /\ \A n \in AllOperatorNamespaces : dep'[n] = dep[n] \/ dep'[n] = NoOperator
  BY <1>4, CurTypes DEF NamespaceContentDeleted, NamespaceRemoved, OLMProposesInstallPlan, OLMCollects
<1>5. ASSUME ApplyCRD("crdInstall", "stale") \/ ApplyCRD("crdUpgrade", "prepare") PROVE UNCHANGED dep
  BY <1>5 DEF ApplyCRD
<1> QED BY <1>1, <1>2, <1>3, <1>4, <1>5 DEF Next, RoxieStep, ClusterStep

\* A command keeps its kind and its configuration, and checks the CRDs first.
LEMMA CommandKept ==
  ASSUME [Next]_vars
  PROVE  /\ \/ UNCHANGED <<cmd, cfg>> /\ (pc' = "crdCheck" => pc = "crdCheck") /\ (pc = "idle" => pc' = "idle")
            \/ pc = "idle" /\ (pc' = "crdCheck" \/ cmd' = "teardown")
         /\ RoxieStep => UNCHANGED <<cmd, cfg>> /\ pc # "idle"
<1> USE DEF Jump, Goto, Finish
<1>1. ASSUME Start PROVE pc = "idle" /\ (pc' = "crdCheck" \/ cmd' = "teardown")
  BY <1>1 DEF Start, StartDeploy, StartTeardown, MayStart
<1>2. ASSUME GiveUp \/ UNCHANGED vars \/ ClusterStep
      PROVE  UNCHANGED <<cmd, cfg>> /\ (pc' = "crdCheck" => pc = "crdCheck") /\ (pc = "idle" => pc' = "idle")
  BY <1>2 DEF GiveUp, vars, ClusterStep, NamespaceContentDeleted, NamespaceRemoved, OLMProposesInstallPlan, OLMInstalls,
     OLMCollects, process
<1>3. ASSUME \/ EnsureCRDsInstalled \/ ApplyCRD("crdInstall", "stale") \/ ApplyCRD("crdUpgrade", "prepare")
             \/ TeardownStaleOperatorNamespaces \/ DetectOperatorDeploymentMode \/ TeardownOperatorElsewhere
      PROVE  UNCHANGED <<cmd, cfg>> /\ pc' # "crdCheck" /\ pc # "idle"
  BY <1>3 DEF EnsureCRDsInstalled, ApplyCRD, TeardownStaleOperatorNamespaces, NextStale, DetectOperatorDeploymentMode,
     OnDetected, TeardownOperatorElsewhere
<1>4. ASSUME \/ DeleteOperatorNamespace \/ DeleteClusterRoleBinding \/ DeleteClusterRole \/ WaitForNamespaceDeletion
             \/ TeardownOperatorNonOLM \/ DeleteSubscription \/ DeleteCSV \/ DeleteOLMNamespace
      PROVE  UNCHANGED <<cmd, cfg>> /\ pc' # "crdCheck" /\ pc # "idle"
  BY <1>4 DEF DeleteOperatorNamespace, DeleteNamespace, DeleteClusterRoleBinding, DeleteClusterRole, NextRBAC,
     WaitForNamespaceDeletion, AfterTeardown, NextStale, DeployInstance, TeardownOperatorNonOLM, DeleteSubscription,
     DeleteCSV, DeleteOLMNamespace
<1>5. ASSUME \/ CheckOperatorExists \/ CheckOperatorImage \/ CheckOLMOperatorImage \/ CheckOLMInstalled \/ PrepareNamespace
             \/ CreateClusterRole \/ CreateClusterRoleBinding \/ CreateDeployment \/ WaitForOperatorReady
      PROVE  UNCHANGED <<cmd, cfg>> /\ pc' # "crdCheck" /\ pc # "idle"
  BY <1>5 DEF CheckOperatorExists, DeployInstance, CheckOperatorImage, NextInstance, CheckOLMOperatorImage, CheckOLMInstalled,
     PrepareNamespace, CreateClusterRole, CreateClusterRoleBinding, CreateDeployment, WaitForOperatorReady
<1>6. ASSUME CreateSubscription \/ WaitForAndApproveInstallPlan \/ WaitForCSVSuccess
      PROVE  UNCHANGED <<cmd, cfg>> /\ pc' # "crdCheck" /\ pc # "idle"
  BY <1>6 DEF CreateSubscription, WaitForAndApproveInstallPlan, WaitForCSVSuccess
<1> QED BY <1>1, <1>2, <1>3, <1>4, <1>5, <1>6 DEF Next, RoxieStep

\* How the process comes to apply the CRDs of an instance, and past that.
LEMMA Applying ==
  ASSUME IndInv, [Next]_vars
  PROVE  /\ pc' = "crdUpgrade" =>
              UNCHANGED <<pc, crdTodo, cfg>> \/ crdTodo' = Crds \/ ApplyCRD("crdUpgrade", "prepare")
         /\ pc' \in {"prepare", "role", "binding", "deployment"} =>
              \/ UNCHANGED <<cfg, cur>> /\ pc \in {"prepare", "role", "binding", "deployment"}
              \/ ApplyCRD("crdUpgrade", "prepare")
              \/ cfg'.olm
              \/ (InstanceVersion(cfg, cur) # NewestOperatorVersion(cfg))'
<1> USE DEF Jump, Goto, Finish
<1>1. ASSUME Start \/ GiveUp PROVE pc' \notin {"crdUpgrade", "prepare", "role", "binding", "deployment"}
  BY <1>1 DEF Start, StartDeploy, StartTeardown, GiveUp
<1>2. ASSUME UNCHANGED vars \/ ClusterStep PROVE UNCHANGED <<pc, crdTodo, cfg, cur>>
  BY <1>2 DEF vars, ClusterStep, NamespaceContentDeleted, NamespaceRemoved, OLMProposesInstallPlan, OLMInstalls,
     OLMCollects, process
<1>3. ASSUME \/ EnsureCRDsInstalled \/ ApplyCRD("crdInstall", "stale") \/ TeardownStaleOperatorNamespaces
             \/ DetectOperatorDeploymentMode \/ TeardownOperatorElsewhere
             \/ DeleteOperatorNamespace \/ DeleteClusterRoleBinding \/ DeleteClusterRole
             \/ TeardownOperatorNonOLM \/ DeleteSubscription \/ DeleteCSV \/ DeleteOLMNamespace
      PROVE  pc' \notin {"crdUpgrade", "prepare", "role", "binding", "deployment"}
  BY <1>3 DEF EnsureCRDsInstalled, ApplyCRD, TeardownStaleOperatorNamespaces, NextStale, DetectOperatorDeploymentMode,
     OnDetected, TeardownOperatorElsewhere, DeleteOperatorNamespace, DeleteNamespace, DeleteClusterRoleBinding,
     DeleteClusterRole, NextRBAC, TeardownOperatorNonOLM, DeleteSubscription, DeleteCSV, DeleteOLMNamespace
<1>4. ASSUME \/ CheckOperatorImage \/ CheckOLMOperatorImage \/ CreateDeployment \/ WaitForOperatorReady
             \/ CreateSubscription \/ WaitForAndApproveInstallPlan \/ WaitForCSVSuccess
      PROVE  pc' \notin {"crdUpgrade", "prepare", "role", "binding", "deployment"}
  BY <1>4 DEF CheckOperatorImage, NextInstance, CheckOLMOperatorImage, CreateDeployment, WaitForOperatorReady,
     CreateSubscription, WaitForAndApproveInstallPlan, WaitForCSVSuccess
<1>5. ASSUME PrepareNamespace \/ CreateClusterRole \/ CreateClusterRoleBinding
      PROVE  /\ pc' # "crdUpgrade" /\ pc \in {"prepare", "role", "binding", "deployment"}
             /\ pc' = "idle" \/ UNCHANGED <<cfg, cur>>
  BY <1>5 DEF PrepareNamespace, CreateClusterRole, CreateClusterRoleBinding
<1>6. ASSUME CheckOLMInstalled PROVE pc' # "crdUpgrade" /\ cfg'.olm
  BY <1>6 DEF CheckOLMInstalled, IndInv, ControlOK, OLMLabels
<1>7. ASSUME CheckOperatorExists \/ WaitForNamespaceDeletion
      PROVE  \/ pc' = "crdUpgrade" /\ crdTodo' = Crds
             \/ pc' = "prepare" /\ (InstanceVersion(cfg, cur) # NewestOperatorVersion(cfg))'
             \/ pc' \notin {"crdUpgrade", "prepare", "role", "binding", "deployment"}
  <2>1. CASE DeployInstance(cur)
    BY <2>1 DEF DeployInstance, InstanceVersion, NewestOperatorVersion
  <2>2. CASE ~DeployInstance(cur)
    BY <1>7, <2>2 DEF CheckOperatorExists, WaitForNamespaceDeletion, AfterTeardown, NextStale
  <2> QED BY <2>1, <2>2
<1> QED BY <1>1, <1>2, <1>3, <1>4, <1>5, <1>6, <1>7 DEF Next, RoxieStep

\* The versions of a plan are in order, and the newest is that of one of its instances.
VersionsInOrder ==
  /\ NewestOperatorVersion(cfg) \in Nat /\ NewestOperatorVersion(cfg) # 0
  /\ \A n \in AllOperatorNamespaces : InstanceVersion(cfg, n) \in Nat /\ InstanceVersion(cfg, n) <= NewestOperatorVersion(cfg)
  /\ \E n \in AllOperatorNamespaces :
       n \in OperatorInstances(cfg) /\ InstanceVersion(cfg, n) = NewestOperatorVersion(cfg)
  /\ \A n \in AllOperatorNamespaces : dep[n].ver \in Nat
  /\ \A c \in Crds : crd[c] \in Nat
LEMMA VersionsOrdered == (IndInv => VersionsInOrder) /\ (IndInv' => VersionsInOrder')
<1>1. ASSUME NEW c \in Configs
      PROVE  /\ NewestOperatorVersion(c) \in Nat /\ NewestOperatorVersion(c) # 0
             /\ \A n \in AllOperatorNamespaces : InstanceVersion(c, n) \in Nat /\ InstanceVersion(c, n) <= NewestOperatorVersion(c)
             /\ \E n \in AllOperatorNamespaces :
                  n \in OperatorInstances(c) /\ InstanceVersion(c, n) = NewestOperatorVersion(c)
  <2>1. /\ NewestOperatorVersion(c) \in Nat /\ NewestOperatorVersion(c) # 0
        /\ \A n \in AllOperatorNamespaces : InstanceVersion(c, n) \in Nat /\ InstanceVersion(c, n) <= NewestOperatorVersion(c)
    BY ConstantsAssumption DEF Configs, Versions, NewestOperatorVersion, InstanceVersion
  <2>2. CASE c.central # c.sensor /\ ~(c.central >= c.sensor)
    <3>1. /\ "sensor" \in AllOperatorNamespaces /\ "sensor" \in OperatorInstances(c)
          /\ InstanceVersion(c, "sensor") = NewestOperatorVersion(c)
      BY <2>1, <2>2 DEF OperatorInstances, HasMixedVersions, InstanceVersion, NewestOperatorVersion, AllOperatorNamespaces, Configs, Versions
    <3> QED BY <2>1, <3>1
  <2>3. CASE c.central # c.sensor /\ c.central >= c.sensor
    <3>1. /\ "central" \in AllOperatorNamespaces /\ "central" \in OperatorInstances(c)
          /\ InstanceVersion(c, "central") = NewestOperatorVersion(c)
      BY <2>1, <2>3 DEF OperatorInstances, HasMixedVersions, InstanceVersion, NewestOperatorVersion, AllOperatorNamespaces, Configs, Versions
    <3> QED BY <2>1, <3>1
  <2>4. CASE c.central = c.sensor
    <3>1. /\ "system" \in AllOperatorNamespaces /\ "system" \in OperatorInstances(c)
          /\ InstanceVersion(c, "system") = NewestOperatorVersion(c)
      BY <2>1, <2>4 DEF OperatorInstances, HasMixedVersions, InstanceVersion, NewestOperatorVersion, AllOperatorNamespaces, Configs, Versions
    <3> QED BY <2>1, <3>1
  <2> QED BY <2>1, <2>2, <2>3, <2>4
<1>2. ASSUME IndInv
      PROVE  cfg \in Configs /\ (\A n \in AllOperatorNamespaces : dep[n].ver \in Nat) /\ (\A c \in Crds : crd[c] \in Nat)
  BY <1>2, ConstantsAssumption DEF IndInv, TypeOK, ProcessTypeOK, ClusterTypeOK, VersionOrNone
<1>3. ASSUME IndInv'
      PROVE  cfg' \in Configs /\ (\A n \in AllOperatorNamespaces : dep'[n].ver \in Nat) /\ (\A c \in Crds : crd'[c] \in Nat)
  BY <1>3, ConstantsAssumption DEF IndInv, TypeOK, ProcessTypeOK, ClusterTypeOK, VersionOrNone
<1>4. IndInv => VersionsInOrder
  BY <1>1, <1>2 DEF VersionsInOrder
<1>5. IndInv' => VersionsInOrder'
  BY <1>1, <1>3 DEF VersionsInOrder
<1> QED BY <1>4, <1>5

\* No CRD falls behind an operator that runs or is about to.
LEMMA CrdsStep ==
  ASSUME ~Fault, IndInv, IndInv', Undisturbed, Orderly', [Next]_vars
  PROVE  CrdsCurrent' /\ CrdsApplied'
<1> DEFINE Deploying == cmd = "deploy" /\ pc \notin {"idle", "crdCheck"}
<1>1. /\ Deploying => UNCHANGED <<cmd, cfg>> /\ (Deploying' \/ pc' = "idle")
      /\ ~Deploying /\ Deploying' => UNCHANGED cfg
  BY CommandKept
<1>2. CrdsCurrent /\ CrdsApplied
  BY DEF Undisturbed
<1>3. UNCHANGED cfg => NewestOperatorVersion(cfg)' = NewestOperatorVersion(cfg) /\ InstanceVersion(cfg, cur)' = InstanceVersion(cfg', cur')
  BY DEF NewestOperatorVersion, InstanceVersion
<1>4. NoOperator.ver = 0 /\ VersionsInOrder /\ VersionsInOrder'
  BY VersionsOrdered DEF NoOperator
<1>5. ASSUME \A n \in AllOperatorNamespaces, c \in Crds :
               (dep[n].ver >= NewestOperatorVersion(cfg))' => (crd[c] >= NewestOperatorVersion(cfg))'
      PROVE  Deploying /\ pc' = "idle" => \A n \in AllOperatorNamespaces, c \in Crds : crd'[c] >= dep'[n].ver
  <2> SUFFICES ASSUME Deploying, pc' = "idle", NEW n \in AllOperatorNamespaces, NEW c \in Crds PROVE crd'[c] >= dep'[n].ver
    OBVIOUS
  <2>1. cmd' = "deploy"
    BY <1>1
  <2>2. CASE result' = "ok"
    <3>1. \A m \in AllOperatorNamespaces : IF m \in OperatorInstances(cfg)' THEN RunsAsPlanned(m)' ELSE Bare(m)'
      BY <2>1, <2>2 DEF Orderly, Left
    <3>2. PICK m \in AllOperatorNamespaces :
            m \in OperatorInstances(cfg)' /\ InstanceVersion(cfg', m) = NewestOperatorVersion(cfg)'
      BY <1>4 DEF VersionsInOrder, InstanceVersion
    <3>4. dep'[m].ver = NewestOperatorVersion(cfg)'
      <4>1. RunsAsPlanned(m)'
        BY <3>1, <3>2
      <4>2. dep'[m].ver = InstanceVersion(cfg', m)
        BY <4>1 DEF RunsAsPlanned, InstanceVersion
      <4> QED BY <3>2, <4>2
    <3>5. crd'[c] >= NewestOperatorVersion(cfg)'
      BY <1>5, <3>4, <1>4 DEF VersionsInOrder
    <3>6. dep'[n].ver <= NewestOperatorVersion(cfg)'
      <4>1. RunsAsPlanned(n)' => dep'[n].ver = InstanceVersion(cfg, n)'
        BY DEF RunsAsPlanned
      <4>2. Bare(n)' => dep'[n].ver = 0
        BY <1>4 DEF Bare
      <4>3. RunsAsPlanned(n)' \/ Bare(n)'
        BY <3>1
      <4> QED BY <4>1, <4>2, <4>3, <1>4 DEF VersionsInOrder
    <3> QED BY <3>5, <3>6, <1>4 DEF VersionsInOrder
  <2>3. CASE result' # "ok"
    <3>1. Bare(n)'
      BY <2>1, <2>3 DEF Orderly, Left
    <3> QED BY <3>1, <1>4 DEF Bare, VersionsInOrder
  <2> QED BY <2>2, <2>3
<1>6. ASSUME UNCHANGED crd, \A n \in AllOperatorNamespaces : dep'[n] = dep[n] \/ dep'[n] = NoOperator PROVE CrdsCurrent'
  <2>1. \A n \in AllOperatorNamespaces, c \in Crds : dep'[n].ver \in {dep[n].ver, 0} /\ crd'[c] = crd[c]
    BY <1>4, <1>6
  <2>2. Deploying => \A n \in AllOperatorNamespaces, c \in Crds :
               (dep[n].ver >= NewestOperatorVersion(cfg))' => (crd[c] >= NewestOperatorVersion(cfg))'
    BY <1>1, <1>2, <1>3, <2>1, <1>4 DEF CrdsCurrent, VersionsInOrder
  <2>3. ~Deploying => \A n \in AllOperatorNamespaces, c \in Crds : crd'[c] >= dep'[n].ver
    BY <1>2, <2>1, <1>4 DEF CrdsCurrent, VersionsInOrder
  <2>4. ~Deploying /\ Deploying' => \A n \in AllOperatorNamespaces, c \in Crds :
               (dep[n].ver >= NewestOperatorVersion(cfg))' => (crd[c] >= NewestOperatorVersion(cfg))'
    BY <2>3, <1>4 DEF VersionsInOrder
  <2>5. CASE Deploying'
    BY <2>2, <2>4, <2>5 DEF CrdsCurrent
  <2>6. CASE ~Deploying'
    BY <1>1, <1>5, <2>2, <2>3, <2>6 DEF CrdsCurrent
  <2> QED BY <2>5, <2>6
<1>7. ASSUME ApplyCRD("crdInstall", "stale") \/ ApplyCRD("crdUpgrade", "prepare"), UNCHANGED dep PROVE CrdsCurrent' /\ CrdsApplied'
  <2>1. /\ Deploying /\ Deploying' /\ UNCHANGED cfg
        /\ \/ pc = "crdInstall" /\ pc' \in {"crdInstall", "stale"} /\ crdTodo' \subseteq crdTodo
           \/ pc = "crdUpgrade" /\ pc' \in {"crdUpgrade", "prepare"}
    BY <1>7 DEF ApplyCRD, Jump, IndInv, ControlOK, InstanceLabels, CreateLabels
  <2>2. PICK c \in crdTodo :
          /\ crd' = [crd EXCEPT ![c] = NewestOperatorVersion(cfg)] /\ crdTodo' = crdTodo \ {c}
          /\ pc' = "prepare" => crdTodo = {c}
    BY <1>7 DEF ApplyCRD, Jump
  <2>3. \A d \in Crds : crd'[d] = IF d = c THEN NewestOperatorVersion(cfg) ELSE crd[d]
    BY <2>2 DEF IndInv, TypeOK, ClusterTypeOK
  <2>4. CrdsCurrent'
    BY <1>2, <1>3, <1>7, <2>1, <2>3, <1>4 DEF CrdsCurrent, VersionsInOrder
  <2>5. CrdsApplied'
    BY <1>2, <1>3, <2>1, <2>2, <2>3, <1>4 DEF CrdsApplied, VersionsInOrder
  <2> QED BY <2>4, <2>5
<1>8. ASSUME CreateDeployment PROVE CrdsCurrent'
  <2>1. /\ pc = "deployment" /\ cmd = "deploy" /\ ~cfg.olm /\ UNCHANGED <<crd, cfg>>
        /\ \A n \in AllOperatorNamespaces : dep'[n] = dep[n] \/ (n = cur /\ dep'[n].ver = InstanceVersion(cfg, cur))
    BY <1>8, CurTypes DEF CreateDeployment, Goto, Jump, Finish, IndInv, ControlOK, InstanceLabels, CreateLabels
  <2>2. InstanceVersion(cfg, cur) = NewestOperatorVersion(cfg) => \A c \in Crds : crd[c] = NewestOperatorVersion(cfg)
    BY <1>2, <2>1 DEF CrdsApplied
  <2>3. \A n \in AllOperatorNamespaces, c \in Crds : dep[n].ver >= NewestOperatorVersion(cfg) => crd[c] >= NewestOperatorVersion(cfg)
    BY <1>2, <2>1 DEF CrdsCurrent
  <2>4. \A n \in AllOperatorNamespaces, c \in Crds :
               (dep[n].ver >= NewestOperatorVersion(cfg))' => (crd[c] >= NewestOperatorVersion(cfg))'
    BY <1>3, <1>4, <2>1, <2>2, <2>3, CurTypes DEF VersionsInOrder
  <2> QED BY <1>1, <1>5, <2>1, <2>4 DEF CrdsCurrent
<1>9. ASSUME OLMInstalls PROVE CrdsCurrent'
  <2>1. /\ UNCHANGED process /\ sub.ver \in Nat /\ dep'["system"].ver = sub.ver
        /\ \A c \in Crds : crd'[c] = sub.ver
        /\ \A n \in AllOperatorNamespaces : n # "system" => dep'[n].ver = 0
    <3>1. sub # NoSubscription /\ "system" \in AllOperatorNamespaces
      BY <1>9 DEF OLMInstalls, OLMCanInstall, NoSubscription, AllOperatorNamespaces
    <3>2. \A n \in AllOperatorNamespaces : n # "system" => dep[n].ver = 0
      BY <1>4, <3>1, CurTypes DEF IndInv, SystemExclusive, OperatorExists
    <3>3. \A n \in AllOperatorNamespaces : n # "system" => dep'[n] = dep[n]
      BY <1>9, CurTypes DEF OLMInstalls
    <3>4. dep'["system"].ver = sub.ver
      BY <1>9, CurTypes DEF OLMInstalls
    <3>5. dep'["system"].ver \in Nat
      BY <1>4, <3>1 DEF VersionsInOrder
    <3> QED BY <1>9, <3>2, <3>3, <3>4, <3>5 DEF OLMInstalls
  <2>2. \A n \in AllOperatorNamespaces, c \in Crds : crd'[c] >= dep'[n].ver
    BY <2>1
  <2> QED BY <2>1, <2>2, <1>4 DEF CrdsCurrent, VersionsInOrder, process
<1>10. CrdsCurrent'
  BY <1>6, <1>7, <1>8, <1>9, DepAndCrd
<1>11. CrdsApplied'
  <2>1. CASE ApplyCRD("crdInstall", "stale") \/ ApplyCRD("crdUpgrade", "prepare")
    BY <1>7, <2>1 DEF ApplyCRD
  <2>2. CASE OLMInstalls
    <3>1. sub # NoSubscription /\ UNCHANGED process
      BY <2>2 DEF OLMInstalls, OLMCanInstall, NoSubscription
    <3>2. pc \notin {"crdUpgrade"} /\ (pc \in {"prepare", "role", "binding", "deployment"} => cfg.olm)
      BY <3>1 DEF IndInv, NothingToReplace, ControlOK, InstanceLabels, CreateLabels
    <3> QED BY <3>1, <3>2 DEF CrdsApplied, process
  <2>3. CASE ~OLMInstalls /\ ~ApplyCRD("crdInstall", "stale") /\ ~ApplyCRD("crdUpgrade", "prepare")
    <3>1. UNCHANGED crd
      BY <2>3, DepAndCrd DEF CreateDeployment
    <3> QED BY <1>2, <1>3, <2>3, <3>1, Applying DEF CrdsApplied, NewestOperatorVersion, InstanceVersion
  <2> QED BY <2>1, <2>2, <2>3
<1> QED BY <1>10, <1>11

(***************************************************************************)
(* The invariant, and what follows from it.                                *)
(***************************************************************************)
\* A step that changes nothing.
LEMMA StutterOrderly == ASSUME Orderly, UNCHANGED vars PROVE Orderly'
<1>1. UNCHANGED <<ns, dep, rbac, sub, csv, pc, cmd, cfg, cur, ret, result>>
  BY DEF vars
<1>2. \A n \in AllOperatorNamespaces : (Bare(n)' <=> Bare(n)) /\ (Runs(n)' <=> Runs(n)) /\ (RunsAsPlanned(n)' <=> RunsAsPlanned(n))
  BY <1>1, ClusterSame
<1>3. /\ OLMGoing' <=> OLMGoing
      /\ OLMComing' <=> OLMComing
      /\ \A p \in SUBSET {"role", "binding"} : (Going(cur, p)' <=> Going(cur, p)) /\ (Coming(cur, p)' <=> Coming(cur, p))
      /\ (Bare(cur)' <=> Bare(cur)) /\ (Runs(cur)' <=> Runs(cur)) /\ (RunsAsPlanned(cur)' <=> RunsAsPlanned(cur))
  BY <1>1 DEF OLMGoing, OLMComing, Going, Coming, OperatorExists, Bare, Runs, RunsAsPlanned, InstanceVersion
<1>4. /\ Busy' <=> Busy
      /\ OperatorInstances(cfg)' = OperatorInstances(cfg)
      /\ \A n \in AllOperatorNamespaces : Passed(n)' <=> Passed(n)
      /\ TearingAllDown' <=> TearingAllDown
      /\ Replacing' <=> Replacing
      /\ InstanceVersion(cfg, cur)' = InstanceVersion(cfg, cur)
  BY <1>1 DEF Busy, OperatorInstances, HasMixedVersions, Passed, PastStaleLoop, InStaleLoop, TearingAllDown, Replacing, InstanceVersion
<1>5. Tidy' /\ AtHand' /\ Left'
  BY <1>1, <1>2, <1>3, <1>4 DEF Orderly, Tidy, AtHand, Left
<1>6. Elsewhere'
  <2>1. {"system", "central", "sensor"} \subseteq AllOperatorNamespaces /\ OperatorInstances(cfg) \subseteq AllOperatorNamespaces
    BY DEF AllOperatorNamespaces, OperatorInstances
  <2> QED BY <1>1, <1>2, <1>4, <2>1 DEF Orderly, Elsewhere
<1>7. Unwanted'
  BY <1>1, <1>4 DEF Orderly, Unwanted
<1> QED BY <1>5, <1>6, <1>7 DEF Orderly

\* Every step keeps the order, and the CRDs ahead of the operators.
LEMMA UndisturbedStep ==
  ASSUME MaxFaults = 0, MaxGiveUps = 0, IndInv, Undisturbed, [Next]_vars
  PROVE  Undisturbed'
<1>1. ~Fault /\ ~GiveUp /\ IndInv'
  BY NoFaults, NoGiveUps, IndInvStep DEF IndInv, TypeOK
<1>2. Orderly /\ CrdsCurrent
  BY DEF Undisturbed
<1>3. Orderly'
  <2>1. CASE RoxieStep
    <3>1. \/ EnsureCRDsInstalled \/ ApplyCRD("crdInstall", "stale") \/ ApplyCRD("crdUpgrade", "prepare")
          \/ TeardownStaleOperatorNamespaces
          \/ DetectOperatorDeploymentMode
          \/ TeardownOperatorElsewhere \/ TeardownOperatorNonOLM
          \/ DeleteOperatorNamespace \/ DeleteClusterRoleBinding \/ DeleteClusterRole
          \/ WaitForNamespaceDeletion
          \/ DeleteSubscription \/ DeleteCSV \/ DeleteOLMNamespace
          \/ CheckOperatorExists \/ CheckOperatorImage \/ WaitForOperatorReady
          \/ CheckOLMOperatorImage \/ CheckOLMInstalled \/ WaitForCSVSuccess
          \/ PrepareNamespace \/ CreateClusterRole \/ CreateClusterRoleBinding \/ CreateDeployment
          \/ CreateSubscription \/ WaitForAndApproveInstallPlan
      BY <2>1 DEF RoxieStep
    <3>2. DeleteOperatorNamespace => ret # "allRBAC"
      BY DEF DeleteOperatorNamespace, IndInv, ControlOK
    <3> QED BY <1>1, <1>2, <3>1, <3>2, CrdsOrderly, StaleOrderly, DetectOrderly, TeardownOrderly, DeleteOrderly, AllRBACOrderly,
               WaitOrderly, OLMDeleteOrderly, InstanceOrderly, OLMOrderly, CreateOrderly, SubscribeOrderly
  <2> QED BY <1>1, <1>2, <2>1, StartOrderly, ClusterOrderly, StutterOrderly DEF Next
<1>4. CrdsCurrent' /\ CrdsApplied'
  BY <1>1, <1>3, CrdsStep
<1> QED BY <1>3, <1>4 DEF Undisturbed

\* Nothing is there at the start.
LEMMA UndisturbedInit == Init => Undisturbed
<1> SUFFICES ASSUME Init PROVE Undisturbed
  OBVIOUS
<1>1. \A n \in AllOperatorNamespaces : Bare(n)
  BY DEF Init, Bare
<1>2. pc = "idle" /\ cmd = "teardown" /\ result = "ok"
  BY DEF Init
<1>3. Tidy /\ AtHand /\ Unwanted /\ Left
  BY <1>1, <1>2 DEF Tidy, AtHand, Unwanted, Left
<1>4. Elsewhere
  BY <1>2 DEF Elsewhere, Passed, PastStaleLoop, InStaleLoop, TeardownLabels, OLMTeardownLabels, InstanceLabels, CreateLabels,
     OLMLabels, TearingAllDown, Replacing
<1>5. CrdsCurrent /\ CrdsApplied
  BY <1>2 DEF Init, CrdsCurrent, CrdsApplied, NoOperator
<1> QED BY <1>3, <1>4, <1>5 DEF Orderly, Undisturbed

\* When no error is swallowed and no command is interrupted, whatever commands follow one another: every namespace that
\* the process does not work on is bare or holds a whole operator, and no operator runs on CRDs older than itself.
THEOREM UndisturbedInvariance == ASSUME MaxFaults = 0, MaxGiveUps = 0 PROVE Spec => [](IndInv /\ Undisturbed)
<1>1. Init => IndInv /\ Undisturbed
  BY IndInvInit, UndisturbedInit
<1>2. IndInv /\ Undisturbed /\ [Next]_vars => IndInv' /\ Undisturbed'
  BY IndInvStep, UndisturbedStep
<1> QED BY <1>1, <1>2, PTL DEF Spec

\* Then a successful teardown leaves no namespace and no permission of an operator behind.
THEOREM TeardownLeavesNothingCorrect == ASSUME MaxFaults = 0, MaxGiveUps = 0 PROVE Spec => []TeardownLeavesNothing
<1>1. Undisturbed => TeardownLeavesNothing
  BY DEF Undisturbed, Orderly, Left, TeardownLeavesNothing, Bare
<1> QED BY <1>1, UndisturbedInvariance, PTL

\* Then a successful deploy leaves exactly its plan in place.
THEOREM DeployEstablishesPlanCorrect == ASSUME MaxFaults = 0, MaxGiveUps = 0 PROVE Spec => []DeployEstablishesPlan
<1>1. ASSUME IndInv, Undisturbed, pc = "idle", cmd = "deploy", result = "ok" PROVE InPlace(cfg)
  <2>1. \A n \in AllOperatorNamespaces : IF n \in OperatorInstances(cfg) THEN RunsAsPlanned(n) ELSE Bare(n)
    BY <1>1 DEF Undisturbed, Orderly, Left
  <2>2. \A n \in AllOperatorNamespaces :
          /\ Bare(n) => dep[n] = NoOperator /\ ns[n] = "absent"
          /\ RunsAsPlanned(n) => /\ dep[n] = [ver |-> InstanceVersion(cfg, n), olm |-> cfg.olm] /\ ns[n] = "active"
                                 /\ cfg.olm => n = "system" /\ sub.ver = dep[n].ver /\ csv = dep[n].ver
                                 /\ ~cfg.olm => rbac[n] = {"role", "binding"}
    BY DEF Bare, RunsAsPlanned, Runs
  <2>3. RunsPlan(cfg)
    BY <2>1, <2>2 DEF RunsPlan
  <2>4. \A n \in AllOperatorNamespaces : ns[n] = IF n \in OperatorInstances(cfg) THEN "active" ELSE "absent"
    BY <2>1, <2>2
  <2>5. \A n \in OperatorInstances(cfg) : n \in AllOperatorNamespaces
    BY DEF OperatorInstances, AllOperatorNamespaces
  <2>6. IF cfg.olm THEN sub.ver = cfg.central /\ csv = cfg.central
                   ELSE \A n \in OperatorInstances(cfg) : rbac[n] = {"role", "binding"}
    <3>1. ~cfg.olm => \A n \in OperatorInstances(cfg) : rbac[n] = {"role", "binding"}
      BY <2>1, <2>2, <2>5
    <3>2. ASSUME cfg.olm PROVE sub.ver = cfg.central /\ csv = cfg.central
      <4>1. "system" \in OperatorInstances(cfg) /\ "system" \in AllOperatorNamespaces
        BY <1>1, <3>2, CurTypes, Plans
      <4>2. dep["system"].ver = cfg.central
        <5>1. InstanceVersion(cfg, "system") = cfg.central
          BY DEF InstanceVersion
        <5>2. RunsAsPlanned("system")
          BY <2>1, <4>1
        <5>3. dep["system"] = [ver |-> InstanceVersion(cfg, "system"), olm |-> cfg.olm]
          BY <2>2, <4>1, <5>2
        <5> QED BY <5>1, <5>3
      <4> QED BY <2>1, <2>2, <3>2, <4>1, <4>2
    <3> QED BY <3>1, <3>2
  <2> QED BY <2>3, <2>4, <2>6 DEF InPlace
<1>2. IndInv /\ Undisturbed => DeployEstablishesPlan
  BY <1>1 DEF DeployEstablishesPlan
<1> QED BY <1>2, UndisturbedInvariance, PTL

\* Then it leaves no CRD older than the newest operator of the plan.
THEOREM CrdsAtNewestVersionCorrect == ASSUME MaxFaults = 0, MaxGiveUps = 0 PROVE Spec => []CrdsAtNewestVersion
<1>1. ASSUME IndInv, Undisturbed, pc = "idle", cmd = "deploy", result = "ok", NEW c \in Crds
      PROVE  crd[c] >= NewestOperatorVersion(cfg)
  <2>1. PICK n \in AllOperatorNamespaces :
          n \in OperatorInstances(cfg) /\ InstanceVersion(cfg, n) = NewestOperatorVersion(cfg)
    BY <1>1, VersionsOrdered DEF VersionsInOrder
  <2>2. RunsAsPlanned(n)
    BY <1>1, <2>1 DEF Undisturbed, Orderly, Left
  <2>3. dep[n].ver = NewestOperatorVersion(cfg)
    BY <2>1, <2>2 DEF RunsAsPlanned
  <2>4. crd[c] >= dep[n].ver
    BY <1>1 DEF Undisturbed, CrdsCurrent
  <2> QED BY <2>3, <2>4
<1>2. IndInv /\ Undisturbed => CrdsAtNewestVersion
  BY <1>1 DEF CrdsAtNewestVersion
<1> QED BY <1>2, UndisturbedInvariance, PTL

\* Where the plan is in place and the CRDs are there, a deploy is at none of the steps that change the cluster.
LEMMA InPlaceStanding ==
  ASSUME IndInv, Orderly, cmd = "deploy", InPlace(cfg)
  PROVE  /\ pc \notin {"crdInstall", "crdUpgrade", "nsDelete", "bindingDelete", "roleDelete", "subDelete", "csvDelete", "olmNsDelete",
                       "prepare", "role", "binding", "deployment", "subscribe", "plan"}
         /\ \A n \in AllOperatorNamespaces : Bare(n) \/ Runs(n)
<1>1. \A n \in AllOperatorNamespaces :
        /\ ns[n] = "active" <=> n \in OperatorInstances(cfg)
        /\ ns[n] \in {"active", "absent"}
        /\ n \in OperatorInstances(cfg) => /\ dep[n].ver = InstanceVersion(cfg, n) /\ (dep[n].olm <=> cfg.olm)
                                           /\ OperatorExists(n) /\ ~Bare(n)
  <2>1. ASSUME NEW n \in AllOperatorNamespaces, n \in OperatorInstances(cfg)
        PROVE  /\ dep[n].ver = InstanceVersion(cfg, n) /\ (dep[n].olm <=> cfg.olm)
               /\ OperatorExists(n) /\ ~Bare(n)
    <3>1. dep[n] = [ver |-> InstanceVersion(cfg, n), olm |-> cfg.olm] /\ ns[n] = "active"
      BY <2>1 DEF InPlace, RunsPlan
    <3>2. InstanceVersion(cfg, n) # 0
      BY CurTypes, PlanTypes DEF Versions
    <3> QED BY <2>1, <3>1, <3>2, TwoStates DEF OperatorExists, NoOperator
  <2> QED BY <2>1 DEF InPlace
<1>2. /\ \E n \in AllOperatorNamespaces : n \in OperatorInstances(cfg)
      /\ cfg.olm => /\ OperatorInstances(cfg) = {"system"} /\ sub.ver = cfg.central /\ cfg.central # 0 /\ csv = cfg.central
                    /\ InstanceVersion(cfg, "system") = cfg.central
      /\ ~cfg.olm => \A n \in OperatorInstances(cfg) : rbac[n] = {"role", "binding"}
  BY CurTypes, Plans DEF InPlace, ProcessTypeOK, Configs, Versions, InstanceVersion
<1>3. /\ cur \in AllOperatorNamespaces /\ AllOperatorNamespaces = {"system", "central", "sensor"} /\ ControlOK
      /\ AtHand /\ Elsewhere /\ Unwanted /\ Tidy
  BY CurTypes DEF IndInv, Orderly
<1>4. pc \notin {"crdInstall", "crdUpgrade", "prepare", "role", "binding", "deployment", "subscribe"}
  <2>1. pc # "crdInstall"
    BY <1>1, <1>2, <1>3 DEF Elsewhere
  <2>2. pc \in {"crdUpgrade", "prepare", "role", "binding", "deployment", "subscribe"} => cur \in OperatorInstances(cfg)
    BY <1>2, <1>3 DEF ControlOK, InstanceLabels, CreateLabels, OLMLabels
  <2>3. pc \in {"crdUpgrade", "prepare", "role", "binding", "deployment", "subscribe"} => ~OperatorExists(cur)
    BY <1>3, TwoStates DEF AtHand, Coming
  <2> QED BY <1>1, <1>3, <2>1, <2>2, <2>3
<1>5. pc \notin {"subDelete", "csvDelete", "olmNsDelete", "plan"}
  <2>1. pc # "subDelete"
    <3> SUFFICES ASSUME pc = "subDelete" PROVE FALSE
      OBVIOUS
    <3>1. cur = "system" /\ Runs("system") /\ dep["system"].olm
      BY <1>3 DEF AtHand, ControlOK, OLMTeardownLabels
    <3>2. "system" \in OperatorInstances(cfg)
      BY <1>1, <1>3, <3>1, TwoStates
    <3> QED BY <1>1, <1>2, <1>3, <3>1, <3>2 DEF Unwanted
  <2>2. pc \notin {"csvDelete", "olmNsDelete"}
    <3> SUFFICES ASSUME OLMGoing PROVE FALSE
      BY <1>3 DEF AtHand
    <3>1. "system" \in OperatorInstances(cfg) /\ sub.ver = 0 /\ rbac["system"] = {}
      BY <1>1, <1>3 DEF OLMGoing, NoSubscription
    <3> QED BY <1>2, <3>1
  <2>3. pc # "plan"
    BY <1>2, <1>3 DEF AtHand, ControlOK, OLMLabels
  <2> QED BY <2>1, <2>2, <2>3
<1>6. pc # "nsDelete"
  <2> SUFFICES ASSUME pc = "nsDelete" PROVE FALSE
    OBVIOUS
  <2>1. Runs(cur) /\ cur \in OperatorInstances(cfg)
    BY <1>1, <1>3, TwoStates DEF AtHand
  <2>2. ret = "replace" \/ ret = "all"
    BY <1>3, <2>1 DEF ControlOK, TeardownLabels
  <2>3. ret # "replace"
    BY <1>1, <1>3, <2>1 DEF Unwanted
  <2>4. ret = "all" => cfg.olm
    BY <1>3 DEF ControlOK, TeardownLabels
  <2> QED BY <1>1, <1>2, <1>3, <2>1, <2>2, <2>3, <2>4 DEF Unwanted
<1>7. pc \notin {"bindingDelete", "roleDelete"}
  <2> SUFFICES ASSUME pc \in {"bindingDelete", "roleDelete"} PROVE FALSE
    OBVIOUS
  <2>1. ret # "allRBAC"
    BY <1>1, <1>2, <1>3 DEF Elsewhere
  <2>2. cur \notin OperatorInstances(cfg)
    BY <1>1, <1>3, <2>1 DEF AtHand, Going
  <2>3. ret = "stale" \/ ret = "all"
    BY <1>3, <2>1, <2>2 DEF ControlOK, TeardownLabels
  <2>4. ret # "stale"
    BY <1>1, <1>2, <1>3 DEF Elsewhere, TeardownLabels
  <2>5. cfg.olm /\ Bare("system")
    BY <1>2, <1>3, <2>2, <2>3, <2>4 DEF ControlOK, TeardownLabels, Elsewhere, TearingAllDown
  <2> QED BY <1>1, <1>2, <1>3, <2>5
<1>8. \A n \in AllOperatorNamespaces : Bare(n) \/ Runs(n)
  <2>1. CASE pc = "csvWait"
    <3>1. cfg.olm /\ cur = "system" /\ OLMComing /\ sub.plan = "approved"
      BY <1>3, <2>1 DEF ControlOK, OLMLabels, AtHand
    <3>2. /\ ns["system"] = "active" /\ rbac["system"] = {} /\ csv = cfg.central /\ cfg.central # 0
          /\ dep["system"] = [ver |-> cfg.central, olm |-> TRUE]
      BY <1>2, <3>1 DEF OLMComing
    <3>3. sub = [ver |-> cfg.central, plan |-> "approved"]
      BY <1>2, <3>1, CurTypes
    <3>4. dep["system"].ver = cfg.central /\ dep["system"].olm
      BY <3>2
    <3>5. Runs("system")
      BY <3>2, <3>3, <3>4 DEF Runs
    <3> QED BY <1>3, <3>1, <3>5 DEF Tidy
  <2>2. CASE pc = "nsWait"
    <3>1. Bare(cur)
      BY <1>1, <1>3, <2>2 DEF AtHand, Going, Bare, OperatorExists
    <3> QED BY <1>3, <3>1 DEF Tidy
  <2>3. CASE pc \notin {"csvWait", "nsWait"}
    BY <1>3, <1>4, <1>5, <1>7, <2>3 DEF Tidy, Busy
  <2> QED BY <2>1, <2>2, <2>3
<1> QED BY <1>4, <1>5, <1>6, <1>7, <1>8

\* Then a deploy of what is already in place touches nothing in the cluster, and neither does the cluster itself.
THEOREM DeployIsIdempotentCorrect == ASSUME MaxFaults = 0, MaxGiveUps = 0 PROVE Spec => DeployIsIdempotent
<1>1. ASSUME IndInv, Undisturbed, [Next]_vars, cmd = "deploy", pc # "idle", InPlace(cfg)
      PROVE  UNCHANGED cluster
  <2>1. /\ pc \notin {"crdInstall", "crdUpgrade", "nsDelete", "bindingDelete", "roleDelete", "subDelete", "csvDelete", "olmNsDelete",
                      "prepare", "role", "binding", "deployment", "subscribe", "plan"}
        /\ \A n \in AllOperatorNamespaces : Bare(n) \/ Runs(n)
    BY <1>1, InPlaceStanding DEF Undisturbed
  <2>2. CASE Start \/ GiveUp \/ UNCHANGED vars
    BY <2>2 DEF Start, StartDeploy, StartTeardown, GiveUp, vars, cluster
  <2>3. CASE RoxieStep
    <3>1. ASSUME \/ ApplyCRD("crdInstall", "stale") \/ ApplyCRD("crdUpgrade", "prepare")
                 \/ DeleteOperatorNamespace \/ DeleteClusterRoleBinding \/ DeleteClusterRole
                 \/ DeleteSubscription \/ DeleteCSV \/ DeleteOLMNamespace
                 \/ PrepareNamespace \/ CreateClusterRole \/ CreateClusterRoleBinding \/ CreateDeployment
                 \/ CreateSubscription \/ WaitForAndApproveInstallPlan
          PROVE  FALSE
      BY <2>1, <3>1 DEF ApplyCRD, DeleteOperatorNamespace, DeleteClusterRoleBinding, DeleteClusterRole, DeleteSubscription,
         DeleteCSV, DeleteOLMNamespace, PrepareNamespace, CreateClusterRole, CreateClusterRoleBinding, CreateDeployment,
         CreateSubscription, WaitForAndApproveInstallPlan
    <3>2. ASSUME \/ EnsureCRDsInstalled \/ TeardownStaleOperatorNamespaces \/ DetectOperatorDeploymentMode
                 \/ TeardownOperatorElsewhere \/ WaitForNamespaceDeletion \/ TeardownOperatorNonOLM \/ CheckOperatorExists
                 \/ CheckOperatorImage \/ CheckOLMOperatorImage \/ CheckOLMInstalled \/ WaitForOperatorReady \/ WaitForCSVSuccess
          PROVE  UNCHANGED cluster
      BY <3>2 DEF EnsureCRDsInstalled, TeardownStaleOperatorNamespaces, DetectOperatorDeploymentMode,
         TeardownOperatorElsewhere, WaitForNamespaceDeletion, TeardownOperatorNonOLM, CheckOperatorExists,
         CheckOperatorImage, CheckOLMOperatorImage, CheckOLMInstalled, WaitForOperatorReady, WaitForCSVSuccess
    <3> QED BY <2>3, <3>1, <3>2 DEF RoxieStep
  <2>4. ~ClusterStep
    <3>1. \A n \in AllOperatorNamespaces : ~NamespaceContentDeleted(n) /\ ~NamespaceRemoved(n)
      BY <2>1, TwoStates DEF NamespaceContentDeleted, NamespaceRemoved
    <3>2. Bare("system") \/ Runs("system")
      BY <2>1 DEF AllOperatorNamespaces
    <3>3. ~OLMProposesInstallPlan /\ ~OLMInstalls
      BY <3>2 DEF OLMProposesInstallPlan, OLMInstalls, OLMCanInstall, Bare, Runs, OperatorExists, NoOperator, NoSubscription
    <3>4. ~OLMCollects
      BY <3>2 DEF OLMCollects, Bare, Runs, NoOperator, NoSubscription
    <3> QED BY <3>1, <3>3, <3>4 DEF ClusterStep
  <2> QED BY <1>1, <2>2, <2>3, <2>4 DEF Next
<1>2. IndInv /\ Undisturbed /\ [Next]_vars =>
        [cmd = "deploy" /\ pc # "idle" /\ InPlace(cfg) /\ (\A c \in Crds : crd[c] # 0) => UNCHANGED cluster]_vars
  BY <1>1
<1> QED BY <1>2, UndisturbedInvariance, PTL DEF Spec, DeployIsIdempotent

(***************************************************************************)
(* What a deploy that meets no fault repairs, whatever went wrong before   *)
(* it: without OLM on the cluster (an orphan of OLM is taken for an        *)
(* operator), and when it does not start while a namespace is going away.  *)
(***************************************************************************)
\* Without OLM there is nothing of it, and the process is at none of its steps.
NoOLM ==
  /\ sub = NoSubscription /\ csv = 0 /\ \A n \in AllOperatorNamespaces : ~dep[n].olm
  /\ pc \notin OLMTeardownLabels \cup {"olmImage", "subscribe", "plan", "csvWait"}
  /\ pc = "nsWait" => ret # "olm"
  /\ pc \in {"prepare", "ready"} => ~cfg.olm

\* A deploy that has met no fault so far, and one that has ended well.
Repairing == cmd = "deploy" /\ pc # "idle" /\ faulty = "no" /\ ~cfg.olm
Repaired == cmd = "deploy" /\ pc = "idle" /\ result = "ok" /\ faulty = "no"

\* Only the namespace that it is replacing or removing is on its way out.
OneTerminating ==
  /\ Repairing =>
       \A n \in AllOperatorNamespaces : ns[n] = "terminating" => n = cur /\ pc \in {"bindingDelete", "roleDelete", "nsWait"}
  /\ Repaired => \A n \in AllOperatorNamespaces : ns[n] # "terminating"
GoingAway == Repairing /\ pc \in {"bindingDelete", "roleDelete", "nsWait"} => ns[cur] # "active"

\* What it has passed is as the plan wants it.
StalePassed == Repairing => \A n \in AllOperatorNamespaces : Passed(n) /\ n \notin OperatorInstances(cfg) => ns[n] = "absent"
HasPlanned(n) == dep[n] = [ver |-> InstanceVersion(cfg, n), olm |-> FALSE]
InstancesPassed ==
  /\ Repairing /\ cur = "sensor" /\ (pc \in InstanceLabels \/ Replacing) => HasPlanned("central")
  /\ Repairing /\ pc = "ready" => HasPlanned(cur)
  /\ Repaired => RunsPlan(cfg)

RepairInv == NoOLM /\ OneTerminating /\ GoingAway /\ StalePassed /\ InstancesPassed

\* Without OLM nothing of it ever appears.
LEMMA NoOLMStep ==
  ASSUME ~OLMInstalled, ClusterTypeOK, ProcessTypeOK, ControlOK, NoOLM, [Next]_vars
  PROVE  NoOLM'
<1> DEFINE OLMFree == pc \notin OLMTeardownLabels \cup {"olmImage", "subscribe", "plan", "csvWait"} /\ (pc = "nsWait" => ret # "olm")
                      /\ (pc \in {"prepare", "ready"} => ~cfg.olm)
<1>1. NoSubscription.ver = 0 /\ NoSubscription.plan = "none" /\ NoOperator.olm = FALSE
  BY DEF NoSubscription, NoOperator
<1>2. sub' = NoSubscription /\ csv' = 0 /\ \A n \in AllOperatorNamespaces : ~dep'[n].olm
  <2>1. \/ UNCHANGED <<dep, sub, csv>>
        \/ CreateDeployment
        \/ \E n \in AllOperatorNamespaces : NamespaceContentDeleted(n)
    <3>1. \A n \in AllOperatorNamespaces : NamespaceRemoved(n) => UNCHANGED <<dep, sub, csv>>
      BY DEF NamespaceRemoved
    <3>2. ~OLMProposesInstallPlan /\ ~OLMInstalls /\ ~OLMCollects /\ ~DeleteSubscription /\ ~DeleteCSV /\ ~DeleteOLMNamespace
          /\ ~CreateSubscription /\ ~WaitForAndApproveInstallPlan
      BY <1>1 DEF NoOLM, OLMProposesInstallPlan, OLMInstalls, OLMCanInstall, OLMCollects, DeleteSubscription, DeleteCSV,
         DeleteOLMNamespace, CreateSubscription, WaitForAndApproveInstallPlan, OLMTeardownLabels, AllOperatorNamespaces
    <3>3. ASSUME Start \/ GiveUp \/ UNCHANGED vars PROVE UNCHANGED <<dep, sub, csv>>
      BY <3>3 DEF Start, StartDeploy, StartTeardown, GiveUp, vars, cluster
    <3>4. ASSUME \/ EnsureCRDsInstalled \/ ApplyCRD("crdInstall", "stale") \/ ApplyCRD("crdUpgrade", "prepare")
                 \/ TeardownStaleOperatorNamespaces \/ DetectOperatorDeploymentMode \/ TeardownOperatorElsewhere
                 \/ DeleteOperatorNamespace \/ DeleteClusterRoleBinding \/ DeleteClusterRole
                 \/ WaitForNamespaceDeletion \/ TeardownOperatorNonOLM \/ CheckOperatorExists \/ CheckOperatorImage
                 \/ CheckOLMOperatorImage \/ CheckOLMInstalled \/ WaitForOperatorReady \/ WaitForCSVSuccess
                 \/ PrepareNamespace \/ CreateClusterRole \/ CreateClusterRoleBinding
          PROVE  UNCHANGED <<dep, sub, csv>>
      BY <3>4 DEF EnsureCRDsInstalled, ApplyCRD, TeardownStaleOperatorNamespaces, DetectOperatorDeploymentMode,
         TeardownOperatorElsewhere, DeleteOperatorNamespace, DeleteNamespace, DeleteClusterRoleBinding, DeleteClusterRole,
         DeleteRBAC, WaitForNamespaceDeletion, TeardownOperatorNonOLM, CheckOperatorExists, CheckOperatorImage,
         CheckOLMOperatorImage, CheckOLMInstalled, WaitForOperatorReady, WaitForCSVSuccess, PrepareNamespace,
         CreateClusterRole, CreateClusterRoleBinding, cluster
    <3> QED BY <3>1, <3>2, <3>3, <3>4 DEF Next, RoxieStep, ClusterStep
  <2>2. CASE UNCHANGED <<dep, sub, csv>>
    BY <2>2 DEF NoOLM
  <2>3. CASE CreateDeployment
    <3>1. UNCHANGED <<sub, csv>> /\ \A n \in AllOperatorNamespaces : dep'[n] = dep[n] \/ dep'[n].olm = FALSE
      BY <2>3 DEF CreateDeployment, ClusterTypeOK
    <3> QED BY <3>1 DEF NoOLM
  <2>4. CASE \E n \in AllOperatorNamespaces : NamespaceContentDeleted(n)
    <3>1. /\ sub' = sub \/ sub' = NoSubscription
          /\ csv' = csv \/ csv' = 0
          /\ \A n \in AllOperatorNamespaces : dep'[n] = dep[n] \/ dep'[n].olm = FALSE
      BY <1>1, <2>4 DEF NamespaceContentDeleted, ClusterTypeOK
    <3> QED BY <3>1 DEF NoOLM
  <2> QED BY <2>1, <2>2, <2>3, <2>4
<1>3. OLMFree'
  <2> USE DEF Jump, Goto, Finish
  <2>1. ASSUME Start \/ GiveUp \/ UNCHANGED vars \/ ClusterStep PROVE OLMFree'
    BY <2>1 DEF Start, StartDeploy, StartTeardown, GiveUp, vars, ClusterStep, NamespaceContentDeleted, NamespaceRemoved,
       OLMProposesInstallPlan, OLMInstalls, OLMCollects, process, NoOLM, OLMTeardownLabels
  <2>2. ASSUME EnsureCRDsInstalled \/ ApplyCRD("crdInstall", "stale") \/ ApplyCRD("crdUpgrade", "prepare") PROVE OLMFree'
    BY <2>2 DEF EnsureCRDsInstalled, ApplyCRD, OLMTeardownLabels, ControlOK, CreateLabels
  <2>3. ASSUME TeardownStaleOperatorNamespaces \/ TeardownOperatorElsewhere \/ TeardownOperatorNonOLM PROVE OLMFree'
    BY <2>3 DEF TeardownStaleOperatorNamespaces, NextStale, TeardownOperatorElsewhere, TeardownOperatorNonOLM, OLMTeardownLabels
  <2>4. ASSUME DetectOperatorDeploymentMode PROVE OLMFree'
    <3>1. sub.ver = 0 /\ ~dep["system"].olm
      BY <1>1 DEF NoOLM, AllOperatorNamespaces
    <3>2. PICK subSeen \in BOOLEAN :
            Sees(sub.ver # 0, subSeen) /\ OnDetected(subSeen \/ OperatorExists("system"), subSeen \/ dep["system"].olm)
      BY <2>4 DEF DetectOperatorDeploymentMode
    <3>3. ~subSeen
      BY <3>1, <3>2 DEF Sees
    <3>4. pc' \notin OLMTeardownLabels \cup {"olmImage", "subscribe", "plan", "csvWait", "nsWait", "prepare", "ready"}
      BY <3>1, <3>2, <3>3 DEF OnDetected, OLMTeardownLabels
    <3> QED BY <3>4
  <2>5. ASSUME DeleteOperatorNamespace \/ DeleteClusterRoleBinding \/ DeleteClusterRole PROVE OLMFree'
    BY <2>5 DEF DeleteOperatorNamespace, DeleteNamespace, DeleteClusterRoleBinding, DeleteClusterRole, NextRBAC, ControlOK,
       OLMTeardownLabels
  <2>6. ASSUME WaitForNamespaceDeletion PROVE OLMFree'
    BY <2>6 DEF WaitForNamespaceDeletion, AfterTeardown, NextStale, DeployInstance, NoOLM, ControlOK, TeardownLabels, OLMTeardownLabels
  <2>7. ASSUME CheckOperatorExists \/ CheckOperatorImage \/ WaitForOperatorReady PROVE OLMFree'
    BY <2>7 DEF CheckOperatorExists, DeployInstance, CheckOperatorImage, WaitForOperatorReady, NextInstance, ControlOK,
       OLMTeardownLabels
  <2>8. ASSUME CheckOLMInstalled \/ PrepareNamespace \/ CreateClusterRole \/ CreateClusterRoleBinding \/ CreateDeployment PROVE OLMFree'
    BY <2>8 DEF CheckOLMInstalled, PrepareNamespace, CreateClusterRole, CreateClusterRoleBinding, CreateDeployment, NoOLM, ControlOK,
       CreateLabels, OLMTeardownLabels
  <2>9. ~(\/ DeleteSubscription \/ DeleteCSV \/ DeleteOLMNamespace \/ CheckOLMOperatorImage \/ WaitForCSVSuccess
          \/ CreateSubscription \/ WaitForAndApproveInstallPlan)
    BY DEF NoOLM, OLMTeardownLabels, DeleteSubscription, DeleteCSV, DeleteOLMNamespace, CheckOLMOperatorImage, WaitForCSVSuccess,
       CreateSubscription, WaitForAndApproveInstallPlan
  <2> QED BY <2>1, <2>2, <2>3, <2>4, <2>5, <2>6, <2>7, <2>8, <2>9 DEF Next, RoxieStep
<1> QED BY <1>2, <1>3 DEF NoOLM

\* A deploy without OLM that meets no fault: what the steps of roxie keep.
LEMMA RepairRoxie ==
  ASSUME ClusterTypeOK, ProcessTypeOK, ObjectsInNamespaces, ControlOK, NoOLM, Repairing, OneTerminating, GoingAway, StalePassed,
         InstancesPassed, RoxieStep, faulty' = "no"
  PROVE  OneTerminating' /\ GoingAway' /\ StalePassed' /\ InstancesPassed'
<1>1. /\ cmd = "deploy" /\ cfg.olm = FALSE /\ faulty = "no" /\ cfg \in Configs
      /\ \A n \in AllOperatorNamespaces : ns[n] = "terminating" => n = cur /\ pc \in {"bindingDelete", "roleDelete", "nsWait"}
      /\ \A n \in AllOperatorNamespaces : Passed(n) /\ n \notin OperatorInstances(cfg) => ns[n] = "absent"
      /\ cur \in AllOperatorNamespaces /\ AllOperatorNamespaces = {"system", "central", "sensor"}
      /\ ns \in [AllOperatorNamespaces -> {"absent", "active", "terminating"}]
      /\ dep \in [AllOperatorNamespaces -> [ver : VersionOrNone, olm : BOOLEAN]]
  BY DEF Repairing, OneTerminating, StalePassed, ProcessTypeOK, ClusterTypeOK, Configs, AllOperatorNamespaces
<1>2. /\ pc \in {"bindingDelete", "roleDelete", "nsWait"} => ns[cur] # "active"
      /\ cur = "sensor" /\ (pc \in InstanceLabels \/ Replacing) => HasPlanned("central")
      /\ pc = "ready" => HasPlanned(cur)
  BY DEF GoingAway, InstancesPassed, Repairing
<1>3. ~Fault
  BY DEF Fault
<1> DEFINE Kept == /\ UNCHANGED <<cmd, cfg>>
                   /\ OperatorInstances(cfg)' = OperatorInstances(cfg)
                   /\ \A n \in AllOperatorNamespaces : dep'[n] = dep[n] => (HasPlanned(n)' <=> HasPlanned(n))
<1>4. Kept
  <2>1. UNCHANGED <<cmd, cfg>>
    BY CommandKept DEF Next, RoxieStep, Repairing
  <2> QED BY <2>1 DEF OperatorInstances, HasMixedVersions, HasPlanned, InstanceVersion
<1> DEFINE OnItsWay == pc \in {"bindingDelete", "roleDelete", "nsWait"}
<1>5. ASSUME UNCHANGED <<ns, dep>>, ~OnItsWay, ~OnItsWay' PROVE OneTerminating' /\ GoingAway'
  BY <1>1, <1>5 DEF OneTerminating, GoingAway
<1>6. ASSUME UNCHANGED ns, \A n \in AllOperatorNamespaces : Passed(n)' => Passed(n) PROVE StalePassed'
  BY <1>1, <1>4, <1>6 DEF StalePassed
<1>7. ASSUME NextInstance, UNCHANGED <<ns, dep>>, pc \in InstanceLabels, HasPlanned(cur)
      PROVE  OneTerminating' /\ GoingAway' /\ StalePassed' /\ InstancesPassed'
  <2>1. /\ cur \in OperatorInstances(cfg) /\ PastStaleLoop /\ ~OnItsWay /\ ~OnItsWay'
        /\ \/ cur # LastInstance(cfg) /\ cur = "central" /\ pc' = "exists" /\ cur' = "sensor"
           \/ cur = LastInstance(cfg) /\ pc' = "idle"
    BY <1>1, <1>7, Plans DEF NextInstance, Jump, Finish, ControlOK, PastStaleLoop, InstanceLabels, CreateLabels
  <2>2. OneTerminating' /\ GoingAway'
    BY <1>5, <1>7, <2>1
  <2>3. \A n \in AllOperatorNamespaces : Passed(n)
    BY <2>1 DEF Passed
  <2>4. StalePassed'
    BY <1>6, <1>7, <2>3
  <2>5. pc' = "idle" => RunsPlan(cfg)'
    <3> SUFFICES ASSUME pc' = "idle", NEW n \in AllOperatorNamespaces
                 PROVE  dep[n] = IF n \in OperatorInstances(cfg) THEN [ver |-> InstanceVersion(cfg, n), olm |-> cfg.olm] ELSE NoOperator
      BY <1>4, <1>7 DEF RunsPlan, InstanceVersion
    <3>1. CASE n \in OperatorInstances(cfg)
      <4>1. HasPlanned(n)
        BY <1>1, <1>2, <1>7, <2>1, <3>1, Plans
      <4> QED BY <1>1, <3>1, <4>1 DEF HasPlanned
    <3>2. CASE n \notin OperatorInstances(cfg)
      BY <1>1, <2>3, <3>2 DEF ObjectsInNamespaces, OperatorExists
    <3> QED BY <3>1, <3>2
  <2>6. pc' # "idle" => HasPlanned("central")'
    BY <1>1, <1>4, <1>7, <2>1
  <2>7. InstancesPassed'
    BY <2>1, <2>5, <2>6 DEF InstancesPassed, Repairing, Repaired
  <2> QED BY <2>2, <2>4, <2>7
<1>8. ASSUME DeployInstance(cur), UNCHANGED <<ns, dep>>, ns[cur] # "terminating" \/ ~OnItsWay, PastStaleLoop, pc \in InstanceLabels \/ Replacing
      PROVE  OneTerminating' /\ GoingAway' /\ StalePassed' /\ InstancesPassed'
  <2>1. pc' \in {"crdUpgrade", "prepare"} /\ cur' = cur
    BY <1>8 DEF DeployInstance, Jump
  <2>2. OneTerminating' /\ GoingAway'
    BY <1>1, <1>8, <2>1 DEF OneTerminating, GoingAway, Repaired
  <2>3. StalePassed'
    BY <1>6, <1>8 DEF Passed
  <2>4. InstancesPassed'
    BY <1>1, <1>2, <1>4, <1>8, <2>1 DEF InstancesPassed, Repaired
  <2> QED BY <2>2, <2>3, <2>4
\* the CRDs, the loop and the detection
<1>9. CASE EnsureCRDsInstalled \/ ApplyCRD("crdInstall", "stale") \/ ApplyCRD("crdUpgrade", "prepare")
  <2>1. /\ UNCHANGED <<ns, dep>>
        /\ \/ pc \in {"crdCheck", "crdInstall"} /\ pc' \in {"stale", "crdInstall"} /\ cur' = "system"
           \/ pc = "crdUpgrade" /\ pc' \in {"crdUpgrade", "prepare"} /\ cur' = cur
    BY <1>9 DEF EnsureCRDsInstalled, ApplyCRD, Jump, cluster, ControlOK
  <2>2. \A n \in AllOperatorNamespaces : Passed(n)' => Passed(n)
    BY <1>1, <1>4, <2>1 DEF Passed, PastStaleLoop, InStaleLoop, TeardownLabels, OLMTeardownLabels, InstanceLabels, CreateLabels, OLMLabels
  <2>3. InstancesPassed'
    BY <1>1, <1>2, <1>4, <2>1 DEF InstancesPassed, Repaired, Replacing, TeardownLabels, InstanceLabels, CreateLabels
  <2> QED BY <1>5, <1>6, <2>1, <2>2, <2>3
<1>10. CASE TeardownStaleOperatorNamespaces
  <2>1. /\ UNCHANGED <<ns, dep>> /\ pc = "stale"
        /\ \/ pc' = "nsDelete" /\ ret' = "stale" /\ cur' = cur
           \/ /\ IF cur = "sensor" THEN pc' = "detect" /\ cur' = "system" ELSE pc' = "stale" /\ cur' = After(cur)
              /\ cur \notin OperatorInstances(cfg) => ns[cur] = "absent"
    BY <1>3, <1>10 DEF TeardownStaleOperatorNamespaces, NextStale, Jump, Sees, IsStale, cluster
  <2>2. \A n \in AllOperatorNamespaces : Passed(n)' => Passed(n) \/ (n = cur /\ pc' # "nsDelete")
    BY <1>1, <1>4, <2>1, Plans DEF Passed, PastStaleLoop, InStaleLoop, TeardownLabels, OLMTeardownLabels, InstanceLabels, CreateLabels,
       OLMLabels
  <2>3. StalePassed'
    BY <1>1, <1>4, <2>1, <2>2 DEF StalePassed
  <2>4. InstancesPassed'
    BY <1>1, <2>1 DEF InstancesPassed, Repaired, Replacing, TeardownLabels, InstanceLabels, CreateLabels
  <2> QED BY <1>5, <2>1, <2>3, <2>4
<1>11. CASE DetectOperatorDeploymentMode
  <2>1. UNCHANGED <<ns, dep>> /\ pc = "detect" /\ pc' = "exists" /\ cur' = FirstInstance(cfg)
    <3>1. sub.ver = 0 /\ ~dep["system"].olm
      BY <1>1 DEF NoOLM, NoSubscription
    <3>2. PICK subSeen \in BOOLEAN :
            Sees(sub.ver # 0, subSeen) /\ OnDetected(subSeen \/ OperatorExists("system"), subSeen \/ dep["system"].olm)
      BY <1>11 DEF DetectOperatorDeploymentMode
    <3>3. ~subSeen
      BY <3>1, <3>2 DEF Sees
    <3> QED BY <1>1, <1>11, <3>1, <3>2, <3>3 DEF DetectOperatorDeploymentMode, OnDetected, Jump, cluster
  <2>2. \A n \in AllOperatorNamespaces : Passed(n)
    BY <1>1, <2>1 DEF Passed, PastStaleLoop
  <2>3. FirstInstance(cfg) # "sensor"
    BY Plans
  <2>4. InstancesPassed'
    BY <2>1, <2>3 DEF InstancesPassed, Repaired
  <2> QED BY <1>5, <1>6, <2>1, <2>2, <2>4
<1>12. CASE DeleteOperatorNamespace
  <2>1. /\ UNCHANGED <<dep, cur, ret>> /\ pc = "nsDelete" /\ pc' = "bindingDelete"
        /\ ns' = [ns EXCEPT ![cur] = IF @ = "absent" THEN @ ELSE "terminating"]
    BY <1>3, <1>12 DEF DeleteOperatorNamespace, DeleteNamespace, Silently, Goto, Jump
  <2>2. \A n \in AllOperatorNamespaces : ns'[n] = IF n = cur /\ ns[n] # "absent" THEN "terminating" ELSE ns[n]
    BY <1>1, <2>1
  <2>3. OneTerminating' /\ GoingAway'
    BY <1>1, <2>1, <2>2 DEF OneTerminating, GoingAway, Repaired
  <2>4. \A n \in AllOperatorNamespaces : Passed(n)' => Passed(n)
    BY <1>1, <1>4, <2>1 DEF Passed, PastStaleLoop, InStaleLoop, TeardownLabels, OLMTeardownLabels, InstanceLabels, CreateLabels, OLMLabels
  <2>5. StalePassed'
    BY <1>1, <1>4, <2>2, <2>4 DEF StalePassed
  <2>6. InstancesPassed'
    BY <1>1, <1>2, <1>4, <2>1 DEF InstancesPassed, Repaired, Replacing, TeardownLabels, InstanceLabels, CreateLabels
  <2> QED BY <2>3, <2>5, <2>6
<1>13. CASE DeleteClusterRoleBinding \/ DeleteClusterRole
  <2>1. ret # "allRBAC"
    BY <1>1, <1>13 DEF DeleteClusterRoleBinding, DeleteClusterRole, ControlOK, TeardownLabels
  <2>2. /\ UNCHANGED <<ns, dep, cur, ret>> /\ pc \in {"bindingDelete", "roleDelete"} /\ pc' \in {"roleDelete", "nsWait"}
    BY <1>13, <2>1 DEF DeleteClusterRoleBinding, DeleteClusterRole, DeleteRBAC, Goto, Jump
  <2>3. OneTerminating' /\ GoingAway'
    BY <1>1, <1>2, <2>2 DEF OneTerminating, GoingAway, Repaired
  <2>4. \A n \in AllOperatorNamespaces : Passed(n)' => Passed(n)
    BY <1>1, <1>4, <2>2 DEF Passed, PastStaleLoop, InStaleLoop, TeardownLabels, OLMTeardownLabels, InstanceLabels, CreateLabels, OLMLabels
  <2>5. InstancesPassed'
    BY <1>1, <1>2, <1>4, <2>2 DEF InstancesPassed, Repaired, Replacing, TeardownLabels, InstanceLabels, CreateLabels
  <2> QED BY <1>6, <2>2, <2>3, <2>4, <2>5
<1>14. CASE WaitForNamespaceDeletion
  <2>1. UNCHANGED <<ns, dep>> /\ pc = "nsWait" /\ ns[cur] = "absent" /\ AfterTeardown
    BY <1>1, <1>2, <1>3, <1>14 DEF WaitForNamespaceDeletion, WaitEnds, cluster
  <2>2. ret \in {"stale", "replace"}
    BY <1>1, <2>1 DEF ControlOK, NoOLM, TeardownLabels
  <2>3. CASE ret = "replace"
    BY <1>1, <1>8, <2>1, <2>3 DEF AfterTeardown, PastStaleLoop, Replacing, TeardownLabels
  <2>4. CASE ret = "stale"
    <3>1. IF cur = "sensor" THEN pc' = "detect" /\ cur' = "system" ELSE pc' = "stale" /\ cur' = After(cur)
      BY <2>1, <2>4 DEF AfterTeardown, NextStale, Jump
    <3>2. OneTerminating' /\ GoingAway'
      BY <1>1, <2>1, <3>1 DEF OneTerminating, GoingAway, Repaired
    <3>3. \A n \in AllOperatorNamespaces : Passed(n)' => Passed(n) \/ n = cur
      BY <1>1, <1>4, <2>1, <2>4, <3>1, Plans DEF Passed, PastStaleLoop, InStaleLoop, TeardownLabels, OLMTeardownLabels, InstanceLabels,
         CreateLabels, OLMLabels
    <3>4. StalePassed'
      BY <1>1, <1>4, <2>1, <3>3 DEF StalePassed
    <3>5. InstancesPassed'
      BY <3>1 DEF InstancesPassed, Repaired, Replacing, TeardownLabels, InstanceLabels, CreateLabels
    <3> QED BY <3>2, <3>4, <3>5
  <2> QED BY <2>2, <2>3, <2>4
<1>15. CASE CheckOperatorExists \/ CheckOperatorImage
  <2>1. UNCHANGED <<ns, dep>> /\ pc \in {"exists", "image"} /\ PastStaleLoop /\ ~OnItsWay
    BY <1>1, <1>15 DEF CheckOperatorExists, CheckOperatorImage, cluster, PastStaleLoop, InstanceLabels
  <2>2. \/ pc' = "image" /\ cur' = cur
        \/ DeployInstance(cur)
        \/ NextInstance /\ dep[cur].ver = InstanceVersion(cfg, cur)
        \/ pc' = "nsDelete" /\ cur' = cur /\ ret' = "replace"
    BY <1>3, <1>15 DEF CheckOperatorExists, CheckOperatorImage, Sees, IsOperatorImageCorrect, Goto, Jump
  <2>3. CASE DeployInstance(cur)
    BY <1>8, <2>1, <2>3 DEF InstanceLabels
  <2>4. CASE NextInstance /\ dep[cur].ver = InstanceVersion(cfg, cur)
    <3>1. dep[cur].olm = FALSE
      BY <1>1 DEF NoOLM
    <3>2. HasPlanned(cur)
      BY <1>1, <2>4, <3>1 DEF HasPlanned
    <3> QED BY <1>7, <2>1, <2>4, <3>2 DEF InstanceLabels
  <2>5. CASE pc' \in {"image", "nsDelete"} /\ cur' = cur /\ (pc' = "nsDelete" => ret' = "replace")
    <3>1. \A n \in AllOperatorNamespaces : Passed(n)
      BY <2>1 DEF Passed
    <3>2. InstancesPassed'
      BY <1>1, <1>2, <1>4, <2>1, <2>5 DEF InstancesPassed, Repaired, Replacing, TeardownLabels, InstanceLabels, CreateLabels
    <3> QED BY <1>5, <1>6, <2>1, <2>5, <3>1, <3>2
  <2> QED BY <2>2, <2>3, <2>4, <2>5
<1>16. CASE PrepareNamespace
  <2>1. /\ UNCHANGED <<dep, cur>> /\ pc = "prepare" /\ pc' = "role" /\ cur \in OperatorInstances(cfg)
        /\ \A n \in AllOperatorNamespaces : ns'[n] = ns[n] \/ (n = cur /\ ns'[n] = "active")
    BY <1>1, <1>3, <1>16 DEF PrepareNamespace, Sees, Goto, Jump, ControlOK, InstanceLabels
  <2>2. OneTerminating' /\ GoingAway'
    BY <1>1, <2>1 DEF OneTerminating, GoingAway, Repaired
  <2>3. \A n \in AllOperatorNamespaces : Passed(n)
    BY <1>1, <2>1 DEF Passed, PastStaleLoop, InstanceLabels
  <2>4. StalePassed'
    BY <1>1, <1>4, <2>1, <2>3 DEF StalePassed
  <2>5. InstancesPassed'
    BY <1>1, <1>2, <1>4, <2>1 DEF InstancesPassed, Repaired, InstanceLabels
  <2> QED BY <2>2, <2>4, <2>5
<1>17. CASE CreateClusterRole \/ CreateClusterRoleBinding
  <2>1. /\ UNCHANGED <<ns, dep>> /\ pc \in {"role", "binding"}
        /\ \/ pc' = "idle" /\ result' = "failed"
           \/ pc' \in {"binding", "deployment"} /\ cur' = cur
    BY <1>17 DEF CreateClusterRole, CreateClusterRoleBinding, Goto, Jump, Finish
  <2>2. \A n \in AllOperatorNamespaces : Passed(n)
    BY <1>1, <2>1 DEF Passed, PastStaleLoop, InstanceLabels, CreateLabels
  <2>3. InstancesPassed'
    BY <1>1, <1>2, <1>4, <2>1 DEF InstancesPassed, Repairing, Repaired, InstanceLabels, CreateLabels
  <2> QED BY <1>5, <1>6, <2>1, <2>2, <2>3
<1>18. CASE CreateDeployment
  <2>1. /\ UNCHANGED ns /\ pc = "deployment"
        /\ \/ pc' = "idle" /\ result' = "failed"
           \/ pc' = "ready" /\ cur' = cur /\ dep' = [dep EXCEPT ![cur] = [ver |-> InstanceVersion(cfg, cur), olm |-> FALSE]]
    BY <1>18 DEF CreateDeployment, Goto, Jump, Finish
  <2>2. \A n \in AllOperatorNamespaces : Passed(n)
    BY <1>1, <2>1 DEF Passed, PastStaleLoop, InstanceLabels, CreateLabels
  <2>3. OneTerminating' /\ GoingAway'
    BY <1>1, <2>1 DEF OneTerminating, GoingAway, Repairing, Repaired
  <2>4. pc' = "ready" => HasPlanned(cur)' /\ (cur = "sensor" => HasPlanned("central")')
    <3> SUFFICES ASSUME pc' = "ready" PROVE HasPlanned(cur)' /\ (cur = "sensor" => HasPlanned("central")')
      OBVIOUS
    <3>1. dep'[cur] = [ver |-> InstanceVersion(cfg, cur), olm |-> FALSE] /\ cur' = cur
      BY <1>1, <2>1
    <3>2. HasPlanned(cur)'
      BY <1>4, <3>1 DEF HasPlanned, InstanceVersion
    <3>3. cur = "sensor" => dep'["central"] = dep["central"] /\ HasPlanned("central")
      BY <1>1, <1>2, <2>1 DEF InstanceLabels, CreateLabels
    <3> QED BY <1>1, <1>4, <3>2, <3>3
  <2>5. InstancesPassed'
    BY <2>1, <2>4 DEF InstancesPassed, Repairing, Repaired
  <2> QED BY <1>6, <2>1, <2>2, <2>3, <2>5
<1>19. CASE WaitForOperatorReady
  <2>1. UNCHANGED <<ns, dep>> /\ pc = "ready" /\ (NextInstance \/ (pc' = "idle" /\ result' = "failed"))
    BY <1>19 DEF WaitForOperatorReady, Finish, cluster
  <2>2. CASE NextInstance
    BY <1>2, <1>7, <2>1, <2>2 DEF InstanceLabels
  <2>3. CASE pc' = "idle" /\ result' = "failed"
    BY <2>3 DEF OneTerminating, GoingAway, StalePassed, InstancesPassed, Repairing, Repaired
  <2> QED BY <2>1, <2>2, <2>3
<1>20. ~(\/ TeardownOperatorElsewhere \/ TeardownOperatorNonOLM \/ DeleteSubscription \/ DeleteCSV \/ DeleteOLMNamespace
         \/ CheckOLMOperatorImage \/ CheckOLMInstalled \/ CreateSubscription \/ WaitForAndApproveInstallPlan \/ WaitForCSVSuccess)
  BY <1>1 DEF ControlOK, OLMTeardownLabels, OLMLabels, NoOLM, TeardownOperatorElsewhere, TeardownOperatorNonOLM, DeleteSubscription,
     DeleteCSV, DeleteOLMNamespace, CheckOLMOperatorImage, CheckOLMInstalled, CreateSubscription, WaitForAndApproveInstallPlan,
     WaitForCSVSuccess
<1> QED BY <1>9, <1>10, <1>11, <1>12, <1>13, <1>14, <1>15, <1>16, <1>17, <1>18, <1>19, <1>20 DEF RoxieStep

\* What the namespace controller and the start of a command keep.
LEMMA RepairRest ==
  ASSUME ~Impatient, ClusterTypeOK, ProcessTypeOK, NoOLM, OneTerminating, GoingAway, StalePassed, InstancesPassed,
         Start \/ GiveUp \/ UNCHANGED vars \/ ClusterStep
  PROVE  OneTerminating' /\ GoingAway' /\ StalePassed' /\ InstancesPassed'
<1>1. CASE Start
  <2>1. /\ UNCHANGED ns /\ \A n \in AllOperatorNamespaces : ns[n] # "terminating"
        /\ \/ cmd' = "teardown"
           \/ pc' = "crdCheck"
    BY <1>1 DEF Start, StartDeploy, StartTeardown, MayStart, cluster
  <2>2. OneTerminating' /\ GoingAway' /\ InstancesPassed'
    BY <2>1 DEF OneTerminating, GoingAway, InstancesPassed, Repairing, Repaired, Replacing, TeardownLabels, InstanceLabels, CreateLabels
  <2>3. StalePassed'
    BY <2>1 DEF StalePassed, Repairing, Passed, PastStaleLoop, InStaleLoop, TeardownLabels, OLMTeardownLabels, InstanceLabels,
       CreateLabels, OLMLabels
  <2> QED BY <2>2, <2>3
<1>2. CASE GiveUp
  BY <1>2 DEF GiveUp, Finish, OneTerminating, GoingAway, StalePassed, InstancesPassed, Repairing, Repaired
<1>3. CASE UNCHANGED vars \/ ClusterStep
  <2>1. /\ UNCHANGED <<pc, cmd, cfg, cur, ret, result, faulty>>
        /\ \A n \in AllOperatorNamespaces : /\ ns'[n] = ns[n] \/ (ns[n] = "terminating" /\ ns'[n] = "absent")
                                            /\ dep'[n] = dep[n] \/ ns[n] = "terminating"
    <3>1. CASE UNCHANGED vars
      BY <3>1 DEF vars
    <3>2. CASE \E n \in AllOperatorNamespaces : NamespaceContentDeleted(n) \/ NamespaceRemoved(n)
      BY <3>2 DEF NamespaceContentDeleted, NamespaceRemoved, process, ClusterTypeOK
    <3>3. ~OLMProposesInstallPlan /\ ~OLMInstalls /\ ~OLMCollects
      BY DEF NoOLM, NoSubscription, OLMProposesInstallPlan, OLMInstalls, OLMCanInstall, OLMCollects, AllOperatorNamespaces
    <3> QED BY <1>3, <3>1, <3>2, <3>3 DEF ClusterStep
  <2>2. /\ (Repairing' <=> Repairing) /\ (Repaired' <=> Repaired)
        /\ OperatorInstances(cfg)' = OperatorInstances(cfg)
        /\ \A n \in AllOperatorNamespaces : (Passed(n)' <=> Passed(n)) /\ (dep'[n] = dep[n] => (HasPlanned(n)' <=> HasPlanned(n)))
        /\ Replacing' <=> Replacing
        /\ cur \in AllOperatorNamespaces /\ "central" \in AllOperatorNamespaces
    BY <2>1 DEF Repairing, Repaired, OperatorInstances, HasMixedVersions, Passed, PastStaleLoop, InStaleLoop, HasPlanned,
       InstanceVersion, Replacing, ProcessTypeOK, AllOperatorNamespaces
  <2>3. OneTerminating' /\ GoingAway' /\ StalePassed'
    BY <2>1, <2>2 DEF OneTerminating, GoingAway, StalePassed
  <2>4. /\ Repairing /\ cur = "sensor" => dep'["central"] = dep["central"]
        /\ Repairing /\ pc = "ready" => dep'[cur] = dep[cur]
        /\ Repaired => \A n \in AllOperatorNamespaces : dep'[n] = dep[n]
    BY <2>1, <2>2 DEF OneTerminating
  <2>5. (\A n \in AllOperatorNamespaces : dep'[n] = dep[n]) /\ RunsPlan(cfg) => RunsPlan(cfg)'
    BY <2>1, <2>2 DEF RunsPlan, InstanceVersion
  <2>6. HasPlanned(cur) /\ dep'[cur] = dep[cur] => HasPlanned(cur)'
    BY <2>1 DEF HasPlanned, InstanceVersion
  <2>7. InstancesPassed'
    BY <2>1, <2>2, <2>4, <2>5, <2>6 DEF InstancesPassed
  <2> QED BY <2>3, <2>7
<1> QED BY <1>1, <1>2, <1>3

\* Every step of roxie outside a repairing deploy is one of a command that has met a fault, of a deploy through OLM, which
\* never succeeds here, or of a teardown.
LEMMA RepairOther ==
  ASSUME ProcessTypeOK, BudgetTypeOK, ControlOK, NoOLM, RoxieStep, ~(Repairing /\ faulty' = "no")
  PROVE  ~Repairing' /\ ~Repaired'
<1>1. UNCHANGED <<cmd, cfg>> /\ pc # "idle"
  BY CommandKept DEF Next
<1>2. faulty' = faulty \/ faulty' = "yes"
  <2>1. ASSUME \/ EnsureCRDsInstalled \/ ApplyCRD("crdInstall", "stale") \/ ApplyCRD("crdUpgrade", "prepare")
               \/ TeardownStaleOperatorNamespaces \/ DetectOperatorDeploymentMode \/ TeardownOperatorElsewhere
               \/ DeleteOperatorNamespace \/ DeleteClusterRoleBinding \/ DeleteClusterRole \/ WaitForNamespaceDeletion
               \/ TeardownOperatorNonOLM \/ DeleteSubscription \/ DeleteCSV \/ DeleteOLMNamespace
        PROVE  NoFault \/ Fault \/ UNCHANGED faulty
    BY <2>1 DEF EnsureCRDsInstalled, ApplyCRD, TeardownStaleOperatorNamespaces, DetectOperatorDeploymentMode,
       TeardownOperatorElsewhere, DeleteOperatorNamespace, DeleteNamespace, DeleteClusterRoleBinding, DeleteClusterRole, DeleteRBAC,
       WaitForNamespaceDeletion, WaitEnds, TeardownOperatorNonOLM, DeleteSubscription, DeleteCSV, DeleteOLMNamespace, Sees, Silently
  <2>2. ASSUME \/ CheckOperatorExists \/ CheckOperatorImage \/ CheckOLMOperatorImage \/ CheckOLMInstalled \/ PrepareNamespace
               \/ CreateClusterRole \/ CreateClusterRoleBinding \/ CreateDeployment \/ WaitForOperatorReady
               \/ CreateSubscription \/ WaitForAndApproveInstallPlan \/ WaitForCSVSuccess
        PROVE  NoFault \/ Fault \/ UNCHANGED faulty
    BY <2>2 DEF CheckOperatorExists, CheckOperatorImage, CheckOLMOperatorImage, CheckOLMInstalled, PrepareNamespace,
       CreateClusterRole, CreateClusterRoleBinding, CreateDeployment, WaitForOperatorReady, CreateSubscription,
       WaitForAndApproveInstallPlan, WaitForCSVSuccess, Sees
  <2> QED BY <2>1, <2>2 DEF RoxieStep, NoFault, Fault
<1>3. ASSUME cmd = "deploy", cfg.olm PROVE ~Repaired'
  <2> USE DEF Jump, Goto, Finish
  <2>1. ASSUME \/ EnsureCRDsInstalled \/ ApplyCRD("crdInstall", "stale") \/ ApplyCRD("crdUpgrade", "prepare")
               \/ TeardownStaleOperatorNamespaces \/ DetectOperatorDeploymentMode
               \/ DeleteOperatorNamespace \/ DeleteClusterRoleBinding
               \/ TeardownOperatorNonOLM \/ DeleteSubscription \/ DeleteCSV \/ DeleteOLMNamespace
        PROVE  pc' # "idle"
    BY <2>1 DEF EnsureCRDsInstalled, ApplyCRD, TeardownStaleOperatorNamespaces, NextStale, DetectOperatorDeploymentMode, OnDetected,
       DeleteOperatorNamespace, DeleteNamespace, DeleteClusterRoleBinding, TeardownOperatorNonOLM, DeleteSubscription, DeleteCSV,
       DeleteOLMNamespace
  <2>2. ASSUME DeleteClusterRole \/ WaitForNamespaceDeletion PROVE pc' # "idle"
    BY <1>3, <2>2 DEF DeleteClusterRole, NextRBAC, WaitForNamespaceDeletion, AfterTeardown, NextStale, DeployInstance
  <2>3. ASSUME \/ CheckOLMInstalled \/ PrepareNamespace \/ CreateClusterRole \/ CreateClusterRoleBinding \/ CreateDeployment
               \/ CreateSubscription \/ WaitForAndApproveInstallPlan
        PROVE  pc' # "idle" \/ result' = "failed"
    BY <2>3 DEF CheckOLMInstalled, PrepareNamespace, CreateClusterRole, CreateClusterRoleBinding, CreateDeployment,
       CreateSubscription, WaitForAndApproveInstallPlan
  <2>4. ~(\/ TeardownOperatorElsewhere \/ CheckOperatorExists \/ CheckOperatorImage \/ CheckOLMOperatorImage
          \/ WaitForOperatorReady \/ WaitForCSVSuccess)
    BY <1>3 DEF ControlOK, NoOLM, TeardownOperatorElsewhere, CheckOperatorExists, CheckOperatorImage, CheckOLMOperatorImage,
       WaitForOperatorReady, WaitForCSVSuccess
  <2> QED BY <2>1, <2>2, <2>3, <2>4 DEF RoxieStep, Repaired
<1> QED BY <1>1, <1>2, <1>3 DEF Repairing, Repaired

RepairInd == TypeOK /\ ObjectsInNamespaces /\ ControlOK /\ RepairInv

\* A deploy that meets no fault itself repairs what was there: without OLM on the cluster and when commands wait for
\* namespaces that are still going away, the plan's operators run and no others, whatever errors were swallowed and
\* whichever commands were interrupted before.
THEOREM DeployRepairsCorrect == ASSUME ~Impatient, ~OLMInstalled PROVE Spec => []DeployRepairs
<1>1. Init => RepairInd
  <2> SUFFICES ASSUME Init PROVE RepairInd
    OBVIOUS
  <2>1. TypeOK /\ ObjectsInNamespaces /\ ControlOK
    BY IndInvInit DEF IndInv
  <2>2. RepairInv
    BY DEF Init, RepairInv, NoOLM, OneTerminating, GoingAway, StalePassed, InstancesPassed, Repairing, Repaired, NoOperator,
       OLMTeardownLabels
  <2> QED BY <2>1, <2>2 DEF RepairInd
<1>2. RepairInd /\ [Next]_vars => RepairInd'
  <2> SUFFICES ASSUME RepairInd, [Next]_vars PROVE RepairInd'
    OBVIOUS
  <2>1. TypeOK' /\ ObjectsInNamespaces' /\ ControlOK'
    BY TypeStep, ObjectsInNamespacesStep, ControlOKStep DEF RepairInd, TypeOK
  <2>2. NoOLM'
    BY NoOLMStep DEF RepairInd, RepairInv, TypeOK
  <2>3. OneTerminating' /\ GoingAway' /\ StalePassed' /\ InstancesPassed'
    <3>1. CASE RoxieStep /\ Repairing /\ faulty' = "no"
      BY <3>1, RepairRoxie DEF RepairInd, RepairInv, TypeOK
    <3>2. CASE RoxieStep /\ ~(Repairing /\ faulty' = "no")
      <4>1. ~Repairing' /\ ~Repaired'
        BY <3>2, RepairOther DEF RepairInd, RepairInv, TypeOK
      <4> QED BY <4>1 DEF OneTerminating, GoingAway, StalePassed, InstancesPassed
    <3>3. CASE Start \/ GiveUp \/ UNCHANGED vars \/ ClusterStep
      BY <3>3, RepairRest DEF RepairInd, RepairInv, TypeOK
    <3> QED BY <3>1, <3>2, <3>3 DEF Next
  <2> QED BY <2>1, <2>2, <2>3 DEF RepairInd, RepairInv
<1>3. RepairInd => DeployRepairs
  BY DEF RepairInd, RepairInv, InstancesPassed, Repaired, DeployRepairs
<1> QED BY <1>1, <1>2, <1>3, PTL DEF Spec
(***************************************************************************)
(* What a teardown removes.  Removing speaks of the command that runs and  *)
(* of the faults it has met itself, so that it survives interruptions and  *)
(* whatever went wrong before.                                             *)
(***************************************************************************)
\* What OLM installs shares the cluster with no other operator: the one fact
\* about the commands before it that a teardown relies on when it finds OLM.
OLMAlone == sub # NoSubscription \/ dep["system"].olm => NoneIn({"central", "sensor"})

LEMMA OLMIsAlone ==
  ASSUME SystemExclusive \/ NoOLM
  PROVE  OLMAlone
  BY DEF OLMAlone, SystemExclusive, NoOLM, NoneIn, OperatorExists, NoOperator, AllOperatorNamespaces

\* Where no operator is, and where no operator comes to.
LEMMA NoneStays ==
  ASSUME NEW S \in SUBSET AllOperatorNamespaces, NoneIn(S),
         \A n \in S : dep'[n] = dep[n] \/ dep'[n] = NoOperator
  PROVE  NoneIn(S)'
  BY DEF NoneIn, OperatorExists

\* The sets of namespaces that Removed speaks of.
LEMMA RemovedSets ==
  /\ {"central", "sensor"} \in SUBSET AllOperatorNamespaces
  /\ {"system"} \in SUBSET AllOperatorNamespaces
  /\ \A n \in AllOperatorNamespaces : Earlier(n) \in SUBSET AllOperatorNamespaces
  /\ Earlier("system") = {}
  /\ Earlier("central") = {"system"}
  /\ Earlier("sensor") = {"system", "central"}
  BY DEF Earlier, AllOperatorNamespaces

\* A teardown that meets no fault: its own steps.  It creates nothing, sees what
\* is there, and goes on from a namespace only when that is gone.
LEMMA RemovingRoxie ==
  ASSUME ClusterTypeOK, ProcessTypeOK, ObjectsInNamespaces, ControlOK, OLMAlone, RoxieStep,
         cmd = "teardown", faulty = "no", faulty' = "no", Removed
  PROVE  Removed'
<1> USE DEF Jump, Goto, Finish
<1>1. ~Fault
  BY DEF Fault
<1>2. DeletionStarted /\ cur \in AllOperatorNamespaces
  BY DEF Removed, ProcessTypeOK
<1>3. ~(\/ EnsureCRDsInstalled \/ ApplyCRD("crdInstall", "stale") \/ ApplyCRD("crdUpgrade", "prepare")
        \/ TeardownStaleOperatorNamespaces \/ CheckOperatorExists \/ CheckOperatorImage \/ CheckOLMOperatorImage
        \/ CheckOLMInstalled \/ PrepareNamespace \/ CreateClusterRole \/ CreateClusterRoleBinding \/ CreateDeployment
        \/ WaitForOperatorReady \/ CreateSubscription \/ WaitForAndApproveInstallPlan \/ WaitForCSVSuccess)
  BY DEF ControlOK, InstanceLabels, CreateLabels, OLMLabels, EnsureCRDsInstalled, ApplyCRD,
     TeardownStaleOperatorNamespaces, CheckOperatorExists, CheckOperatorImage, CheckOLMOperatorImage, CheckOLMInstalled,
     PrepareNamespace, CreateClusterRole, CreateClusterRoleBinding, CreateDeployment, WaitForOperatorReady,
     CreateSubscription, WaitForAndApproveInstallPlan, WaitForCSVSuccess
<1> DEFINE None(S) == \A n \in S : dep[n] = NoOperator
<1>4. \A S : (NoneIn(S) <=> None(S)) /\ (NoneIn(S)' <=> None(S)')
  BY DEF NoneIn, OperatorExists
<1>5. \A n \in AllOperatorNamespaces : ns[n] = "absent" => dep[n] = NoOperator
  BY DEF ObjectsInNamespaces, OperatorExists
<1>6. CASE DetectOperatorDeploymentMode
  <2>1. UNCHANGED <<dep, sub, ns>>
    BY <1>6 DEF DetectOperatorDeploymentMode, cluster
  <2>2. PICK subSeen \in BOOLEAN :
          /\ Sees(sub.ver # 0, subSeen)
          /\ OnDetected(subSeen \/ OperatorExists("system"), subSeen \/ dep["system"].olm)
    BY <1>6 DEF DetectOperatorDeploymentMode
  <2>3. subSeen <=> sub # NoSubscription
    BY <1>1, <2>2 DEF Sees, ObjectsInNamespaces, NoSubscription
  <2>4. dep["system"].olm => OperatorExists("system")
    BY DEF OperatorExists, NoOperator
  <2>5. CASE sub # NoSubscription \/ dep["system"].olm
    <3>1. pc' = "subDelete"
      BY <2>2, <2>3, <2>4, <2>5 DEF OnDetected
    <3>2. None({"central", "sensor"})
      BY <1>4, <2>5 DEF OLMAlone
    <3> QED BY <1>4, <2>1, <3>1, <3>2 DEF Removed, InOLMTeardown, InNamespaceLoop, AllRemoved, DeletionStarted,
               TeardownLabels, OLMTeardownLabels
  <2>6. CASE sub = NoSubscription /\ OperatorExists("system") /\ ~dep["system"].olm
    <3>1. pc' = "all" /\ cur' = "system"
      BY <2>2, <2>3, <2>6 DEF OnDetected
    <3>2. NoneIn(Earlier(cur))'
      BY <3>1, RemovedSets DEF NoneIn
    <3> QED BY <2>1, <2>6, <3>1, <3>2 DEF Removed, InOLMTeardown, InNamespaceLoop, AllRemoved, DeletionStarted,
               TeardownLabels, OLMTeardownLabels
  <2>7. CASE sub = NoSubscription /\ ~OperatorExists("system")
    <3>1. pc' = "others"
      BY <2>2, <2>3, <2>4, <2>7 DEF OnDetected
    <3>2. None({"system"})
      BY <2>7 DEF OperatorExists
    <3> QED BY <1>4, <2>1, <2>7, <3>1, <3>2 DEF Removed, InOLMTeardown, InNamespaceLoop, AllRemoved, DeletionStarted,
               TeardownLabels, OLMTeardownLabels
  <2> QED BY <2>5, <2>6, <2>7
<1>7. CASE TeardownOperatorElsewhere
  <2>1. UNCHANGED <<dep, sub, ns>> /\ sub = NoSubscription /\ None({"system"})
    BY <1>4, <1>7 DEF TeardownOperatorElsewhere, cluster, Removed
  <2>2. \/ pc' = "all" /\ cur' = "system"
        \/ pc' = "idle" /\ None({"central", "sensor"})
    BY <1>1, <1>7 DEF TeardownOperatorElsewhere, Sees, OperatorExists
  <2>3. pc' = "all" => NoneIn(Earlier(cur))'
    BY <2>2, RemovedSets DEF NoneIn
  <2>4. pc' = "idle" => None(AllOperatorNamespaces)
    BY <2>1, <2>2 DEF AllOperatorNamespaces
  <2> QED BY <1>4, <2>1, <2>2, <2>3, <2>4 DEF Removed, InOLMTeardown, InNamespaceLoop, AllRemoved, DeletionStarted,
             TeardownLabels, OLMTeardownLabels
<1>8. CASE TeardownOperatorNonOLM
  <2>1. UNCHANGED <<dep, sub, ns, cmd>> /\ sub = NoSubscription /\ None(Earlier(cur))
    BY <1>4, <1>8 DEF TeardownOperatorNonOLM, cluster, Removed, InNamespaceLoop
  <2>2. \/ pc' = "nsDelete" /\ cur' = cur /\ ret' = "all"
        \/ ns[cur] = "absent" /\ cur # "sensor" /\ pc' = "all" /\ cur' = After(cur)
        \/ ns[cur] = "absent" /\ cur = "sensor" /\ pc' = "bindingDelete" /\ ret' = "allRBAC"
    BY <1>1, <1>8 DEF TeardownOperatorNonOLM, Sees
  <2>3. CASE pc' = "nsDelete" /\ cur' = cur /\ ret' = "all"
    BY <1>4, <2>1, <2>3 DEF Removed, InOLMTeardown, InNamespaceLoop, AllRemoved, DeletionStarted, TeardownLabels, OLMTeardownLabels
  <2>4. CASE ns[cur] = "absent" /\ cur # "sensor" /\ pc' = "all" /\ cur' = After(cur)
    <3>1. None(Earlier(cur'))
      BY <1>2, <1>5, <2>1, <2>4, RemovedSets DEF After, AllOperatorNamespaces
    <3>2. NoneIn(Earlier(cur))'
      BY <1>4, <2>1, <3>1 DEF NoneIn, OperatorExists
    <3> QED BY <2>1, <2>4, <3>2 DEF Removed, InOLMTeardown, InNamespaceLoop, AllRemoved, DeletionStarted, TeardownLabels, OLMTeardownLabels
  <2>5. CASE ns[cur] = "absent" /\ cur = "sensor" /\ pc' = "bindingDelete" /\ ret' = "allRBAC"
    <3>1. None(AllOperatorNamespaces)
      BY <1>2, <1>5, <2>1, <2>5, RemovedSets DEF AllOperatorNamespaces
    <3> QED BY <1>4, <2>1, <2>5, <3>1 DEF Removed, InOLMTeardown, InNamespaceLoop, AllRemoved, DeletionStarted, TeardownLabels, OLMTeardownLabels
  <2> QED BY <2>2, <2>3, <2>4, <2>5
<1>9. CASE DeleteOperatorNamespace
  <2>1. UNCHANGED <<dep, sub, cur, ret>> /\ pc = "nsDelete" /\ pc' = "bindingDelete"
    BY <1>9 DEF DeleteOperatorNamespace, DeleteNamespace
  <2>2. ns'[cur] # "active"
    BY <1>1, <1>2, <1>9 DEF DeleteOperatorNamespace, DeleteNamespace, Silently, ClusterTypeOK
  <2>3. ret = "all" => NoneIn(Earlier(cur)) /\ sub = NoSubscription
    BY <2>1 DEF Removed, InNamespaceLoop, TeardownLabels
  <2>4. ret # "allRBAC"
    BY <2>1 DEF ControlOK
  <2> QED BY <1>4, <2>1, <2>2, <2>3, <2>4 DEF Removed, InOLMTeardown, InNamespaceLoop, AllRemoved, DeletionStarted, TeardownLabels, OLMTeardownLabels
<1>10. CASE DeleteClusterRoleBinding
  <2>1. UNCHANGED <<dep, sub, ns, cur, ret>> /\ pc = "bindingDelete" /\ pc' = "roleDelete"
    BY <1>10 DEF DeleteClusterRoleBinding, DeleteRBAC
  <2> QED BY <1>4, <2>1 DEF Removed, InOLMTeardown, InNamespaceLoop, AllRemoved, DeletionStarted, TeardownLabels, OLMTeardownLabels
<1>11. CASE DeleteClusterRole
  <2>1. UNCHANGED <<dep, sub, ns>> /\ pc = "roleDelete"
    BY <1>11 DEF DeleteClusterRole, DeleteRBAC
  <2>2. CASE ret = "allRBAC"
    <3>1. NoneIn(AllOperatorNamespaces) /\ sub = NoSubscription
      BY <2>1, <2>2 DEF Removed, AllRemoved, TeardownLabels
    <3>2. pc' = "idle" \/ (pc' = "bindingDelete" /\ ret' = "allRBAC")
      BY <1>11, <2>2 DEF DeleteClusterRole, NextRBAC
    <3> QED BY <1>4, <2>1, <3>1, <3>2 DEF Removed, InOLMTeardown, InNamespaceLoop, AllRemoved, DeletionStarted, TeardownLabels, OLMTeardownLabels
  <2>3. CASE ret # "allRBAC"
    <3>1. UNCHANGED <<cur, ret>> /\ pc' = "nsWait"
      BY <1>11, <2>3 DEF DeleteClusterRole
    <3>2. ret # "olm"
      BY <2>1 DEF ControlOK
    <3> QED BY <1>4, <2>1, <2>3, <3>1, <3>2 DEF Removed, InOLMTeardown, InNamespaceLoop, AllRemoved, DeletionStarted, TeardownLabels, OLMTeardownLabels
  <2> QED BY <2>2, <2>3
<1>12. CASE WaitForNamespaceDeletion
  <2>1. UNCHANGED <<dep, sub, ns>> /\ pc = "nsWait"
    BY <1>12 DEF WaitForNamespaceDeletion, cluster
  <2>2. ret \in {"all", "olm"}
    BY <2>1 DEF ControlOK, TeardownLabels
  <2>3. ns[cur] = "absent"
    BY <1>1, <1>2, <1>12, <2>1, <2>2 DEF WaitForNamespaceDeletion, WaitEnds, DeletionStarted, ClusterTypeOK
  <2>4. dep[cur] = NoOperator
    BY <1>2, <1>5, <2>3
  <2>5. CASE ret = "olm"
    <3>1. pc' = "idle" /\ cur = "system"
      BY <1>12, <2>1, <2>5 DEF WaitForNamespaceDeletion, AfterTeardown, ControlOK
    <3>2. None({"central", "sensor"}) /\ sub = NoSubscription
      BY <1>4, <2>1, <2>5 DEF Removed, InOLMTeardown
    <3>3. None(AllOperatorNamespaces)
      BY <2>4, <3>1, <3>2 DEF AllOperatorNamespaces
    <3> QED BY <1>4, <2>1, <3>1, <3>2, <3>3 DEF Removed, InOLMTeardown, InNamespaceLoop, AllRemoved, DeletionStarted, TeardownLabels, OLMTeardownLabels
  <2>6. CASE ret = "all"
    <3>1. None(Earlier(cur)) /\ sub = NoSubscription
      BY <1>4, <2>1, <2>6 DEF Removed, InNamespaceLoop, TeardownLabels
    <3>2. \/ cur # "sensor" /\ pc' = "all" /\ cur' = After(cur)
          \/ cur = "sensor" /\ pc' = "bindingDelete" /\ ret' = "allRBAC"
      BY <1>12, <2>6 DEF WaitForNamespaceDeletion, AfterTeardown
    <3>3. CASE cur # "sensor" /\ pc' = "all" /\ cur' = After(cur)
      <4>1. None(Earlier(cur'))
        BY <1>2, <2>4, <3>1, <3>3, RemovedSets DEF After, AllOperatorNamespaces
      <4>2. NoneIn(Earlier(cur))'
        BY <2>1, <4>1 DEF NoneIn, OperatorExists
      <4> QED BY <2>1, <3>1, <3>3, <4>2 DEF Removed, InOLMTeardown, InNamespaceLoop, AllRemoved, DeletionStarted, TeardownLabels, OLMTeardownLabels
    <3>4. CASE cur = "sensor" /\ pc' = "bindingDelete" /\ ret' = "allRBAC"
      <4>1. None(AllOperatorNamespaces)
        BY <2>4, <3>1, <3>4, RemovedSets DEF AllOperatorNamespaces
      <4> QED BY <1>4, <2>1, <3>1, <3>4, <4>1 DEF Removed, InOLMTeardown, InNamespaceLoop, AllRemoved, DeletionStarted, TeardownLabels, OLMTeardownLabels
    <3> QED BY <3>2, <3>3, <3>4
  <2> QED BY <2>2, <2>5, <2>6
<1>13. CASE DeleteSubscription \/ DeleteCSV \/ DeleteOLMNamespace
  <2>1. UNCHANGED dep /\ pc \in OLMTeardownLabels /\ (sub' = sub \/ sub' = NoSubscription)
    BY <1>13 DEF DeleteSubscription, DeleteCSV, DeleteOLMNamespace, Silently, OLMTeardownLabels
  <2>2. None({"central", "sensor"}) /\ cur = "system"
    BY <1>4, <2>1 DEF Removed, InOLMTeardown, ControlOK
  <2>3. sub' = NoSubscription
    BY <1>1, <1>13, <2>1 DEF DeleteSubscription, DeleteCSV, DeleteOLMNamespace, Silently, Removed, InOLMTeardown, OLMTeardownLabels
  <2>4. pc' \in {"csvDelete", "olmNsDelete"} \/ (pc' = "nsWait" /\ ret' = "olm" /\ ns'[cur'] # "active")
    BY <1>1, <1>2, <1>13, <2>2 DEF DeleteSubscription, DeleteCSV, DeleteOLMNamespace, Silently, ClusterTypeOK
  <2> QED BY <1>4, <2>1, <2>2, <2>3, <2>4 DEF Removed, InOLMTeardown, InNamespaceLoop, AllRemoved, DeletionStarted, TeardownLabels, OLMTeardownLabels
<1> QED BY <1>3, <1>6, <1>7, <1>8, <1>9, <1>10, <1>11, <1>12, <1>13 DEF RoxieStep

\* Everything else: a command that starts or dies, and the cluster, which
\* brings an operator only where a Subscription asks for it.
LEMMA RemovingRest ==
  ASSUME ClusterTypeOK, ProcessTypeOK, Removing, Start \/ GiveUp \/ UNCHANGED vars \/ ClusterStep
  PROVE  Removing'
<1>1. CASE Start \/ GiveUp
  BY <1>1 DEF Start, StartDeploy, StartTeardown, GiveUp, Finish, Removing, Removed, InOLMTeardown, InNamespaceLoop,
     AllRemoved, DeletionStarted, TeardownLabels, OLMTeardownLabels
<1>2. CASE UNCHANGED vars \/ ClusterStep
  <2>1. UNCHANGED <<pc, cmd, cur, ret, result, faulty>>
    BY <1>2 DEF vars, ClusterStep, NamespaceContentDeleted, NamespaceRemoved, OLMProposesInstallPlan, OLMInstalls,
       OLMCollects, process
  <2>2. \A n \in AllOperatorNamespaces : ns[n] # "active" => ns'[n] # "active"
    BY <1>2 DEF vars, ClusterStep, NamespaceContentDeleted, NamespaceRemoved, OLMProposesInstallPlan, OLMInstalls,
       OLMCollects, ClusterTypeOK
  <2>3. sub = NoSubscription => sub' = NoSubscription
    BY <1>2 DEF vars, ClusterStep, NamespaceContentDeleted, NamespaceRemoved, OLMProposesInstallPlan, OLMInstalls,
       OLMCollects, NoSubscription
  <2>4. \A n \in AllOperatorNamespaces :
          n # "system" \/ sub = NoSubscription => dep'[n] = dep[n] \/ dep'[n] = NoOperator
    BY <1>2 DEF vars, ClusterStep, NamespaceContentDeleted, NamespaceRemoved, OLMProposesInstallPlan, OLMInstalls,
       OLMCanInstall, OLMCollects, NoSubscription, ClusterTypeOK
  <2>5. NoneIn({"central", "sensor"}) => NoneIn({"central", "sensor"})'
    BY <2>4, NoneStays, RemovedSets
  <2>6. \A S \in SUBSET AllOperatorNamespaces : NoneIn(S) /\ sub = NoSubscription => NoneIn(S)'
    BY <2>4, NoneStays
  <2>7. Removed => Removed'
    <3> SUFFICES ASSUME Removed PROVE Removed'
      OBVIOUS
    <3>1. (InOLMTeardown => NoneIn({"central", "sensor"}) /\ (pc # "subDelete" => sub = NoSubscription))'
      BY <2>1, <2>3, <2>5 DEF Removed, InOLMTeardown
    <3>2. (pc = "others" => NoneIn({"system"}) /\ sub = NoSubscription)'
      BY <2>1, <2>3, <2>6, RemovedSets DEF Removed
    <3>3. (InNamespaceLoop => NoneIn(Earlier(cur)) /\ sub = NoSubscription)'
      <4>1. Earlier(cur) \in SUBSET AllOperatorNamespaces /\ Earlier(cur)' = Earlier(cur)
        BY <2>1, RemovedSets DEF Earlier, ProcessTypeOK
      <4> QED BY <2>1, <2>3, <2>6, <4>1 DEF Removed, InNamespaceLoop, NoneIn
    <3>4. (AllRemoved => NoneIn(AllOperatorNamespaces) /\ sub = NoSubscription)'
      BY <2>1, <2>3, <2>6 DEF Removed, AllRemoved
    <3>5. DeletionStarted'
      BY <2>1, <2>2 DEF Removed, DeletionStarted, ProcessTypeOK
    <3> QED BY <3>1, <3>2, <3>3, <3>4, <3>5 DEF Removed
  <2> QED BY <2>1, <2>7 DEF Removing
<1> QED BY <1>1, <1>2

\* What a step does to the mark of a command that has met a fault.
LEMMA FaultKept ==
  ASSUME RoxieStep
  PROVE  faulty' = faulty \/ (Fault /\ faulty' = "yes")
<1> USE DEF NoFault, Fault, Sees, Silently
<1>1. ASSUME \/ EnsureCRDsInstalled \/ TeardownStaleOperatorNamespaces \/ DetectOperatorDeploymentMode
             \/ TeardownOperatorElsewhere \/ TeardownOperatorNonOLM \/ CheckOperatorExists \/ CheckOperatorImage
             \/ CheckOLMOperatorImage \/ PrepareNamespace
      PROVE  faulty' = faulty \/ (Fault /\ faulty' = "yes")
  BY <1>1 DEF EnsureCRDsInstalled, TeardownStaleOperatorNamespaces, DetectOperatorDeploymentMode,
     TeardownOperatorElsewhere, TeardownOperatorNonOLM, CheckOperatorExists, CheckOperatorImage, CheckOLMOperatorImage,
     PrepareNamespace
<1>2. ASSUME \/ DeleteOperatorNamespace \/ DeleteClusterRoleBinding \/ DeleteClusterRole \/ WaitForNamespaceDeletion
             \/ DeleteSubscription \/ DeleteCSV \/ DeleteOLMNamespace
      PROVE  faulty' = faulty \/ (Fault /\ faulty' = "yes")
  BY <1>2 DEF DeleteOperatorNamespace, DeleteNamespace, DeleteClusterRoleBinding, DeleteClusterRole, DeleteRBAC,
     WaitForNamespaceDeletion, WaitEnds, DeleteSubscription, DeleteCSV, DeleteOLMNamespace
<1>3. ASSUME \/ ApplyCRD("crdInstall", "stale") \/ ApplyCRD("crdUpgrade", "prepare") \/ CheckOLMInstalled
             \/ CreateClusterRole \/ CreateClusterRoleBinding \/ CreateDeployment \/ WaitForOperatorReady
             \/ CreateSubscription \/ WaitForAndApproveInstallPlan \/ WaitForCSVSuccess
      PROVE  faulty' = faulty
  BY <1>3 DEF ApplyCRD, CheckOLMInstalled, CreateClusterRole, CreateClusterRoleBinding, CreateDeployment,
     WaitForOperatorReady, CreateSubscription, WaitForAndApproveInstallPlan, WaitForCSVSuccess
<1> QED BY <1>1, <1>2, <1>3 DEF RoxieStep

\* Without a budget for swallowed errors no command is marked.
LEMMA NeverFaulty ==
  ASSUME ~Fault, faulty = "no", [Next]_vars
  PROVE  faulty' = "no"
<1>1. CASE RoxieStep
  BY <1>1, FaultKept
<1>2. CASE Start \/ GiveUp \/ UNCHANGED vars \/ ClusterStep
  BY <1>2 DEF Start, StartDeploy, StartTeardown, GiveUp, vars, ClusterStep, NamespaceContentDeleted, NamespaceRemoved,
     OLMProposesInstallPlan, OLMInstalls, OLMCollects
<1> QED BY <1>1, <1>2 DEF Next

LEMMA RemovingStep ==
  ASSUME TypeOK, ObjectsInNamespaces, ControlOK, SystemExclusive \/ NoOLM, Removing, [Next]_vars
  PROVE  Removing'
<1>1. CASE RoxieStep
  <2>1. cmd' = cmd /\ (faulty' = faulty \/ faulty' = "yes")
    BY <1>1, CommandKept, FaultKept
  <2> QED BY <1>1, <2>1, OLMIsAlone, RemovingRoxie DEF TypeOK, BudgetTypeOK, Removing
<1>2. CASE Start \/ GiveUp \/ UNCHANGED vars \/ ClusterStep
  BY <1>2, RemovingRest DEF TypeOK
<1> QED BY <1>1, <1>2 DEF Next

LEMMA RemovingInit == Init => Removing
  BY DEF Init, Removing, Removed, InOLMTeardown, InNamespaceLoop, AllRemoved, DeletionStarted, NoneIn, OperatorExists,
     TeardownLabels, OLMTeardownLabels

\* A teardown of the operator that reports success leaves no operator and no
\* Subscription that could bring one back, when every error is reported; the
\* commands before it may have been interrupted anywhere, and it need not have
\* waited for what they left terminating.
THEOREM TeardownRemovesOperatorsCorrect == ASSUME MaxFaults = 0 PROVE Spec => []TeardownRemovesOperators
<1>1. Init => IndInv /\ faulty = "no" /\ Removing
  BY IndInvInit, RemovingInit DEF Init
<1>2. IndInv /\ faulty = "no" /\ Removing /\ [Next]_vars => (IndInv /\ faulty = "no" /\ Removing)'
  <2> SUFFICES ASSUME IndInv, faulty = "no", Removing, [Next]_vars PROVE (IndInv /\ faulty = "no" /\ Removing)'
    OBVIOUS
  <2>1. faulty' = "no"
    BY NoFaults, NeverFaulty DEF IndInv, TypeOK
  <2> QED BY <2>1, IndInvStep, RemovingStep DEF IndInv
<1>3. IndInv /\ faulty = "no" /\ Removing => TeardownRemovesOperators
  BY DEF Removing, Removed, AllRemoved, NoneIn, TeardownRemovesOperators
<1> QED BY <1>1, <1>2, <1>3, PTL DEF Spec

\* On a cluster without OLM a teardown that meets no error itself removes every
\* operator, whatever errors the commands before it swallowed and wherever they
\* were interrupted.
THEOREM TeardownRepairsCorrect == ASSUME ~OLMInstalled PROVE Spec => []TeardownRepairs
<1> DEFINE Inv == TypeOK /\ ObjectsInNamespaces /\ ControlOK /\ NoOLM /\ Removing
<1>1. Init => Inv
  <2> SUFFICES ASSUME Init PROVE Inv
    OBVIOUS
  <2>1. TypeOK /\ ObjectsInNamespaces /\ ControlOK
    BY IndInvInit DEF IndInv
  <2>2. NoOLM
    BY DEF Init, NoOLM, NoOperator, OLMTeardownLabels
  <2> QED BY <2>1, <2>2, RemovingInit
<1>2. Inv /\ [Next]_vars => Inv'
  <2> SUFFICES ASSUME Inv, [Next]_vars PROVE Inv'
    OBVIOUS
  <2>1. TypeOK' /\ ObjectsInNamespaces' /\ ControlOK'
    BY TypeStep, ObjectsInNamespacesStep, ControlOKStep DEF TypeOK
  <2>2. NoOLM'
    BY NoOLMStep DEF TypeOK
  <2> QED BY <2>1, <2>2, RemovingStep
<1>3. Inv => TeardownRepairs
  BY DEF Removing, Removed, AllRemoved, NoneIn, TeardownRepairs
<1> HIDE DEF Inv
<1> QED BY <1>1, <1>2, <1>3, PTL DEF Spec
(***************************************************************************)
(* Commands come to an end.                                                *)
(***************************************************************************)
\* The numbers of the variant, label by label.
LEMMA TeardownNumbers ==
  /\ pc \in TeardownLabels => TeardownStep[pc] \in 0 .. 3
  /\ pc = "nsDelete" => TeardownStep[pc] = 3
  /\ pc = "bindingDelete" => TeardownStep[pc] = 2
  /\ pc = "roleDelete" => TeardownStep[pc] = 1
  /\ pc = "nsWait" => TeardownStep[pc] = 0
  BY DEF TeardownStep, TeardownLabels

LEMMA TeardownValues ==
  pc \in TeardownLabels =>
    /\ ret = "replace" => StepsLeft = 13 * NamespacesLeft(cur) + 7 + TeardownStep[pc]
    /\ ret = "olm"     => StepsLeft = 40
    /\ ret = "allRBAC" => StepsLeft = 39 + 2 * NamespacesLeft(cur) + TeardownStep[pc]
    /\ ret = "all"     => StepsLeft = 46 + 5 * NamespacesLeft(cur) + TeardownStep[pc]
    /\ ret \in {"stale", "none"} => StepsLeft = 63 + 5 * NamespacesLeft(cur) + TeardownStep[pc]
<1> SUFFICES ASSUME pc \in TeardownLabels
             PROVE  /\ ret = "replace" => StepsLeft = 13 * NamespacesLeft(cur) + 7 + TeardownStep[pc]
                    /\ ret = "olm"     => StepsLeft = 40
                    /\ ret = "allRBAC" => StepsLeft = 39 + 2 * NamespacesLeft(cur) + TeardownStep[pc]
                    /\ ret = "all"     => StepsLeft = 46 + 5 * NamespacesLeft(cur) + TeardownStep[pc]
                    /\ ret \in {"stale", "none"} => StepsLeft = 63 + 5 * NamespacesLeft(cur) + TeardownStep[pc]
  OBVIOUS
<1>1. StepsLeft = StepsInTeardown
  BY DEF StepsLeft, TeardownLabels, InstanceStep
<1> QED BY <1>1 DEF StepsInTeardown

LEMMA InstanceValues ==
  /\ pc = "exists" => StepsLeft = 13 * NamespacesLeft(cur) + 12
  /\ pc = "image" => StepsLeft = 13 * NamespacesLeft(cur) + 11
  /\ pc = "crdUpgrade" => StepsLeft = 13 * NamespacesLeft(cur) + 6
  /\ pc = "prepare" => StepsLeft = 13 * NamespacesLeft(cur) + 5
  /\ pc \in {"role", "subscribe"} => StepsLeft = 13 * NamespacesLeft(cur) + 4
  /\ pc \in {"binding", "plan"} => StepsLeft = 13 * NamespacesLeft(cur) + 3
  /\ pc \in {"deployment", "csvWait"} => StepsLeft = 13 * NamespacesLeft(cur) + 2
  /\ pc = "ready" => StepsLeft = 13 * NamespacesLeft(cur) + 1
<1>1. pc \in {"exists", "image", "crdUpgrade", "prepare", "role", "subscribe", "binding", "plan", "deployment",
              "csvWait", "ready"}
        => StepsLeft = 13 * NamespacesLeft(cur) + InstanceStep[pc]
  BY DEF StepsLeft, TeardownLabels, InstanceStep
<1>2. /\ InstanceStep["exists"] = 12 /\ InstanceStep["image"] = 11 /\ InstanceStep["crdUpgrade"] = 6
      /\ InstanceStep["prepare"] = 5 /\ InstanceStep["role"] = 4 /\ InstanceStep["subscribe"] = 4
      /\ InstanceStep["binding"] = 3 /\ InstanceStep["plan"] = 3 /\ InstanceStep["deployment"] = 2
      /\ InstanceStep["csvWait"] = 2 /\ InstanceStep["ready"] = 1
  BY DEF InstanceStep
<1> QED BY <1>1, <1>2

LEMMA OtherValues ==
  /\ pc = "idle" => StepsLeft = 0
  /\ pc = "olmCheck" => StepsLeft = 39
  /\ pc = "olmNsDelete" => StepsLeft = 41
  /\ pc = "csvDelete" => StepsLeft = 42
  /\ pc = "subDelete" => StepsLeft = 43
  /\ pc = "olmImage" => StepsLeft = 44
  /\ pc = "others" => StepsLeft = 61
  /\ pc = "detect" => StepsLeft = 62
  /\ pc = "crdInstall" => StepsLeft = 78
  /\ pc = "crdCheck" => StepsLeft = 79
  /\ pc = "all" => StepsLeft = 50 + 5 * NamespacesLeft(cur)
  /\ pc = "stale" => StepsLeft = 67 + 5 * NamespacesLeft(cur)
<1>1. pc \in {"idle", "olmCheck", "olmNsDelete", "csvDelete", "subDelete", "olmImage", "others", "detect", "crdInstall",
              "crdCheck"}
        => StepsLeft = OtherStep[pc]
  BY DEF StepsLeft, TeardownLabels, InstanceStep
<1>2. /\ OtherStep["idle"] = 0 /\ OtherStep["olmCheck"] = 39 /\ OtherStep["olmNsDelete"] = 41
      /\ OtherStep["csvDelete"] = 42 /\ OtherStep["subDelete"] = 43 /\ OtherStep["olmImage"] = 44
      /\ OtherStep["others"] = 61 /\ OtherStep["detect"] = 62 /\ OtherStep["crdInstall"] = 78
      /\ OtherStep["crdCheck"] = 79
  BY DEF OtherStep
<1>3. /\ pc = "all" => StepsLeft = 50 + 5 * NamespacesLeft(cur)
      /\ pc = "stale" => StepsLeft = 67 + 5 * NamespacesLeft(cur)
  BY DEF StepsLeft, TeardownLabels, InstanceStep
<1> QED BY <1>1, <1>2, <1>3

LEMMA NamespaceNumbers ==
  /\ NamespacesLeft("system") = 2 /\ NamespacesLeft("central") = 1 /\ NamespacesLeft("sensor") = 0
  /\ After("system") = "central" /\ After("central") = "sensor"
  /\ \A n \in AllOperatorNamespaces : NamespacesLeft(n) \in 0 .. 2
  BY DEF NamespacesLeft, After, AllOperatorNamespaces

LEMMA StepsInRange == ProcessTypeOK => StepsLeft \in 0 .. 79
<1> SUFFICES ASSUME ProcessTypeOK PROVE StepsLeft \in 0 .. 79
  OBVIOUS
<1>1. NamespacesLeft(cur) \in 0 .. 2 /\ pc \in Labels /\ ret \in ReturnPoints
  BY NamespaceNumbers DEF ProcessTypeOK
<1>2. CASE pc \in TeardownLabels
  BY <1>1, <1>2, TeardownNumbers, TeardownValues DEF ReturnPoints
<1>3. CASE pc \in {"exists", "image", "crdUpgrade", "prepare", "role", "subscribe", "binding", "plan", "deployment",
                   "csvWait", "ready"}
  BY <1>1, <1>3, InstanceValues
<1>4. CASE pc \in {"idle", "olmCheck", "olmNsDelete", "csvDelete", "subDelete", "olmImage", "others", "detect", "crdInstall",
                   "crdCheck", "all", "stale"}
  BY <1>1, <1>4, OtherValues
<1> QED BY <1>1, <1>2, <1>3, <1>4 DEF Labels, TeardownLabels

\* A planned instance is followed by a later one, and a namespace by the next.
LEMMA NextInstanceAdvances ==
  ASSUME ProcessTypeOK, cur \in OperatorInstances(cfg), NextInstance
  PROVE  \/ pc' = "idle"
         \/ pc' = "exists" /\ cur = "central" /\ cur' = "sensor"
  BY DEF ProcessTypeOK, Configs, NextInstance, OperatorInstances, LastInstance, HasMixedVersions, Finish, Jump, After

\* The steps of roxie, one by one.
LEMMA RoxieAdvances ==
  ASSUME ProcessTypeOK, ControlOK, RoxieStep
  PROVE  \/ StepsLeft' < StepsLeft
         \/ StepsLeft' = StepsLeft /\ \E c \in crdTodo : crdTodo' = crdTodo \ {c}
<1> DEFINE n == NamespacesLeft(cur)
<1>1. cur \in AllOperatorNamespaces /\ n \in 0 .. 2
  BY NamespaceNumbers DEF ProcessTypeOK
<1>2. /\ cur = "system" => n = 2
      /\ cur = "central" => n = 1
      /\ cur = "sensor" => n = 0
      /\ cur' = "system" => NamespacesLeft(cur)' = 2
      /\ cur' = "central" => NamespacesLeft(cur)' = 1
      /\ cur' = "sensor" => NamespacesLeft(cur)' = 0
      /\ cur' = cur => NamespacesLeft(cur)' = n
      /\ After("system") = "central" /\ After("central") = "sensor"
  BY NamespaceNumbers DEF NamespacesLeft
<1>3. /\ pc \in TeardownLabels <=> pc \in {"nsDelete", "bindingDelete", "roleDelete", "nsWait"}
      /\ (pc \in TeardownLabels)' <=> pc' \in {"nsDelete", "bindingDelete", "roleDelete", "nsWait"}
  BY DEF TeardownLabels
<1>4. /\ (/\ pc = "exists" => StepsLeft = 13 * NamespacesLeft(cur) + 12
          /\ pc = "image" => StepsLeft = 13 * NamespacesLeft(cur) + 11
          /\ pc = "crdUpgrade" => StepsLeft = 13 * NamespacesLeft(cur) + 6
          /\ pc = "prepare" => StepsLeft = 13 * NamespacesLeft(cur) + 5
          /\ pc \in {"role", "subscribe"} => StepsLeft = 13 * NamespacesLeft(cur) + 4
          /\ pc \in {"binding", "plan"} => StepsLeft = 13 * NamespacesLeft(cur) + 3
          /\ pc \in {"deployment", "csvWait"} => StepsLeft = 13 * NamespacesLeft(cur) + 2
          /\ pc = "ready" => StepsLeft = 13 * NamespacesLeft(cur) + 1)'
  BY InstanceValues, PTL
<1>5. (/\ pc = "idle" => StepsLeft = 0
       /\ pc = "olmCheck" => StepsLeft = 39
       /\ pc = "olmNsDelete" => StepsLeft = 41
       /\ pc = "csvDelete" => StepsLeft = 42
       /\ pc = "subDelete" => StepsLeft = 43
       /\ pc = "olmImage" => StepsLeft = 44
       /\ pc = "others" => StepsLeft = 61
       /\ pc = "detect" => StepsLeft = 62
       /\ pc = "crdInstall" => StepsLeft = 78
       /\ pc = "crdCheck" => StepsLeft = 79
       /\ pc = "all" => StepsLeft = 50 + 5 * NamespacesLeft(cur)
       /\ pc = "stale" => StepsLeft = 67 + 5 * NamespacesLeft(cur))'
  BY OtherValues, PTL
<1>6. (pc \in TeardownLabels =>
         /\ ret = "replace" => StepsLeft = 13 * NamespacesLeft(cur) + 7 + TeardownStep[pc]
         /\ ret = "olm"     => StepsLeft = 40
         /\ ret = "allRBAC" => StepsLeft = 39 + 2 * NamespacesLeft(cur) + TeardownStep[pc]
         /\ ret = "all"     => StepsLeft = 46 + 5 * NamespacesLeft(cur) + TeardownStep[pc]
         /\ ret \in {"stale", "none"} => StepsLeft = 63 + 5 * NamespacesLeft(cur) + TeardownStep[pc])'
  BY TeardownValues, PTL
<1>7. (/\ pc = "nsDelete" => TeardownStep[pc] = 3
       /\ pc = "bindingDelete" => TeardownStep[pc] = 2
       /\ pc = "roleDelete" => TeardownStep[pc] = 1
       /\ pc = "nsWait" => TeardownStep[pc] = 0)'
  BY TeardownNumbers, PTL
<1> HIDE DEF n
<1> USE DEF Jump, Goto, Finish
<1>10. CASE EnsureCRDsInstalled
  BY <1>2, <1>5, <1>10, OtherValues DEF EnsureCRDsInstalled
<1>11. CASE ApplyCRD("crdInstall", "stale")
  <2>1. cur = "system" /\ pc = "crdInstall"
    BY <1>11 DEF ApplyCRD, ControlOK
  <2>2. cur' = "system" /\ (pc' = "stale" \/ (pc' = "crdInstall" /\ \E c \in crdTodo : crdTodo' = crdTodo \ {c}))
    BY <1>11, <2>1 DEF ApplyCRD
  <2> QED BY <1>2, <1>5, <2>1, <2>2, OtherValues
<1>12. CASE ApplyCRD("crdUpgrade", "prepare")
  <2>1. pc = "crdUpgrade" /\ cur' = cur
        /\ (pc' = "prepare" \/ (pc' = "crdUpgrade" /\ \E c \in crdTodo : crdTodo' = crdTodo \ {c}))
    BY <1>12 DEF ApplyCRD
  <2>2. StepsLeft = 13 * n + 6
    BY <2>1, InstanceValues DEF n
  <2>3. (pc' = "prepare" /\ StepsLeft' = 13 * n + 5) \/ (pc' = "crdUpgrade" /\ StepsLeft' = 13 * n + 6)
    BY <1>2, <1>4, <2>1
  <2> QED BY <1>1, <2>1, <2>2, <2>3
<1>13. CASE TeardownStaleOperatorNamespaces
  <2>1. StepsLeft = 67 + 5 * n
    BY <1>13, OtherValues DEF TeardownStaleOperatorNamespaces, n
  <2>2. \/ pc' = "detect"
        \/ pc' = "stale" /\ cur # "sensor" /\ cur' = After(cur)
        \/ pc' = "nsDelete" /\ ret' = "stale" /\ cur' = cur
    BY <1>13 DEF TeardownStaleOperatorNamespaces, NextStale
  <2>3. CASE pc' = "detect"
    BY <1>1, <1>5, <2>1, <2>3
  <2>4. CASE pc' = "stale" /\ cur # "sensor" /\ cur' = After(cur)
    BY <1>1, <1>2, <1>5, <2>1, <2>4 DEF AllOperatorNamespaces
  <2>5. CASE pc' = "nsDelete" /\ ret' = "stale" /\ cur' = cur
    <3>1. StepsLeft' = 63 + 5 * n + 3
      BY <1>2, <1>3, <1>6, <1>7, <2>5
    <3> QED BY <1>1, <2>1, <3>1
  <2> QED BY <2>2, <2>3, <2>4, <2>5
<1>14. CASE DetectOperatorDeploymentMode
  <2>1. StepsLeft = 62
    BY <1>14, OtherValues DEF DetectOperatorDeploymentMode
  <2>2. \/ pc' \in {"olmImage", "subDelete", "olmCheck", "others"}
        \/ pc' = "all" /\ cur' = "system"
        \/ pc' = "exists" /\ cur' \in {"central", "system"}
    BY <1>14 DEF DetectOperatorDeploymentMode, OnDetected, FirstInstance
  <2> QED BY <1>2, <1>4, <1>5, <2>1, <2>2
<1>15. CASE TeardownOperatorElsewhere
  <2>1. StepsLeft = 61
    BY <1>15, OtherValues DEF TeardownOperatorElsewhere
  <2>2. pc' = "idle" \/ (pc' = "all" /\ cur' = "system")
    BY <1>15 DEF TeardownOperatorElsewhere
  <2> QED BY <1>2, <1>5, <2>1, <2>2
<1>16. CASE DeleteOperatorNamespace \/ DeleteClusterRoleBinding \/ (DeleteClusterRole /\ ret # "allRBAC")
  <2>1. /\ UNCHANGED <<cur, ret>>
        /\ \/ pc = "nsDelete" /\ pc' = "bindingDelete"
           \/ pc = "bindingDelete" /\ pc' = "roleDelete"
           \/ pc = "roleDelete" /\ pc' = "nsWait"
    BY <1>16 DEF DeleteOperatorNamespace, DeleteNamespace, DeleteClusterRoleBinding, DeleteClusterRole
  <2>2. TeardownStep[pc]' \in 0 .. 2 /\ TeardownStep[pc] = TeardownStep[pc]' + 1
    BY <1>7, <2>1, TeardownNumbers
  <2>3. ret \in {"stale", "replace", "all", "allRBAC"}
    BY <2>1 DEF ControlOK
  <2> DEFINE t == TeardownStep[pc]'
  <2>4. /\ ret = "replace" => StepsLeft = 13 * n + 7 + (t + 1) /\ StepsLeft' = 13 * n + 7 + t
        /\ ret = "allRBAC" => StepsLeft = 39 + 2 * n + (t + 1) /\ StepsLeft' = 39 + 2 * n + t
        /\ ret = "all" => StepsLeft = 46 + 5 * n + (t + 1) /\ StepsLeft' = 46 + 5 * n + t
        /\ ret = "stale" => StepsLeft = 63 + 5 * n + (t + 1) /\ StepsLeft' = 63 + 5 * n + t
    BY <1>2, <1>3, <1>6, <2>1, <2>2, TeardownValues DEF n
  <2>5. t \in 0 .. 2
    BY <2>2
  <2> HIDE DEF t
  <2> QED BY <1>1, <2>3, <2>4, <2>5
<1>17. CASE DeleteClusterRole /\ ret = "allRBAC"
  <2>1. pc = "roleDelete"
    BY <1>17 DEF DeleteClusterRole
  <2>2. StepsLeft = 39 + 2 * n + 1
    BY <1>3, <1>17, <2>1, TeardownNumbers, TeardownValues DEF n
  <2>3. \/ cur # "sensor" /\ pc' = "bindingDelete" /\ cur' = After(cur) /\ ret' = "allRBAC"
        \/ pc' \in {"idle", "olmCheck"}
    BY <1>17 DEF DeleteClusterRole, NextRBAC
  <2>4. CASE cur # "sensor" /\ pc' = "bindingDelete" /\ cur' = After(cur) /\ ret' = "allRBAC"
    <3>1. StepsLeft' = 39 + 2 * NamespacesLeft(cur)' + 2
      BY <1>3, <1>6, <1>7, <2>4
    <3> QED BY <1>1, <1>2, <2>2, <2>4, <3>1 DEF AllOperatorNamespaces
  <2>5. CASE pc' \in {"idle", "olmCheck"}
    BY <1>1, <1>5, <2>2, <2>5
  <2> QED BY <2>3, <2>4, <2>5
<1>18. CASE WaitForNamespaceDeletion
  <2>1. pc = "nsWait" /\ AfterTeardown /\ ret \in {"stale", "replace", "all", "olm"}
    BY <1>18 DEF WaitForNamespaceDeletion, ControlOK
  <2>2. CASE ret = "stale"
    <3>1. StepsLeft = 63 + 5 * n
      BY <1>1, <1>3, <2>1, <2>2, TeardownNumbers, TeardownValues DEF n
    <3>2. pc' = "detect" \/ (pc' = "stale" /\ cur # "sensor" /\ cur' = After(cur))
      BY <2>1, <2>2 DEF AfterTeardown, NextStale
    <3> QED BY <1>1, <1>2, <1>5, <3>1, <3>2 DEF AllOperatorNamespaces
  <2>3. CASE ret = "replace"
    <3>1. StepsLeft = 13 * n + 7
      BY <1>1, <1>3, <2>1, <2>3, TeardownNumbers, TeardownValues DEF n
    <3>2. pc' \in {"crdUpgrade", "prepare"} /\ cur' = cur
      BY <2>1, <2>3 DEF AfterTeardown, DeployInstance
    <3>3. StepsLeft' \in {13 * n + 6, 13 * n + 5}
      BY <1>2, <1>4, <3>2
    <3> QED BY <1>1, <3>1, <3>3
  <2>4. CASE ret = "all"
    <3>1. StepsLeft = 46 + 5 * n
      BY <1>1, <1>3, <2>1, <2>4, TeardownNumbers, TeardownValues DEF n
    <3>2. \/ pc' = "all" /\ cur # "sensor" /\ cur' = After(cur)
          \/ pc' = "bindingDelete" /\ cur' = "system" /\ ret' = "allRBAC"
      BY <2>1, <2>4 DEF AfterTeardown
    <3>3. CASE pc' = "all" /\ cur # "sensor" /\ cur' = After(cur)
      BY <1>1, <1>2, <1>5, <3>1, <3>3 DEF AllOperatorNamespaces
    <3>4. CASE pc' = "bindingDelete" /\ cur' = "system" /\ ret' = "allRBAC"
      <4>1. StepsLeft' = 45
        BY <1>2, <1>3, <1>6, <1>7, <3>4
      <4> QED BY <1>1, <3>1, <4>1
    <3> QED BY <3>2, <3>3, <3>4
  <2>5. CASE ret = "olm"
    <3>1. StepsLeft = 40
      BY <1>3, <2>1, <2>5, TeardownValues
    <3>2. pc' \in {"idle", "olmCheck"} \/ (pc' = "exists" /\ cur' \in {"central", "system"})
      BY <2>1, <2>5 DEF AfterTeardown, FirstInstance
    <3> QED BY <1>2, <1>4, <1>5, <3>1, <3>2
  <2> QED BY <2>1, <2>2, <2>3, <2>4, <2>5
<1>19. CASE TeardownOperatorNonOLM
  <2>1. StepsLeft = 50 + 5 * n
    BY <1>19, OtherValues DEF TeardownOperatorNonOLM, n
  <2>2. \/ pc' = "nsDelete" /\ ret' = "all" /\ cur' = cur
        \/ pc' = "all" /\ cur # "sensor" /\ cur' = After(cur)
        \/ pc' = "bindingDelete" /\ cur' = "system" /\ ret' = "allRBAC"
    BY <1>19 DEF TeardownOperatorNonOLM
  <2>3. CASE pc' = "nsDelete" /\ ret' = "all" /\ cur' = cur
    <3>1. StepsLeft' = 46 + 5 * n + 3
      BY <1>2, <1>3, <1>6, <1>7, <2>3
    <3> QED BY <1>1, <2>1, <3>1
  <2>4. CASE pc' = "all" /\ cur # "sensor" /\ cur' = After(cur)
    BY <1>1, <1>2, <1>5, <2>1, <2>4 DEF AllOperatorNamespaces
  <2>5. CASE pc' = "bindingDelete" /\ cur' = "system" /\ ret' = "allRBAC"
    <3>1. StepsLeft' = 45
      BY <1>2, <1>3, <1>6, <1>7, <2>5
    <3> QED BY <1>1, <2>1, <3>1
  <2> QED BY <2>2, <2>3, <2>4, <2>5
<1>20. CASE DeleteSubscription \/ DeleteCSV
  BY <1>5, <1>20, OtherValues DEF DeleteSubscription, DeleteCSV
<1>21. CASE DeleteOLMNamespace
  <2>1. StepsLeft = 41 /\ pc' = "nsWait" /\ ret' = "olm"
    BY <1>21, OtherValues DEF DeleteOLMNamespace
  <2> QED BY <1>3, <1>6, <2>1
<1>22. CASE CheckOperatorExists
  <2>1. pc = "exists" /\ cur' = cur /\ pc' \in {"image", "crdUpgrade", "prepare"}
    BY <1>22 DEF CheckOperatorExists, DeployInstance
  <2>2. StepsLeft = 13 * n + 12
    BY <2>1, InstanceValues DEF n
  <2>3. StepsLeft' \in {13 * n + 11, 13 * n + 6, 13 * n + 5}
    BY <1>2, <1>4, <2>1
  <2> QED BY <1>1, <2>2, <2>3
<1>23. CASE CheckOperatorImage
  <2>1. pc = "image" /\ cur \in OperatorInstances(cfg)
    BY <1>23 DEF CheckOperatorImage, ControlOK, InstanceLabels
  <2>2. StepsLeft = 13 * n + 11
    BY <2>1, InstanceValues DEF n
  <2>3. NextInstance \/ (pc' = "nsDelete" /\ ret' = "replace" /\ cur' = cur)
    BY <1>23 DEF CheckOperatorImage
  <2>4. CASE NextInstance
    <3>1. pc' = "idle" \/ (pc' = "exists" /\ cur = "central" /\ cur' = "sensor")
      BY <2>1, <2>4, NextInstanceAdvances
    <3> QED BY <1>1, <1>2, <1>4, <1>5, <2>2, <3>1
  <2>5. CASE pc' = "nsDelete" /\ ret' = "replace" /\ cur' = cur
    <3>1. StepsLeft' = 13 * n + 7 + 3
      BY <1>2, <1>3, <1>6, <1>7, <2>5
    <3> QED BY <1>1, <2>2, <3>1
  <2> QED BY <2>3, <2>4, <2>5
<1>24. CASE CheckOLMOperatorImage
  BY <1>5, <1>24, OtherValues DEF CheckOLMOperatorImage
<1>25. CASE CheckOLMInstalled
  <2>1. StepsLeft = 39 /\ cur = "system"
    BY <1>25, OtherValues DEF CheckOLMInstalled, ControlOK, OLMLabels
  <2>2. pc' = "idle" \/ (pc' = "prepare" /\ cur' = "system")
    BY <1>25, <2>1 DEF CheckOLMInstalled
  <2> QED BY <1>2, <1>4, <1>5, <2>1, <2>2
<1>26. CASE PrepareNamespace
  <2>1. pc = "prepare" /\ (pc' = "idle" \/ (pc' \in {"subscribe", "role"} /\ cur' = cur))
    BY <1>26 DEF PrepareNamespace
  <2>2. StepsLeft = 13 * n + 5
    BY <2>1, InstanceValues DEF n
  <2>3. StepsLeft' \in {0, 13 * n + 4}
    BY <1>2, <1>4, <1>5, <2>1
  <2> QED BY <1>1, <2>2, <2>3
<1>27. CASE CreateClusterRole \/ CreateSubscription
  <2>1. pc \in {"role", "subscribe"} /\ (pc' = "idle" \/ (pc' \in {"binding", "plan"} /\ cur' = cur))
    BY <1>27 DEF CreateClusterRole, CreateSubscription
  <2>2. StepsLeft = 13 * n + 4
    BY <2>1, InstanceValues DEF n
  <2>3. StepsLeft' \in {0, 13 * n + 3}
    BY <1>2, <1>4, <1>5, <2>1
  <2> QED BY <1>1, <2>2, <2>3
<1>28. CASE CreateClusterRoleBinding \/ WaitForAndApproveInstallPlan
  <2>1. pc \in {"binding", "plan"} /\ (pc' = "idle" \/ (pc' \in {"deployment", "csvWait"} /\ cur' = cur))
    BY <1>28 DEF CreateClusterRoleBinding, WaitForAndApproveInstallPlan
  <2>2. StepsLeft = 13 * n + 3
    BY <2>1, InstanceValues DEF n
  <2>3. StepsLeft' \in {0, 13 * n + 2}
    BY <1>2, <1>4, <1>5, <2>1
  <2> QED BY <1>1, <2>2, <2>3
<1>29. CASE CreateDeployment \/ WaitForCSVSuccess
  <2>1. pc \in {"deployment", "csvWait"} /\ (pc' = "idle" \/ (pc' = "ready" /\ cur' = cur))
    BY <1>29 DEF CreateDeployment, WaitForCSVSuccess
  <2>2. StepsLeft = 13 * n + 2
    BY <2>1, InstanceValues DEF n
  <2>3. StepsLeft' \in {0, 13 * n + 1}
    BY <1>2, <1>4, <1>5, <2>1
  <2> QED BY <1>1, <2>2, <2>3
<1>30. CASE WaitForOperatorReady
  <2>1. pc = "ready" /\ cur \in OperatorInstances(cfg) /\ (NextInstance \/ pc' = "idle")
    BY <1>30 DEF WaitForOperatorReady, ControlOK, InstanceLabels
  <2>2. StepsLeft = 13 * n + 1
    BY <2>1, InstanceValues DEF n
  <2>3. pc' = "idle" \/ (pc' = "exists" /\ cur = "central" /\ cur' = "sensor")
    BY <2>1, NextInstanceAdvances
  <2> QED BY <1>1, <1>2, <1>4, <1>5, <2>2, <2>3
<1> QED
  BY <1>10, <1>11, <1>12, <1>13, <1>14, <1>15, <1>16, <1>17, <1>18, <1>19, <1>20, <1>21, <1>22, <1>23, <1>24, <1>25,
     <1>26, <1>27, <1>28, <1>29, <1>30 DEF RoxieStep

\* Each step that roxie takes, with whatever answers and faults, uses up one of the
\* at most 79 that its command has left, or one of the CRDs it has to apply; what
\* the namespace controller and OLM do gives none back.
THEOREM CommandAdvancesCorrect == Spec => CommandAdvances
<1> DEFINE Advance ==
             /\ StepsLeft \in 0 .. 79 /\ StepsLeft' \in 0 .. 79
             /\ RoxieStep => \/ StepsLeft' < StepsLeft
                             \/ StepsLeft' = StepsLeft /\ \E c \in crdTodo : crdTodo' = crdTodo \ {c}
             /\ GiveUp => StepsLeft' = 0
             /\ ClusterStep => StepsLeft' = StepsLeft
<1> DEFINE Inv == TypeOK /\ ControlOK
<1>1. Init => Inv
  BY IndInvInit DEF IndInv
<1>2. Inv /\ [Next]_vars => Inv'
  BY TypeStep, ControlOKStep DEF TypeOK
<1>3. Inv /\ Inv' => [Advance]_vars
  <2> SUFFICES ASSUME Inv, Inv' PROVE Advance
    OBVIOUS
  <2>1. StepsLeft \in 0 .. 79
    BY StepsInRange DEF TypeOK
  <2>2. StepsLeft' \in 0 .. 79
    <3>1. (ProcessTypeOK => StepsLeft \in 0 .. 79)'
      BY StepsInRange, PTL
    <3> QED BY <3>1 DEF TypeOK
  <2>3. RoxieStep => \/ StepsLeft' < StepsLeft
                     \/ StepsLeft' = StepsLeft /\ \E c \in crdTodo : crdTodo' = crdTodo \ {c}
    BY RoxieAdvances DEF TypeOK
  <2>4. ASSUME GiveUp PROVE StepsLeft' = 0
    <3>1. pc' = "idle"
      BY <2>4 DEF GiveUp, Finish
    <3>2. (pc = "idle" => StepsLeft = 0)'
      BY OtherValues, PTL
    <3> QED BY <3>1, <3>2
  <2>5. ASSUME ClusterStep PROVE StepsLeft' = StepsLeft
    <3>1. UNCHANGED <<pc, cur, ret>>
      BY <2>5 DEF ClusterStep, NamespaceContentDeleted, NamespaceRemoved, OLMProposesInstallPlan, OLMInstalls, OLMCollects,
         process
    <3> QED BY <3>1 DEF StepsLeft, StepsInTeardown, NamespacesLeft, TeardownStep, InstanceStep, OtherStep, TeardownLabels
  <2> QED BY <2>1, <2>2, <2>3, <2>4, <2>5
<1> HIDE DEF Advance, Inv
<1>4. Spec => [][Advance]_vars
  BY <1>1, <1>2, <1>3, PTL DEF Spec
<1> QED BY <1>4 DEF CommandAdvances, Advance
=============================================================================
