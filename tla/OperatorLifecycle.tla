-------------------------- MODULE OperatorLifecycle --------------------------
(***************************************************************************)
(* How roxie installs, replaces and removes the RHACS operator             *)
(* (internal/deployer/deploy_via_operator.go, operator.go, operator_olm.go *)
(* and operator_instances.go).                                             *)
(*                                                                         *)
(* One roxie process runs at a time; it drives the cluster one kubectl     *)
(* call per step.  Between two calls the namespace controller and OLM move *)
(* on their own, and roxie can die or give up with an error.  A later run  *)
(* starts from whatever cluster state the earlier one left, with the same  *)
(* or with another configuration.                                          *)
(*                                                                         *)
(* Every error that a function of the code hands up ends the command, just *)
(* as a killed process does: both are the action GiveUp.  Only the errors  *)
(* that the code swallows are modelled one by one, as faults.              *)
(***************************************************************************)
EXTENDS Integers

CONSTANTS
  MaxVersion,   \* operator versions are 1 .. MaxVersion, in semver order
  Crds,         \* names of the required CRDs
  MaxFaults,    \* bound on the errors that roxie swallows
  MaxGiveUps,   \* bound on the commands that end with an error or a kill
  Impatient,    \* may a command start while a namespace is still terminating?
  OLMInstalled  \* does the cluster serve the OLM resource types?

ASSUME ConstantsAssumption ==
  /\ MaxVersion \in Nat \ {0}
  /\ Crds # {}
  /\ MaxFaults \in Nat
  /\ MaxGiveUps \in Nat
  /\ Impatient \in BOOLEAN
  /\ OLMInstalled \in BOOLEAN

VARIABLES
  \* the cluster
  ns,        \* phase of each operator namespace
  dep,       \* the operator deployment in each namespace
  sub,       \* the OLM Subscription (it lives in the system namespace)
  csv,       \* version of the OLM ClusterServiceVersion, 0 when there is none
  rbac,      \* the cluster-scoped RBAC objects made for each namespace
  crd,       \* version of each CRD, 0 when it is not installed
  \* the roxie process
  pc, cmd, cfg, cur, ret, crdTodo, result,
  \* budgets, and whether the current command has met a fault
  faults, giveUps, faulty

cluster == <<ns, dep, sub, csv, rbac, crd>>
process == <<pc, cmd, cfg, cur, ret, crdTodo, result>>
vars == <<ns, dep, sub, csv, rbac, crd,
          pc, cmd, cfg, cur, ret, crdTodo, result, faults, giveUps, faulty>>

Versions == 1 .. MaxVersion
VersionOrNone == 0 .. MaxVersion

(***************************************************************************)
(* The deployment plan of a configuration.                                 *)
(***************************************************************************)
AllOperatorNamespaces == {"system", "central", "sensor"}

\* The order in which the namespaces, and the planned instances, are visited.
After(n) == IF n = "system" THEN "central" ELSE "sensor"

\* A configuration is what version resolution leaves: the version of each
\* component's operator and the OLM switch.  Validation rejects OLM together
\* with mixed versions.
Configs == {c \in [central : Versions, sensor : Versions, olm : BOOLEAN] :
              c.olm => c.central = c.sensor}

HasMixedVersions(c) == c.central # c.sensor

\* Two instances for mixed versions, otherwise one in the system namespace.
OperatorInstances(c) == IF HasMixedVersions(c) THEN {"central", "sensor"} ELSE {"system"}
FirstInstance(c) == IF HasMixedVersions(c) THEN "central" ELSE "system"
LastInstance(c)  == IF HasMixedVersions(c) THEN "sensor" ELSE "system"
InstanceVersion(c, n) == IF n = "sensor" THEN c.sensor ELSE c.central
NewestOperatorVersion(c) == IF c.central >= c.sensor THEN c.central ELSE c.sensor

\* The kinds that the operator of a namespace reconciles: the two instances of
\* a mixed plan each have the other kind's reconciler switched off.
Kinds == {"Central", "SecuredCluster"}
Reconciles(n) == CASE n = "system"  -> Kinds
                   [] n = "central" -> {"Central"}
                   [] n = "sensor"  -> {"SecuredCluster"}

NoOperator == [ver |-> 0, olm |-> FALSE]
NoSubscription == [ver |-> 0, plan |-> "none"]
OperatorExists(n) == dep[n] # NoOperator

(***************************************************************************)
(* Control flow of the process and the faults it swallows.                 *)
(***************************************************************************)
Jump(label, n, r, crds) ==
  /\ pc' = label /\ cur' = n /\ ret' = r /\ crdTodo' = crds
  /\ UNCHANGED <<cmd, cfg, result>>

Goto(label) == Jump(label, cur, ret, crdTodo)

Finish(outcome) ==
  /\ pc' = "idle" /\ result' = outcome
  /\ cur' = "system" /\ ret' = "none" /\ crdTodo' = {}
  /\ UNCHANGED <<cmd, cfg>>

NoFault == UNCHANGED <<faults, faulty>>
Fault == faults < MaxFaults /\ faults' = faults + 1 /\ faulty' = "yes"

\* A kubectl get whose error, whatever its cause, is read as "does not exist".
Sees(exists, seen) ==
  \/ (seen <=> exists) /\ NoFault
  \/ exists /\ ~seen /\ Fault

\* A delete with IgnoreErrors: done, or failed and nobody notices.
Silently(done, notDone) ==
  \/ done /\ NoFault
  \/ notDone /\ Fault

\* Deploy one instance: only the newest planned version applies its CRDs.
DeployInstanceMutant(n) ==
  Jump("prepare", n, "none", {})
DeployInstance(n) ==
  IF InstanceVersion(cfg, n) = NewestOperatorVersion(cfg)
  THEN Jump("crdUpgrade", n, "none", Crds)
  ELSE Jump("prepare", n, "none", {})

\* The next instance of the plan, or the end of the command.
NextInstance ==
  IF cur = LastInstance(cfg) THEN Finish("ok")
                             ELSE Jump("exists", After(cur), "none", {})

(***************************************************************************)
(* Commands.                                                               *)
(***************************************************************************)
MayStart == pc = "idle" /\ (Impatient \/ \A n \in AllOperatorNamespaces : ns[n] # "terminating")

StartDeploy(c) ==
  /\ MayStart
  /\ pc' = "crdCheck" /\ cmd' = "deploy" /\ cfg' = c /\ result' = "running"
  /\ UNCHANGED <<cur, ret, crdTodo, faults, giveUps, cluster>>
  /\ faulty' = "no"

StartTeardown ==
  /\ MayStart
  /\ pc' = "detect" /\ cmd' = "teardown" /\ result' = "running"
  /\ UNCHANGED <<cfg, cur, ret, crdTodo, faults, giveUps, cluster>>
  /\ faulty' = "no"

\* An error is returned (a failed call, a timeout waiting for readiness, an
\* InstallPlan for an unexpected CSV, ...) or the process is killed.
GiveUp ==
  /\ pc # "idle"
  /\ giveUps < MaxGiveUps
  /\ giveUps' = giveUps + 1
  /\ Finish("failed")
  /\ UNCHANGED <<faults, faulty, cluster>>

(***************************************************************************)
(* ensureCRDsInstalled                                                     *)
(***************************************************************************)
EnsureCRDsInstalled ==
  /\ pc = "crdCheck"
  /\ \E present \in BOOLEAN :
       /\ Sees(\A c \in Crds : crd[c] # 0, present)
       /\ IF present THEN Jump("stale", "system", "none", {})
                     ELSE Jump("crdInstall", "system", "none", Crds)
  /\ UNCHANGED <<cluster, giveUps>>

\* applyCRDsToCluster applies the files one kubectl call at a time.
ApplyCRD(from, to) ==
  /\ pc = from
  /\ \E c \in crdTodo :
       /\ crd' = [crd EXCEPT ![c] = NewestOperatorVersion(cfg)]
       /\ Jump(IF crdTodo = {c} THEN to ELSE from, cur, ret, crdTodo \ {c})
  /\ UNCHANGED <<ns, dep, sub, csv, rbac, faults, giveUps, faulty>>

(***************************************************************************)
(* teardownStaleOperatorNamespaces: one iteration per known namespace.     *)
(***************************************************************************)
IsStaleMutant(n) == n = "system" /\ n \notin OperatorInstances(cfg)
IsStale(n) == n \notin OperatorInstances(cfg)

NextStale ==
  IF cur = "sensor" THEN Jump("detect", "system", "none", {})
                    ELSE Jump("stale", After(cur), "none", {})

TeardownStaleOperatorNamespaces ==
  /\ pc = "stale"
  /\ \/ ~IsStale(cur) /\ NextStale /\ NoFault
     \/ /\ IsStale(cur)
        /\ \E found \in BOOLEAN :
             /\ Sees(OperatorExists(cur) \/ ns[cur] # "absent", found)
             /\ IF found THEN Jump("nsDelete", cur, "stale", {}) ELSE NextStale
  /\ UNCHANGED <<cluster, giveUps>>

(***************************************************************************)
(* detectOperatorDeploymentMode and the decision its three callers make:   *)
(* ensureOperatorDeployed, ensureOperatorDeployedOLM and teardownOperator. *)
(***************************************************************************)
OnDetected(exists, olm) ==
  LET wantsOLM == cmd = "deploy" /\ cfg.olm
      wantsNonOLM == cmd = "deploy" /\ ~cfg.olm
  IN \/ /\ exists /\ olm
        /\ Jump(IF wantsOLM THEN "olmImage" ELSE "subDelete", "system", "none", {})
     \/ ~(exists /\ olm) /\ wantsNonOLM /\ Jump("exists", FirstInstance(cfg), "none", {})
     \/ exists /\ ~olm /\ ~wantsNonOLM /\ Jump("all", "system", "none", {})
     \/ ~exists /\ ~wantsNonOLM /\ Jump(IF wantsOLM THEN "olmCheck" ELSE "others", "system", "none", {})

DetectOperatorDeploymentMode ==
  /\ pc = "detect"
  /\ \E subSeen \in BOOLEAN :
       /\ Sees(sub.ver # 0, subSeen)
       /\ OnDetected(subSeen \/ OperatorExists("system"), subSeen \/ dep["system"].olm)
  /\ UNCHANGED <<cluster, giveUps>>

\* teardownOperator looks for operators outside the system namespace as well.
TeardownOperatorElsewhereMutant ==
  pc = "others" /\ Finish("ok") /\ NoFault /\ UNCHANGED <<cluster, giveUps>>
TeardownOperatorElsewhere ==
  /\ pc = "others"
  /\ \E found \in BOOLEAN :
       /\ Sees(OperatorExists("central") \/ OperatorExists("sensor"), found)
       /\ IF found THEN Jump("all", "system", "none", {}) ELSE Finish("ok")
  /\ UNCHANGED <<cluster, giveUps>>

(***************************************************************************)
(* teardownOperatorNonOLMInNamespace, for the namespace cur.               *)
(***************************************************************************)
DeleteNamespace(to) ==
  /\ Silently(ns' = [ns EXCEPT ![cur] = IF @ = "absent" THEN @ ELSE "terminating"],
              UNCHANGED ns)
  /\ Goto(to)
  /\ UNCHANGED <<dep, sub, csv, rbac, crd, giveUps>>

DeleteOperatorNamespace == pc = "nsDelete" /\ DeleteNamespace("bindingDelete")

DeleteRBAC(object) ==
  /\ Silently(rbac' = [rbac EXCEPT ![cur] = @ \ {object}], UNCHANGED rbac)
  /\ UNCHANGED <<ns, dep, sub, csv, crd, giveUps>>

DeleteClusterRoleBinding ==
  /\ pc = "bindingDelete"
  /\ DeleteRBAC("binding")
  /\ Goto("roleDelete")

\* teardownAllOperatorClusterRBAC: the same two deletes for every known
\* instance, whether or not its namespace existed; then the caller goes on.
NextRBAC ==
  IF cur # "sensor" THEN Jump("bindingDelete", After(cur), "allRBAC", {})
  ELSE IF cmd = "teardown" THEN Finish("ok") ELSE Jump("olmCheck", "system", "none", {})

DeleteClusterRole ==
  /\ pc = "roleDelete"
  /\ DeleteRBAC("role")
  /\ IF ret = "allRBAC" THEN NextRBAC ELSE Goto("nsWait")

\* Where the caller continues once the namespace is gone.
AfterTeardown ==
  \/ ret = "stale" /\ NextStale
  \/ ret = "replace" /\ DeployInstance(cur)
  \/ ret = "all" /\ cur # "sensor" /\ Jump("all", After(cur), "none", {})
  \/ ret = "all" /\ cur = "sensor" /\ Jump("bindingDelete", "system", "allRBAC", {})
  \/ ret = "olm" /\ cmd = "teardown" /\ Finish("ok")
  \/ ret = "olm" /\ cmd = "deploy" /\ cfg.olm /\ Jump("olmCheck", "system", "none", {})
  \/ ret = "olm" /\ cmd = "deploy" /\ ~cfg.olm /\ Jump("exists", FirstInstance(cfg), "none", {})

\* The wait ends when the namespace is gone, or when its five minutes are
\* over, which is only warned about; they always run out when the namespace is
\* not being deleted at all.  A failed get is read as gone.
WaitEndsMutant(n) == NoFault
WaitEnds(n) == IF ns[n] = "terminating" THEN Fault ELSE NoFault

WaitForNamespaceDeletionMutant ==
  /\ pc = "nsWait"
  /\ IF ns[cur] = "absent" THEN AfterTeardown ELSE UNCHANGED process
  /\ NoFault
  /\ UNCHANGED <<cluster, giveUps>>
WaitForNamespaceDeletion ==
  /\ pc = "nsWait"
  /\ WaitEnds(cur)
  /\ AfterTeardown
  /\ UNCHANGED <<cluster, giveUps>>

(***************************************************************************)
(* teardownOperatorNonOLM: every namespace that exists, then the cluster   *)
(* RBAC of all three, whether or not the namespace existed.                *)
(***************************************************************************)
TeardownOperatorNonOLM ==
  /\ pc = "all"
  /\ \E found \in BOOLEAN :
       /\ Sees(ns[cur] # "absent", found)
       /\ \/ found /\ Jump("nsDelete", cur, "all", {})
          \/ ~found /\ cur # "sensor" /\ Jump("all", After(cur), "none", {})
          \/ ~found /\ cur = "sensor" /\ Jump("bindingDelete", "system", "allRBAC", {})
  /\ UNCHANGED <<cluster, giveUps>>

(***************************************************************************)
(* teardownOperatorOLM.  CatalogSource and OperatorGroup only matter for   *)
(* OLM's resolution of the Subscription and are left out.                  *)
(***************************************************************************)
DeleteSubscription ==
  /\ pc = "subDelete"
  /\ Silently(sub' = NoSubscription, UNCHANGED sub)
  /\ Goto("csvDelete")
  /\ UNCHANGED <<ns, dep, csv, rbac, crd, giveUps>>

DeleteCSV ==
  /\ pc = "csvDelete"
  /\ Silently(csv' = 0, UNCHANGED csv)
  /\ Goto("olmNsDelete")
  /\ UNCHANGED <<ns, dep, sub, rbac, crd, giveUps>>

DeleteOLMNamespace ==
  /\ pc = "olmNsDelete"
  /\ Silently(ns' = [ns EXCEPT ![cur] = IF @ = "absent" THEN @ ELSE "terminating"],
              UNCHANGED ns)
  /\ Jump("nsWait", cur, "olm", {})
  /\ UNCHANGED <<dep, sub, csv, rbac, crd, giveUps>>

(***************************************************************************)
(* ensureOperatorInstanceNonOLM                                            *)
(***************************************************************************)
CheckOperatorExists ==
  /\ pc = "exists"
  /\ \E found \in BOOLEAN :
       /\ Sees(OperatorExists(cur), found)
       /\ IF found THEN Goto("image") ELSE DeployInstance(cur)
  /\ UNCHANGED <<cluster, giveUps>>

\* The images are compared, and nothing else; an error counts as a mismatch.
IsOperatorImageCorrectNewest(n) == dep[n].ver = NewestOperatorVersion(cfg)
IsOperatorImageCorrectAtLeast(n) == dep[n].ver >= InstanceVersion(cfg, n)
IsOperatorImageCorrect(n) == dep[n].ver = InstanceVersion(cfg, n)

CheckOperatorImage ==
  /\ pc = "image"
  /\ \E correct \in BOOLEAN :
       /\ Sees(IsOperatorImageCorrect(cur), correct)
       /\ IF correct THEN NextInstance ELSE Jump("nsDelete", cur, "replace", {})
  /\ UNCHANGED <<cluster, giveUps>>

CheckOLMOperatorImage ==
  /\ pc = "olmImage"
  /\ \E correct \in BOOLEAN :
       /\ Sees(IsOperatorImageCorrect(cur), correct)
       /\ IF correct THEN Finish("ok") ELSE Jump("subDelete", "system", "none", {})
  /\ UNCHANGED <<cluster, giveUps>>

(***************************************************************************)
(* deployOperatorFromCSV and the first steps of deployOperatorViaOLM.      *)
(***************************************************************************)
\* checkOLMInstalled comes first, but after any teardown of the old operator.
CheckOLMInstalled ==
  /\ pc = "olmCheck"
  /\ IF OLMInstalled THEN Goto("prepare") ELSE Finish("failed")
  /\ UNCHANGED <<cluster, faults, giveUps, faulty>>

\* A namespace that is seen, even a terminating one, is used as it is.  The
\* creation of one that was overlooked is refused.
PrepareNamespace ==
  /\ pc = "prepare"
  /\ \E found \in BOOLEAN :
       /\ Sees(ns[cur] # "absent", found)
       /\ \/ found /\ Goto(IF cfg.olm THEN "subscribe" ELSE "role") /\ UNCHANGED ns
          \/ /\ ~found /\ ns[cur] = "absent"
             /\ ns' = [ns EXCEPT ![cur] = "active"]
             /\ Goto(IF cfg.olm THEN "subscribe" ELSE "role")
          \/ ~found /\ ns[cur] # "absent" /\ Finish("failed") /\ UNCHANGED ns
  /\ UNCHANGED <<dep, sub, csv, rbac, crd, giveUps>>

\* The service account (refused outside an active namespace, unless an old one
\* is still there to be updated), then the ClusterRole.
CreateClusterRole ==
  /\ pc = "role"
  /\ \/ ns[cur] # "absent" /\ rbac' = [rbac EXCEPT ![cur] = @ \cup {"role"}] /\ Goto("binding")
     \/ ns[cur] # "active" /\ UNCHANGED rbac /\ Finish("failed")
  /\ UNCHANGED <<ns, dep, sub, csv, crd, faults, giveUps, faulty>>

CreateClusterRoleBinding ==
  /\ pc = "binding"
  /\ rbac' = [rbac EXCEPT ![cur] = @ \cup {"binding"}]
  /\ Goto("deployment")
  /\ UNCHANGED <<ns, dep, sub, csv, crd, faults, giveUps, faulty>>

\* An apply: creation needs an active namespace, an update only the object.
CreateDeployment ==
  /\ pc = "deployment"
  /\ IF ns[cur] = "active" \/ OperatorExists(cur)
     THEN dep' = [dep EXCEPT ![cur] = [ver |-> InstanceVersion(cfg, cur), olm |-> FALSE]] /\ Goto("ready")
     ELSE UNCHANGED dep /\ Finish("failed")
  /\ UNCHANGED <<ns, sub, csv, rbac, crd, faults, giveUps, faulty>>

WaitForOperatorReady ==
  /\ pc = "ready"
  /\ IF OperatorExists(cur) THEN NextInstance ELSE Finish("failed")
  /\ UNCHANGED <<cluster, faults, giveUps, faulty>>

(***************************************************************************)
(* The rest of deployOperatorViaOLM.                                       *)
(***************************************************************************)
CreateSubscription ==
  /\ pc = "subscribe"
  /\ IF ns[cur] = "active" \/ sub.ver # 0
     THEN sub' = [ver |-> cfg.central, plan |-> "none"] /\ Goto("plan")
     ELSE UNCHANGED sub /\ Finish("failed")
  /\ UNCHANGED <<ns, dep, csv, rbac, crd, faults, giveUps, faulty>>

WaitForAndApproveInstallPlan ==
  /\ pc = "plan"
  /\ \/ sub.plan = "pending" /\ sub' = [sub EXCEPT !.plan = "approved"] /\ Goto("csvWait")
     \/ sub.ver = 0 /\ UNCHANGED sub /\ Finish("failed")
  /\ UNCHANGED <<ns, dep, csv, rbac, crd, faults, giveUps, faulty>>

OLMCanInstall ==
  ns["system"] = "active" /\ sub.plan = "approved" /\ csv = 0 /\ ~OperatorExists("system")

WaitForCSVSuccess ==
  /\ pc = "csvWait"
  /\ \/ csv = cfg.central /\ Goto("ready")
     \/ csv # cfg.central /\ ~OLMCanInstall /\ Finish("failed")
  /\ UNCHANGED <<cluster, faults, giveUps, faulty>>

(***************************************************************************)
(* The cluster's own steps.                                                *)
(***************************************************************************)
SystemHoldsOLM == sub # NoSubscription \/ csv # 0

NamespaceContentDeleted(n) ==
  /\ ns[n] = "terminating"
  /\ OperatorExists(n) \/ (n = "system" /\ SystemHoldsOLM)
  /\ dep' = [dep EXCEPT ![n] = NoOperator]
  /\ IF n = "system" THEN sub' = NoSubscription /\ csv' = 0 ELSE UNCHANGED <<sub, csv>>
  /\ UNCHANGED <<ns, rbac, crd, process, faults, giveUps, faulty>>

NamespaceRemoved(n) ==
  /\ ns[n] = "terminating"
  /\ ~OperatorExists(n)
  /\ n = "system" => ~SystemHoldsOLM
  /\ ns' = [ns EXCEPT ![n] = "absent"]
  /\ UNCHANGED <<dep, sub, csv, rbac, crd, process, faults, giveUps, faulty>>

OLMProposesInstallPlan ==
  /\ ns["system"] = "active" /\ sub.ver # 0 /\ sub.plan = "none"
  /\ sub' = [sub EXCEPT !.plan = "pending"]
  /\ UNCHANGED <<ns, dep, csv, rbac, crd, process, faults, giveUps, faulty>>

\* An approved plan installs the CRDs, the CSV and the CSV's deployment.
OLMInstalls ==
  /\ OLMCanInstall
  /\ csv' = sub.ver
  /\ crd' = [c \in Crds |-> sub.ver]
  /\ dep' = [dep EXCEPT !["system"] = [ver |-> sub.ver, olm |-> TRUE]]
  /\ UNCHANGED <<ns, sub, rbac, process, faults, giveUps, faulty>>

\* Without its CSV the deployment is garbage.  Deleting the Subscription may
\* take the CSV with it.
OLMCollects ==
  /\ \/ csv = 0 /\ dep["system"].olm /\ dep' = [dep EXCEPT !["system"] = NoOperator] /\ UNCHANGED csv
     \/ csv # 0 /\ sub.ver = 0 /\ csv' = 0 /\ UNCHANGED dep
  /\ UNCHANGED <<ns, sub, rbac, crd, process, faults, giveUps, faulty>>

(***************************************************************************)
(* The specification.                                                      *)
(***************************************************************************)
Init ==
  /\ ns = [n \in AllOperatorNamespaces |-> "absent"]
  /\ dep = [n \in AllOperatorNamespaces |-> NoOperator]
  /\ sub = NoSubscription
  /\ csv = 0
  /\ rbac = [n \in AllOperatorNamespaces |-> {}]
  /\ crd = [c \in Crds |-> 0]
  /\ pc = "idle" /\ cmd = "teardown" /\ result = "ok"
  /\ cfg = [central |-> 1, sensor |-> 1, olm |-> FALSE]
  /\ cur = "system" /\ ret = "none" /\ crdTodo = {}
  /\ faults = 0 /\ giveUps = 0 /\ faulty = "no"

Start == (\E c \in Configs : StartDeploy(c)) \/ StartTeardown

RoxieStep ==
  \/ EnsureCRDsInstalled
  \/ ApplyCRD("crdInstall", "stale")
  \/ ApplyCRD("crdUpgrade", "prepare")
  \/ TeardownStaleOperatorNamespaces
  \/ DetectOperatorDeploymentMode
  \/ TeardownOperatorElsewhere
  \/ DeleteOperatorNamespace
  \/ DeleteClusterRoleBinding
  \/ DeleteClusterRole
  \/ WaitForNamespaceDeletion
  \/ TeardownOperatorNonOLM
  \/ DeleteSubscription
  \/ DeleteCSV
  \/ DeleteOLMNamespace
  \/ CheckOperatorExists
  \/ CheckOperatorImage
  \/ CheckOLMOperatorImage
  \/ CheckOLMInstalled
  \/ PrepareNamespace
  \/ CreateClusterRole
  \/ CreateClusterRoleBinding
  \/ CreateDeployment
  \/ WaitForOperatorReady
  \/ CreateSubscription
  \/ WaitForAndApproveInstallPlan
  \/ WaitForCSVSuccess

ClusterStep ==
  \/ \E n \in AllOperatorNamespaces : NamespaceContentDeleted(n) \/ NamespaceRemoved(n)
  \/ OLMProposesInstallPlan
  \/ OLMInstalls
  \/ OLMCollects

Next == Start \/ GiveUp \/ RoxieStep \/ ClusterStep

\* roxie keeps executing, namespaces are eventually removed and OLM works.
Fairness == WF_vars(RoxieStep) /\ WF_vars(ClusterStep)

Spec == Init /\ [][Next]_vars /\ Fairness

(***************************************************************************)
(* Properties.                                                             *)
(***************************************************************************)
Labels == {"idle", "crdCheck", "crdInstall", "crdUpgrade", "stale", "detect", "others",
           "nsDelete", "bindingDelete", "roleDelete", "nsWait", "all",
           "subDelete", "csvDelete", "olmNsDelete", "exists", "image", "olmImage", "olmCheck",
           "prepare", "role", "binding", "deployment", "ready",
           "subscribe", "plan", "csvWait"}

ReturnPoints == {"none", "stale", "replace", "all", "allRBAC", "olm"}

ClusterTypeOK ==
  /\ ns \in [AllOperatorNamespaces -> {"absent", "active", "terminating"}]
  /\ dep \in [AllOperatorNamespaces -> [ver : VersionOrNone, olm : BOOLEAN]]
  /\ sub \in [ver : VersionOrNone, plan : {"none", "pending", "approved"}]
  /\ csv \in VersionOrNone
  /\ rbac \in [AllOperatorNamespaces -> SUBSET {"role", "binding"}]
  /\ crd \in [Crds -> VersionOrNone]

ProcessTypeOK ==
  /\ pc \in Labels
  /\ cmd \in {"deploy", "teardown"}
  /\ cfg \in Configs
  /\ cur \in AllOperatorNamespaces
  /\ ret \in ReturnPoints
  /\ crdTodo \in SUBSET Crds
  /\ result \in {"ok", "failed", "running"}

BudgetTypeOK ==
  /\ faults \in 0 .. MaxFaults
  /\ giveUps \in 0 .. MaxGiveUps
  /\ faulty \in {"no", "yes"}

\* Every variable has its type.
TypeOK == ClusterTypeOK /\ ProcessTypeOK /\ BudgetTypeOK

\* No two running operators reconcile the same kind of custom resource, at any
\* moment of any sequence of commands (teardownStaleOperatorNamespaces and the
\* reconciler toggles of OperatorInstances).
NoDoubleReconcile ==
  \A m, n \in AllOperatorNamespaces :
    m # n /\ OperatorExists(m) /\ OperatorExists(n) => Reconciles(m) \cap Reconciles(n) = {}

\* The operators of the plan of c run, and no others.
RunsPlan(c) ==
  \A n \in AllOperatorNamespaces :
    dep[n] = IF n \in OperatorInstances(c)
             THEN [ver |-> InstanceVersion(c, n), olm |-> c.olm]
             ELSE NoOperator

\* They run with their cluster permissions, or with the Subscription and CSV
\* that keep them, in namespaces that are there to stay.
InPlace(c) ==
  /\ RunsPlan(c)
  /\ \A n \in AllOperatorNamespaces :
       ns[n] = IF n \in OperatorInstances(c) THEN "active" ELSE "absent"
  /\ IF c.olm THEN sub.ver = c.central /\ csv = c.central
     ELSE \A n \in OperatorInstances(c) : rbac[n] = {"role", "binding"}

\* A deploy command that reports success leaves exactly its plan running
\* (ensureOperatorDeployed "ensures the required operator instance(s) are
\* deployed").
DeployEstablishesPlan == pc = "idle" /\ cmd = "deploy" /\ result = "ok" => InPlace(cfg)

\* A deploy that meets no fault itself leaves the plan's operators running and
\* no others, whatever faults and interruptions the commands before it met.
DeployRepairs == pc = "idle" /\ cmd = "deploy" /\ result = "ok" /\ faulty = "no" => RunsPlan(cfg)

\* After a successful deploy no CRD is older than the newest operator of the
\* plan (NewestOperatorInstance: CRDs "must be at the newest version").
CrdsAtNewestVersion ==
  pc = "idle" /\ cmd = "deploy" /\ result = "ok" =>
    \A c \in Crds : crd[c] >= NewestOperatorVersion(cfg)

\* After a successful teardown of the operator nothing of it is left: no
\* deployment, no Subscription that could bring one back.
TeardownRemovesOperators ==
  pc = "idle" /\ cmd = "teardown" /\ result = "ok" =>
    (\A n \in AllOperatorNamespaces : ~OperatorExists(n)) /\ sub = NoSubscription

\* ... and no namespace or cluster-scoped permission either.
TeardownLeavesNothing ==
  pc = "idle" /\ cmd = "teardown" /\ result = "ok" =>
    \A n \in AllOperatorNamespaces : ns[n] = "absent" /\ rbac[n] = {}

\* Each kind of custom resource is handed from one operator to the next: the
\* old one is gone before the new one starts (module ReconcilerHandover).
RunningReconcilers ==
  [k \in Kinds |-> {<<n, dep[n]>> : n \in {m \in AllOperatorNamespaces :
                                              OperatorExists(m) /\ k \in Reconciles(m)}}]
Handover == INSTANCE ReconcilerHandover WITH
              Operators <- AllOperatorNamespaces \X [ver : VersionOrNone, olm : BOOLEAN],
              reconcilers <- RunningReconcilers
HandoverSpec == Handover!Spec

\* A deploy of what is already in place touches nothing in the cluster.
DeployIsIdempotent ==
  [][cmd = "deploy" /\ pc # "idle" /\ InPlace(cfg) /\ (\A c \in Crds : crd[c] # 0)
       => UNCHANGED cluster]_vars

\* Every command comes to an end.
CommandReturns == pc # "idle" ~> pc = "idle"

(***************************************************************************)
(* The inductive invariant behind NoDoubleReconcile and HandoverSpec when  *)
(* no error is swallowed (MaxFaults = 0); interruptions do not matter.     *)
(***************************************************************************)
TeardownLabels == {"nsDelete", "bindingDelete", "roleDelete", "nsWait"}
OLMTeardownLabels == {"subDelete", "csvDelete", "olmNsDelete"}
CreateLabels == {"crdUpgrade", "role", "binding", "deployment"}
InstanceLabels == {"exists", "image", "prepare", "ready"} \cup CreateLabels
OLMLabels == {"olmImage", "olmCheck", "subscribe", "plan", "csvWait"}

\* Namespaced objects need their namespace.
ObjectsInNamespaces ==
  /\ \A n \in AllOperatorNamespaces : OperatorExists(n) => ns[n] # "absent"
  /\ sub # NoSubscription => ns["system"] # "absent" /\ sub.ver # 0

\* The system namespace shares the cluster with neither of the other two: not
\* with an operator, and not with a Subscription that will bring one.
SystemExclusive ==
  OperatorExists("system") \/ sub # NoSubscription =>
    ~OperatorExists("central") /\ ~OperatorExists("sensor")

\* Where the process is, and on whose behalf.
ControlOK ==
  /\ pc \in {"crdCheck", "crdInstall", "stale"} \cup InstanceLabels \cup OLMLabels => cmd = "deploy"
  /\ pc = "others" => cmd = "teardown"
  /\ pc = "crdInstall" => cur = "system"
  /\ pc \in InstanceLabels => cur \in OperatorInstances(cfg)
  /\ pc \in OLMLabels => cfg.olm /\ cur = "system"
  /\ pc \in {"exists", "image"} \cup CreateLabels => ~cfg.olm
  /\ pc = "nsDelete" => ret \in {"stale", "replace", "all"}
  /\ pc \in {"bindingDelete", "roleDelete"} => ret \in {"stale", "replace", "all", "allRBAC"}
  /\ pc = "nsWait" => ret \in {"stale", "replace", "all", "olm"}
  /\ pc \in OLMTeardownLabels \/ (pc = "nsWait" /\ ret = "olm") => cur = "system"
  /\ pc \in TeardownLabels /\ ret = "stale" => cmd = "deploy" /\ cur \notin OperatorInstances(cfg)
  /\ pc \in TeardownLabels /\ ret = "replace" =>
       cmd = "deploy" /\ cur \in OperatorInstances(cfg) /\ ~cfg.olm
  /\ cmd = "deploy" /\ (pc = "all" \/ (pc \in TeardownLabels /\ ret \in {"all", "allRBAC"})) => cfg.olm

\* Once its namespace is deleted, an operator's namespace is not active.
DeletionStarted ==
  pc \in {"bindingDelete", "roleDelete", "nsWait"} /\ ret # "allRBAC" => ns[cur] # "active"

\* The stale namespaces that the loop has passed are absent.
InStaleLoop == pc = "stale" \/ (pc \in TeardownLabels /\ ret = "stale")
PastStaleLoop ==
  /\ cmd = "deploy"
  /\ pc \in {"detect", "all"} \cup OLMTeardownLabels \cup InstanceLabels \cup OLMLabels \/
     (pc \in TeardownLabels /\ ret # "stale")
Passed(n) == PastStaleLoop \/ (InStaleLoop /\ cur # n /\ (cur = "sensor" \/ n = "system"))
StaleGone ==
  \A n \in AllOperatorNamespaces :
    Passed(n) /\ n \notin OperatorInstances(cfg) => ns[n] = "absent"

\* A deployment is only created where there is none, and no Subscription is
\* left that could bring another one.
NothingToReplace ==
  /\ pc \in CreateLabels \/ (pc = "prepare" /\ ~cfg.olm) => ~OperatorExists(cur)
  /\ (pc \in InstanceLabels /\ ~cfg.olm) \/ (pc \in TeardownLabels /\ ret = "replace")
       => sub = NoSubscription

IndInv ==
  /\ TypeOK
  /\ ObjectsInNamespaces
  /\ SystemExclusive
  /\ ControlOK
  /\ DeletionStarted
  /\ StaleGone
  /\ NothingToReplace

(***************************************************************************)
(* What a teardown that has swallowed no error has achieved at each point: *)
(* the invariant behind TeardownRemovesOperators.  It speaks of one        *)
(* command only, so that interruptions and the errors of earlier commands  *)
(* do not touch it.                                                        *)
(***************************************************************************)
\* A teardown that meets no error itself removes every operator, whatever the
\* commands before it swallowed (teardownOperator looks at the cluster, not at a
\* configuration).
TeardownRepairs ==
  pc = "idle" /\ cmd = "teardown" /\ result = "ok" /\ faulty = "no" =>
    (\A n \in AllOperatorNamespaces : ~OperatorExists(n)) /\ sub = NoSubscription

NoneIn(namespaces) == \A n \in namespaces : ~OperatorExists(n)
Earlier(n) == {m \in AllOperatorNamespaces : m # n /\ (n = "sensor" \/ m = "system")}

InOLMTeardown == pc \in OLMTeardownLabels \/ (pc = "nsWait" /\ ret = "olm")
InNamespaceLoop == pc = "all" \/ (pc \in TeardownLabels /\ ret = "all")
AllRemoved == (pc \in TeardownLabels /\ ret = "allRBAC") \/ (pc = "idle" /\ result = "ok")

Removed ==
  /\ InOLMTeardown => NoneIn({"central", "sensor"}) /\ (pc # "subDelete" => sub = NoSubscription)
  /\ pc = "others" => NoneIn({"system"}) /\ sub = NoSubscription
  /\ InNamespaceLoop => NoneIn(Earlier(cur)) /\ sub = NoSubscription
  /\ AllRemoved => NoneIn(AllOperatorNamespaces) /\ sub = NoSubscription
  /\ DeletionStarted

Removing == cmd = "teardown" /\ faulty = "no" => Removed

(***************************************************************************)
(* The variant behind CommandReturns.  The blocks of the code follow each  *)
(* other: CRDs, stale namespaces, the mode and the teardown it may take,   *)
(* then the planned instances; a loop over namespaces only goes forward.   *)
(***************************************************************************)
NamespacesLeft(n) == CASE n = "system" -> 2 [] n = "central" -> 1 [] n = "sensor" -> 0
TeardownStep == [nsDelete |-> 3, bindingDelete |-> 2, roleDelete |-> 1, nsWait |-> 0]
InstanceStep == [exists |-> 12, image |-> 11, crdUpgrade |-> 6, prepare |-> 5,
                 role |-> 4, binding |-> 3, deployment |-> 2, ready |-> 1,
                 subscribe |-> 4, plan |-> 3, csvWait |-> 2]
OtherStep == [idle |-> 0, olmCheck |-> 39, olmNsDelete |-> 41, csvDelete |-> 42, subDelete |-> 43,
              olmImage |-> 44, others |-> 61, detect |-> 62, crdInstall |-> 78, crdCheck |-> 79]

StepsInTeardown ==
  CASE ret = "replace" -> 13 * NamespacesLeft(cur) + 7 + TeardownStep[pc]
    [] ret = "olm"     -> 40
    [] ret = "allRBAC" -> 39 + 2 * NamespacesLeft(cur) + TeardownStep[pc]
    [] ret = "all"     -> 46 + 5 * NamespacesLeft(cur) + TeardownStep[pc]
    [] OTHER           -> 63 + 5 * NamespacesLeft(cur) + TeardownStep[pc]
StepsLeft ==
  CASE pc \in TeardownLabels       -> StepsInTeardown
    [] pc \in DOMAIN InstanceStep  -> 13 * NamespacesLeft(cur) + InstanceStep[pc]
    [] pc = "all"                  -> 50 + 5 * NamespacesLeft(cur)
    [] pc = "stale"                -> 67 + 5 * NamespacesLeft(cur)
    [] OTHER                       -> OtherStep[pc]

\* Every step of roxie brings its command nearer to the end, or there is one CRD
\* less to apply; nothing that the cluster does sets it back.  Replacing an
\* operator never leads back to a check that could replace it again.
CommandAdvances ==
  [][/\ StepsLeft \in 0 .. 79 /\ StepsLeft' \in 0 .. 79
     /\ RoxieStep => \/ StepsLeft' < StepsLeft
                     \/ StepsLeft' = StepsLeft /\ \E c \in crdTodo : crdTodo' = crdTodo \ {c}
     /\ GiveUp => StepsLeft' = 0
     /\ ClusterStep => StepsLeft' = StepsLeft]_vars
=============================================================================
