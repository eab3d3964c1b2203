------------------------- MODULE ComponentLifecycle --------------------------
(***************************************************************************)
(* How roxie deploys and tears down Central and SecuredCluster above the   *)
(* operator (Deployer.Deploy, Deployer.Teardown and what they call in      *)
(* internal/deployer/deployer.go and deploy_via_operator.go), and the      *)
(* manifest that a deploy leaves for later commands (cmd/deploy.go).       *)
(*                                                                         *)
(* One command runs at a time.  Teardown of several components runs one    *)
(* goroutine per component; a deploy tears its component down first, in    *)
(* the same goroutine.  Each kubectl call is a step and may fail; once the *)
(* command's context has expired every call fails.  The operator and the   *)
(* garbage collector work at the same time.                                *)
(***************************************************************************)
EXTENDS Integers, Sequences

CONSTANTS
  MaxDeploys,   \* bound on deploy commands
  MaxFaults,    \* bound on failing kubectl calls and killed commands, together
  Expires       \* may the deadline of a command pass?

ASSUME ConstantsAssumption ==
  /\ MaxDeploys \in Nat
  /\ MaxFaults \in Nat
  /\ Expires \in BOOLEAN

VARIABLES
  shared,     \* are both components deployed into the same namespace, by every command?
  \* the cluster
  operator,   \* is the operator "up" or "down"?
  cr,         \* the custom resource of each kind
  obj,        \* the objects in each namespace
  manifest,   \* the password recorded in the manifest, 0 without a manifest
  \* the command
  main, cmd, comps, deploy, password, ctx, result,
  \* its teardown goroutines
  pc,         \* where each goroutine is
  at,         \* the index of the resource it is about to delete
  outcome,    \* how it ended
  \* budgets
  faults,     \* the command of each failed call: its deploy number, 0 in a teardown
  kills       \* how many commands were killed

cluster == <<operator, cr, obj, manifest>>
command == <<main, cmd, comps, deploy, password, ctx, result>>
threads == <<pc, at, outcome>>
vars == <<operator, cr, obj, manifest, main, cmd, comps, deploy, password, ctx, result,
          pc, at, outcome, faults, kills, shared>>

Kinds == {"Central", "SecuredCluster"}
Components == {"Central", "SecuredCluster", "Both", "All", "Operator"}
Includes(c) == IF c \in Kinds THEN {c} ELSE IF c = "Operator" THEN {} ELSE Kinds

Namespace(k) == IF shared THEN "shared" ELSE k
Namespaces == {Namespace(k) : k \in Kinds}

(***************************************************************************)
(* A custom resource, its workload and every other object carry the number *)
(* of the deploy command that made it, as its uid.                         *)
(***************************************************************************)
Deploys == 1 .. MaxDeploys
NoCR == [phase |-> "absent", uid |-> 0, paused |-> "no", reconciled |-> "no"]
NewCR == [phase |-> "present", uid |-> deploy, paused |-> "no", reconciled |-> "no"]

NoObject == [kind |-> "none", uid |-> 0]
Owned(k) == [kind |-> k, uid |-> cr[k].uid]
Mine(k) == [kind |-> k, uid |-> deploy]

Workload(k) == IF k = "Central" THEN "central" ELSE "sensor"
Names == {"central", "sensor", "central-db", "scanner-v4-db", "admin-password",
          "cluster-registration-secret"}

\* What a teardown deletes after the custom resource, in this order.
\* central-db-backup and the Helm configmap are treated like central-db, and
\* scanner-db-password like scanner-v4-db: one of each is modelled.
ResourcesToDeleteMutant(k) ==
  IF k = "Central" THEN <<"scanner-v4-db", "admin-password">>
                   ELSE <<"cluster-registration-secret", "scanner-v4-db">>
ResourcesToDelete(k) ==
  IF k = "Central" THEN <<"central-db", "scanner-v4-db", "admin-password">>
                   ELSE <<"cluster-registration-secret", "scanner-v4-db">>

\* Only these have an owner reference: deleted after a look at their owner, and
\* garbage when the owner is gone.
OwnerChecked == {"scanner-v4-db"}
Collectable == OwnerChecked \cup {"central", "sensor"}

(***************************************************************************)
(* Calls.                                                                  *)
(***************************************************************************)
Fault ==
  /\ Len(faults) + kills < MaxFaults
  /\ faults' = Append(faults, IF cmd = "deploy" THEN deploy ELSE 0)
CallWorks == ctx = "live" /\ UNCHANGED faults
CallFails ==
  \/ ctx = "expired" /\ UNCHANGED faults
  \/ ctx = "live" /\ Fault

(***************************************************************************)
(* teardownCentral and teardownSecuredCluster, one goroutine for each.     *)
(***************************************************************************)
GoTo(k, label) == pc' = [pc EXCEPT ![k] = label] /\ UNCHANGED <<at, outcome>>
GoToResource(k, i) ==
  /\ at' = [at EXCEPT ![k] = i]
  /\ pc' = [pc EXCEPT ![k] = "resource"]
  /\ UNCHANGED outcome
End(k, how) ==
  /\ pc' = [pc EXCEPT ![k] = "done"]
  /\ outcome' = [outcome EXCEPT ![k] = how]
  /\ at' = [at EXCEPT ![k] = 0]

\* namespaceExists has a context of its own.  Without the namespace there is
\* nothing to tear down; an error is read as such.
IsEmpty(k) == cr[k] = NoCR /\ \A n \in Names : obj[Namespace(k)][n] = NoObject

CheckNamespace(k) ==
  /\ pc[k] = "namespace"
  /\ \/ GoTo(k, "exists") /\ UNCHANGED faults
     \/ IsEmpty(k) /\ End(k, "ok") /\ UNCHANGED faults
     \/ Fault /\ End(k, "ok")
  /\ UNCHANGED <<cluster, command, kills, shared>>

DoesResourceExist(k) ==
  /\ pc[k] = "exists"
  /\ \/ cr[k] # NoCR /\ CallWorks /\ GoTo(k, "pause")
     \/ ((cr[k] = NoCR /\ CallWorks) \/ CallFails) /\ GoTo(k, "retrieve")
  /\ UNCHANGED <<cluster, command, kills, shared>>

\* A failure is only warned about.
AddPauseReconcileAnnotation(k) ==
  /\ pc[k] = "pause"
  /\ \/ cr[k] # NoCR /\ CallWorks /\ cr' = [cr EXCEPT ![k].paused = "yes"]
     \/ ((cr[k] = NoCR /\ CallWorks) \/ CallFails) /\ UNCHANGED cr
  /\ GoTo(k, "retrieve")
  /\ UNCHANGED <<operator, obj, manifest, command, kills, shared>>

RetrieveCR(k) ==
  /\ pc[k] = "retrieve"
  /\ \/ cr[k] # NoCR /\ CallWorks /\ GoTo(k, "unpause")
     \/ cr[k] = NoCR /\ CallWorks /\ GoToResource(k, 1)
     \/ CallFails /\ End(k, "failed")
  /\ UNCHANGED <<cluster, command, kills, shared>>

\* The removal ignores its errors.
RemovePauseReconcileAnnotation(k) ==
  /\ pc[k] = "unpause"
  /\ \/ cr[k] # NoCR /\ CallWorks /\ cr' = [cr EXCEPT ![k].paused = "no"]
     \/ ((cr[k] = NoCR /\ CallWorks) \/ CallFails) /\ UNCHANGED cr
  /\ GoTo(k, "delete")
  /\ UNCHANGED <<operator, obj, manifest, command, kills, shared>>

\* The operator's finalizer is there from its first reconciliation on.
Deleted(r) == IF r.reconciled = "yes" THEN [r EXCEPT !.phase = "deleting"] ELSE NoCR

\* kubectl delete --wait: the request, and the wait until the object is gone.
\* It can fail before or after the API server has taken the request.
DeleteCRMutant(k) ==
  /\ pc[k] = "delete"
  /\ \/ CallWorks /\ cr' = [cr EXCEPT ![k] = Deleted(@)] /\ GoToResource(k, 1)
     \/ CallFails /\ UNCHANGED cr /\ End(k, "failed")
  /\ UNCHANGED <<operator, obj, manifest, command, kills, shared>>
DeleteCR(k) ==
  /\ pc[k] = "delete"
  /\ \/ CallWorks /\ cr' = [cr EXCEPT ![k] = Deleted(@)] /\ GoTo(k, "deleteWait")
     \/ CallFails /\ UNCHANGED cr /\ End(k, "failed")
  /\ UNCHANGED <<operator, obj, manifest, command, kills, shared>>

DeleteCRWaitMutant(k) ==
  /\ pc[k] = "deleteWait"
  /\ cr[k] = NoCR /\ CallWorks /\ GoToResource(k, 1)
  /\ UNCHANGED <<cluster, command, kills, shared>>
DeleteCRWait(k) ==
  /\ pc[k] = "deleteWait"
  /\ \/ cr[k] = NoCR /\ CallWorks /\ GoToResource(k, 1)
     \/ CallFails /\ End(k, "failed")
  /\ UNCHANGED <<cluster, command, kills, shared>>

\* The resources that the operator leaves behind.  An owner-checked one is
\* looked at first; if the look fails it is skipped with a warning.
NextResourceMutant(k) ==
  IF at[k] > Len(ResourcesToDelete(k)) THEN End(k, "ok") ELSE GoToResource(k, at[k] + 1)
NextResource(k) ==
  IF at[k] = Len(ResourcesToDelete(k)) THEN End(k, "ok") ELSE GoToResource(k, at[k] + 1)

IsOwnedBy(k, n) == obj[Namespace(k)][n].kind = k

CheckOwnerMutant(k) ==
  /\ pc[k] = "resource"
  /\ ResourcesToDelete(k)[at[k]] \in OwnerChecked
  /\ CallWorks \/ CallFails
  /\ NextResource(k)
  /\ UNCHANGED <<cluster, command, kills, shared>>
CheckOwner(k) ==
  LET n == ResourcesToDelete(k)[at[k]] IN
  /\ pc[k] = "resource"
  /\ n \in OwnerChecked
  /\ \/ IsOwnedBy(k, n) /\ CallWorks /\ GoTo(k, "owned")
     \/ ((~IsOwnedBy(k, n) /\ CallWorks) \/ CallFails) /\ NextResource(k)
  /\ UNCHANGED <<cluster, command, kills, shared>>

\* The deletion is a call of its own, by name: what it finds is deleted.
DeleteResource(k) ==
  LET n == ResourcesToDelete(k)[at[k]] IN
  /\ \/ pc[k] = "resource" /\ n \notin OwnerChecked
     \/ pc[k] = "owned"
  /\ \/ CallWorks /\ obj' = [obj EXCEPT ![Namespace(k)][n] = NoObject] /\ NextResource(k)
     \/ CallFails /\ UNCHANGED obj /\ End(k, "failed")
  /\ UNCHANGED <<operator, cr, manifest, command, kills, shared>>

Teardown(k) ==
  \/ CheckNamespace(k) \/ DoesResourceExist(k) \/ AddPauseReconcileAnnotation(k)
  \/ RetrieveCR(k) \/ RemovePauseReconcileAnnotation(k) \/ DeleteCR(k) \/ DeleteCRWait(k)
  \/ CheckOwner(k) \/ DeleteResource(k)

StartThreads(K) ==
  /\ pc' = [k \in Kinds |-> IF k \in K THEN "namespace" ELSE pc[k]]
  /\ UNCHANGED <<at, outcome>>
StopThreads ==
  /\ pc' = [k \in Kinds |-> "off"]
  /\ at' = [k \in Kinds |-> 0]
  /\ outcome' = [k \in Kinds |-> "ok"]

(***************************************************************************)
(* Commands.                                                               *)
(***************************************************************************)
Step(label) == main' = label /\ UNCHANGED <<cmd, comps, deploy, password, ctx, result>>
Finish(how) ==
  /\ main' = "idle" /\ result' = how /\ password' = 0
  /\ StopThreads
  /\ UNCHANGED <<cmd, comps, deploy, ctx>>

\* The admin password comes from the environment, where a roxie shell has put
\* the one of the manifest, or is generated.
StartDeploy(c, fromShell) ==
  /\ main = "idle" /\ deploy < MaxDeploys
  /\ fromShell => manifest # 0
  /\ main' = "operator" /\ cmd' = "deploy" /\ comps' = c /\ result' = "running" /\ ctx' = "live"
  /\ deploy' = deploy + 1
  /\ password' = IF fromShell THEN manifest ELSE deploy + 1
  /\ UNCHANGED <<cluster, threads, faults, kills, shared>>

StartTeardown(c) ==
  /\ main = "idle"
  /\ main' = IF c = "Operator" THEN "operatorTeardown" ELSE "join"
  /\ cmd' = "teardown" /\ comps' = c /\ result' = "running" /\ ctx' = "live"
  /\ StartThreads(Includes(c))
  /\ UNCHANGED <<cluster, deploy, password, faults, kills, shared>>

Killed ==
  /\ main # "idle" /\ Len(faults) + kills < MaxFaults
  /\ kills' = kills + 1
  /\ Finish("failed")
  /\ UNCHANGED <<cluster, faults, shared>>

\* The deadline of the command's context passes.
ContextExpires ==
  /\ Expires /\ main # "idle" /\ ctx = "live"
  /\ ctx' = "expired"
  /\ UNCHANGED <<cluster, main, cmd, comps, deploy, password, result, threads, faults, kills, shared>>

(***************************************************************************)
(* Teardown                                                                *)
(***************************************************************************)
JoinedMutant == \E k \in Includes(comps) : pc[k] = "done"
Joined == \A k \in Includes(comps) : pc[k] = "done"

\* A single component's error is returned; of several ones it is only warned
\* about, and the operator and the manifest go all the same.
TeardownJoins ==
  /\ main = "join" /\ Joined
  /\ \/ comps \in Kinds /\ outcome[comps] = "failed" /\ Finish("failed")
     \/ comps \in Kinds /\ outcome[comps] = "ok" /\ Step("forget") /\ UNCHANGED threads
     \/ comps = "Both" /\ Step("forget") /\ UNCHANGED threads
     \/ comps = "All" /\ Step("operatorTeardown") /\ UNCHANGED threads
  /\ UNCHANGED <<cluster, faults, kills, shared>>

\* A failure is only warned about, unless the operator is all there is to do.
TeardownOperator ==
  /\ main = "operatorTeardown"
  /\ \/ CallWorks /\ operator' = "down" /\ Step("forget") /\ UNCHANGED threads
     \/ comps = "Operator" /\ CallFails /\ UNCHANGED operator /\ Finish("failed")
     \/ comps = "All" /\ CallFails /\ UNCHANGED operator /\ Step("forget") /\ UNCHANGED threads
  /\ UNCHANGED <<cr, obj, manifest, kills, shared>>

\* DeleteManifestSecret, whose errors are ignored.
ForgetManifest ==
  /\ main = "forget"
  /\ \/ "Central" \in Includes(comps) /\ CallWorks /\ manifest' = 0
     \/ "Central" \in Includes(comps) /\ CallFails /\ UNCHANGED manifest
     \/ "Central" \notin Includes(comps) /\ UNCHANGED <<manifest, faults>>
  /\ Finish("ok")
  /\ UNCHANGED <<operator, cr, obj, kills, shared>>

(***************************************************************************)
(* Deploy                                                                  *)
(***************************************************************************)
AfterOperator ==
  IF comps = "Operator" THEN "record"
  ELSE IF "Central" \in Includes(comps) THEN "centralStart" ELSE "sensorStart"
AfterCentral == IF comps = "Central" THEN "record" ELSE "sensorStart"

\* ensureOperatorDeployed: module OperatorLifecycle.
DeployOperator ==
  /\ main = "operator"
  /\ \/ CallWorks /\ operator' = "up" /\ Step(AfterOperator) /\ UNCHANGED threads
     \/ CallFails /\ UNCHANGED operator /\ Finish("failed")
  /\ UNCHANGED <<cr, obj, manifest, kills, shared>>

\* deployCentral and deploySecuredCluster tear down first, when the namespace
\* exists, and only warn when that fails.
StartComponent(from, to, k) ==
  /\ main = from
  /\ Step(to)
  /\ StartThreads({k})
  /\ UNCHANGED <<cluster, faults, kills, shared>>

ComponentTornDown(from, to, k) ==
  /\ main = from /\ pc[k] = "done"
  /\ Step(to)
  /\ StopThreads
  /\ UNCHANGED <<cluster, faults, kills, shared>>

CreateAdminPasswordSecret ==
  /\ main = "secret"
  /\ \/ /\ CallWorks /\ Step("centralCR") /\ UNCHANGED threads
        /\ obj' = [obj EXCEPT ![Namespace("Central")]["admin-password"] =
                                [kind |-> "Central", uid |-> password]]
     \/ CallFails /\ UNCHANGED obj /\ Finish("failed")
  /\ UNCHANGED <<operator, cr, manifest, kills, shared>>

\* generateCRS needs a Central that runs and knows this command's password; it
\* gives up after its retries.  The CRS is then applied.
CentralAnswers ==
  /\ obj[Namespace("Central")]["central"] # NoObject
  /\ obj[Namespace("Central")]["admin-password"].uid = password

GenerateAndApplyCRS ==
  /\ main = "crs"
  /\ \/ /\ CentralAnswers /\ CallWorks /\ Step("sensorCR") /\ UNCHANGED threads
        /\ obj' = [obj EXCEPT ![Namespace("SecuredCluster")]["cluster-registration-secret"] =
                                Mine("SecuredCluster")]
     \/ ((~CentralAnswers /\ CallWorks) \/ CallFails) /\ UNCHANGED obj /\ Finish("failed")
  /\ UNCHANGED <<operator, cr, manifest, kills, shared>>

\* applyCentralCR and applySecuredClusterCR create the custom resource, or
\* update the one they find, even if it is being deleted.
ApplyCR(from, to, k) ==
  /\ main = from
  /\ \/ /\ CallWorks /\ Step(to) /\ UNCHANGED threads
        /\ cr' = [cr EXCEPT ![k] = IF @ = NoCR THEN NewCR ELSE @]
     \/ CallFails /\ UNCHANGED cr /\ Finish("failed")
  /\ UNCHANGED <<operator, obj, manifest, kills, shared>>

\* waitForComponentReady looks at the workload alone, and has a deadline.
WaitForComponentReady(from, to, k) ==
  /\ main = from
  /\ \/ obj[Namespace(k)][Workload(k)] # NoObject /\ CallWorks /\ Step(to) /\ UNCHANGED threads
     \/ CallFails /\ Finish("failed")
     \/ Expires /\ Finish("failed") /\ UNCHANGED faults
  /\ UNCHANGED <<cluster, kills, shared>>

\* With pauseReconciliation the annotation is added.
PauseReconciliation(from, to, k) ==
  /\ main = from
  /\ \/ UNCHANGED <<cr, faults, threads>> /\ Step(to)
     \/ /\ CallWorks /\ Step(to) /\ UNCHANGED threads
        /\ cr[k] # NoCR /\ cr' = [cr EXCEPT ![k].paused = "yes"]
     \/ ((cr[k] = NoCR /\ CallWorks) \/ CallFails) /\ UNCHANGED cr /\ Finish("failed")
  /\ UNCHANGED <<operator, obj, manifest, kills, shared>>

\* CreateManifestSecretOnCluster, after every successful deploy.
RecordManifestMutant == main = "record" /\ Finish("ok") /\ UNCHANGED <<cluster, faults, kills, shared>>
RecordManifest ==
  /\ main = "record"
  /\ \/ CallWorks /\ manifest' = password
     \/ CallFails /\ UNCHANGED manifest
  /\ Finish("ok")
  /\ UNCHANGED <<operator, cr, obj, kills, shared>>

DeployCentral ==
  \/ StartComponent("centralStart", "centralTeardown", "Central")
  \/ ComponentTornDown("centralTeardown", "secret", "Central")
  \/ CreateAdminPasswordSecret
  \/ ApplyCR("centralCR", "centralReady", "Central")
  \/ WaitForComponentReady("centralReady", "centralPause", "Central")
  \/ PauseReconciliation("centralPause", AfterCentral, "Central")

DeploySecuredCluster ==
  \/ StartComponent("sensorStart", "sensorTeardown", "SecuredCluster")
  \/ ComponentTornDown("sensorTeardown", "crs", "SecuredCluster")
  \/ GenerateAndApplyCRS
  \/ ApplyCR("sensorCR", "sensorReady", "SecuredCluster")
  \/ WaitForComponentReady("sensorReady", "sensorPause", "SecuredCluster")
  \/ PauseReconciliation("sensorPause", "record", "SecuredCluster")

(***************************************************************************)
(* The operator and the garbage collector.                                 *)
(***************************************************************************)
Managed(k) == IF k = "Central" THEN {"central", "central-db", "scanner-v4-db"}
                               ELSE {"sensor", "scanner-v4-db"}
StaleOwner(k) ==
  LET o == obj[Namespace(k)]["scanner-v4-db"] IN o.kind = k /\ o.uid # cr[k].uid

\* The operator creates what is missing.  An object that an earlier custom
\* resource of the same kind still owns makes it fail over and over.
OperatorReconciles(k) ==
  /\ operator = "up" /\ cr[k].phase = "present" /\ cr[k].paused = "no" /\ ~StaleOwner(k)
  /\ cr' = [cr EXCEPT ![k].reconciled = "yes"]
  /\ obj' = [obj EXCEPT ![Namespace(k)] =
               [n \in Names |-> IF n \in Managed(k) /\ @[n] = NoObject THEN Owned(k) ELSE @[n]]]
  /\ UNCHANGED <<operator, manifest, command, threads, faults, kills, shared>>

\* The finalizer uninstalls the workload; volumes and secrets stay.
OperatorFinalizes(k) ==
  /\ operator = "up" /\ cr[k].phase = "deleting" /\ cr[k].paused = "no"
  /\ cr' = [cr EXCEPT ![k] = NoCR]
  /\ obj' = [obj EXCEPT ![Namespace(k)][Workload(k)] = NoObject]
  /\ UNCHANGED <<operator, manifest, command, threads, faults, kills, shared>>

GarbageCollected(ns, n) ==
  LET o == obj[ns][n] IN
  /\ n \in Collectable /\ o # NoObject
  /\ cr[o.kind].uid # o.uid
  /\ obj' = [obj EXCEPT ![ns][n] = NoObject]
  /\ UNCHANGED <<operator, cr, manifest, command, threads, faults, kills, shared>>

(***************************************************************************)
(* The specification.                                                      *)
(***************************************************************************)
Init ==
  /\ shared \in BOOLEAN
  /\ operator = "down"
  /\ cr = [k \in Kinds |-> NoCR]
  /\ obj = [ns \in Namespaces |-> [n \in Names |-> NoObject]]
  /\ manifest = 0
  /\ main = "idle" /\ cmd = "teardown" /\ comps = "All" /\ deploy = 0 /\ password = 0
  /\ ctx = "live" /\ result = "ok"
  /\ pc = [k \in Kinds |-> "off"] /\ at = [k \in Kinds |-> 0]
  /\ outcome = [k \in Kinds |-> "ok"]
  /\ faults = <<>> /\ kills = 0

Start ==
  \E c \in Components : \/ StartTeardown(c)
                        \/ \E fromShell \in BOOLEAN : StartDeploy(c, fromShell)

RoxieStep ==
  \/ TeardownJoins
  \/ TeardownOperator
  \/ ForgetManifest
  \/ DeployOperator
  \/ DeployCentral
  \/ DeploySecuredCluster
  \/ RecordManifest

ClusterStep ==
  \/ \E k \in Kinds : OperatorReconciles(k) \/ OperatorFinalizes(k)
  \/ \E ns \in Namespaces, n \in Names : GarbageCollected(ns, n)

Next ==
  \/ Start
  \/ Killed
  \/ ContextExpires
  \/ RoxieStep
  \/ \E k \in Kinds : Teardown(k)
  \/ ClusterStep

Spec == Init /\ [][Next]_vars

(***************************************************************************)
(* Properties.                                                             *)
(***************************************************************************)
Objects == [kind : Kinds \cup {"none"}, uid : 0 .. MaxDeploys]

\* Every variable has its type.
TypeOK ==
  /\ operator \in {"up", "down"}
  /\ cr \in [Kinds -> [phase : {"absent", "present", "deleting"}, uid : 0 .. MaxDeploys,
                       paused : {"yes", "no"}, reconciled : {"yes", "no"}]]
  /\ obj \in [Namespaces -> [Names -> Objects]]
  /\ manifest \in 0 .. MaxDeploys
  /\ main \in {"idle", "operator", "centralStart", "centralTeardown", "secret", "centralCR",
               "centralReady", "centralPause", "sensorStart", "sensorTeardown", "crs", "sensorCR",
               "sensorReady", "sensorPause", "record", "join", "operatorTeardown", "forget"}
  /\ cmd \in {"deploy", "teardown"} /\ comps \in Components
  /\ deploy \in 0 .. MaxDeploys /\ password \in 0 .. MaxDeploys
  /\ ctx \in {"live", "expired"} /\ result \in {"ok", "failed", "running"}
  /\ pc \in [Kinds -> {"off", "namespace", "exists", "pause", "retrieve", "unpause", "delete",
                       "deleteWait", "resource", "owned", "done"}]
  /\ at \in [Kinds -> 0 .. 3] /\ \A k \in Kinds : at[k] <= Len(ResourcesToDelete(k))
  /\ outcome \in [Kinds -> {"ok", "failed"}]
  /\ Len(faults) + kills <= MaxFaults /\ kills \in Nat /\ shared \in BOOLEAN
  /\ \A i \in DOMAIN faults : faults[i] \in 0 .. MaxDeploys

\* No call of this deploy command failed before its deadline.
Clean(d) == \A i \in DOMAIN faults : faults[i] # d

\* The custom resource of a deploy without errors never meets an object that a
\* predecessor owns, which would make the operator fail over and over (issue
\* #291 in the code), whatever earlier commands left behind.
NoStaleOwner ==
  \A k \in Kinds : cr[k].phase = "present" /\ Clean(cr[k].uid) => ~StaleOwner(k)

\* The Central of a deploy without errors never starts on the database of an
\* earlier one.
FreshDatabase ==
  LET db == obj[Namespace("Central")]["central-db"] IN
  cr["Central"].phase = "present" /\ Clean(cr["Central"].uid) =>
    db = NoObject \/ db.uid = cr["Central"].uid

\* A deploy that reports success leaves its components' custom resources in
\* place, not on their way out.
DeployLasts ==
  main = "idle" /\ cmd = "deploy" /\ result = "ok" =>
    \A k \in Includes(comps) : cr[k].phase = "present"

\* After a deploy without errors they and their workloads are the ones it made
\* itself, whatever earlier commands left behind.
DeployDelivers ==
  main = "idle" /\ cmd = "deploy" /\ result = "ok" /\ Clean(deploy) =>
    \A k \in Includes(comps) :
      /\ cr[k].phase = "present" /\ cr[k].uid = deploy
      /\ obj[Namespace(k)][Workload(k)].uid = deploy

\* A teardown that reports success before its deadline leaves nothing of its
\* components, whatever went wrong in deploys, unless a call of a teardown failed,
\* whose error is only logged.
TeardownDelivers ==
  main = "idle" /\ cmd = "teardown" /\ result = "ok" /\ ctx = "live" /\ Clean(0) =>
    \A k \in Includes(comps) :
      /\ cr[k] = NoCR
      /\ \A i \in DOMAIN ResourcesToDelete(k) : ~IsOwnedBy(k, ResourcesToDelete(k)[i])

\* The operator is only torn down after Central and SecuredCluster are gone,
\* because it has to remove their finalizers (Deployer.Teardown).
OperatorGoesLast ==
  [][comps = "All" /\ operator = "up" /\ operator' = "down" =>
       \A k \in Kinds : cr[k] = NoCR]_vars

\* That is how it is unless a call of a teardown has failed, even if deploys have,
\* or commands were killed or their deadline has passed: Teardown waits for both
\* goroutines first.
OperatorGoesLastWithoutErrors ==
  [][comps = "All" /\ operator = "up" /\ operator' = "down" /\ Clean(0)' =>
       \A k \in Kinds : cr[k] = NoCR]_vars

\* A teardown never deletes an object of the other component, while that one is
\* deployed in the same namespace (comment in deleteSecuredClusterResources).
LeavesOthersAlone ==
  [][\A k \in Kinds : DeleteResource(k) /\ pc[k] = "owned" =>
       LET o == obj[Namespace(k)][ResourcesToDelete(k)[at[k]]] IN
       o.kind # k /\ o # NoObject => cr[o.kind].phase # "present"]_vars

\* The password that roxie shell takes from the manifest is Central's.
ManifestOpensCentral ==
  main = "idle" /\ cr["Central"].phase = "present" /\ manifest # 0 =>
    manifest = obj[Namespace("Central")]["admin-password"].uid

\* The same, after a deploy of Central without errors and before its deadline.
DeployRecordsPassword ==
  main = "idle" /\ cmd = "deploy" /\ result = "ok" /\ ctx = "live" /\ Clean(deploy)
    /\ "Central" \in Includes(comps) =>
    manifest = obj[Namespace("Central")]["admin-password"].uid

\* Once its deadline has passed a command waits for nothing any more, neither
\* for a finalizer nor for its other goroutine; having finitely many calls left
\* it ends.
DeadlineFreesCommand ==
  main # "idle" /\ ctx = "expired" => ENABLED (RoxieStep \/ \E k \in Kinds : Teardown(k))

\* The goroutines that the command waits for.
WaitsFor ==
  CASE main = "join"            -> Includes(comps)
    [] main = "centralTeardown" -> {"Central"}
    [] main = "sensorTeardown"  -> {"SecuredCluster"}
    [] OTHER                    -> {}
IsAtWork(k) == pc[k] \notin {"off", "done"}

\* Command and goroutines agree, in any order of their steps, and of failures and kills: no
\* goroutine works on for a command that no longer waits for it (Deployer.Teardown waits for both,
\* even if the first one has failed), and none is waited for that was not started.
ThreadsAreJoined ==
  \A k \in Kinds : /\ IsAtWork(k) => k \in WaitsFor
                   /\ k \in WaitsFor => pc[k] # "off"

\* Hence a command or one of its goroutines always has a call to make; after the deadline,
\* when no call takes its time, that is what ENABLED says above.
CanGoOn == (\A k \in WaitsFor : pc[k] = "done") \/ \E k \in Kinds : IsAtWork(k)
GoingOnIsEnabled ==
  main # "idle" /\ ctx = "expired" =>
    (CanGoOn <=> ENABLED (RoxieStep \/ \E k \in Kinds : Teardown(k)))

(***************************************************************************)
(* The variant behind that: how many calls a command can still make.       *)
(***************************************************************************)
MainLeft ==
  [idle |-> 0,
   forget |-> 1, operatorTeardown |-> 2, join |-> 3,
   record |-> 1,
   sensorPause |-> 2, sensorReady |-> 3, sensorCR |-> 4, crs |-> 5, sensorTeardown |-> 6, sensorStart |-> 7,
   centralPause |-> 8, centralReady |-> 9, centralCR |-> 10, secret |-> 11, centralTeardown |-> 12, centralStart |-> 13,
   operator |-> 14]
ThreadLeft ==
  [off |-> 0, done |-> 0,
   deleteWait |-> 7, delete |-> 8, unpause |-> 9, retrieve |-> 10, pause |-> 11, exists |-> 12, namespace |-> 13]
CallsOfThread(k) ==
  CASE pc[k] = "resource" -> 8 - 2 * at[k]
    [] pc[k] = "owned"    -> 7 - 2 * at[k]
    [] OTHER              -> ThreadLeft[pc[k]]

\* The two goroutines are started anew by a step of the command itself.
CallsLeft == 27 * MainLeft[main] + CallsOfThread("Central") + CallsOfThread("SecuredCluster")

\* Every step that roxie takes, in the command or in one of its goroutines, brings
\* the command nearer to its end, and nothing that goes on around it ever sets it
\* back: no order of components, resources and failures makes it go round for ever.
CommandAdvances ==
  [][/\ CallsLeft \in 0 .. 404 /\ CallsLeft' \in 0 .. 404
     /\ RoxieStep \/ (\E k \in Kinds : Teardown(k)) => CallsLeft' < CallsLeft
     /\ Killed => CallsLeft' = 0
     /\ ContextExpires \/ ClusterStep => CallsLeft' = CallsLeft]_vars
=============================================================================
