# A TLA+ model of roxie

roxie deploys Red Hat Advanced Cluster Security (ACS) on a Kubernetes cluster: the
operator, Central, a secured cluster and add-ons, and it removes them again. It is a
sequential command line program for the most part. What makes it hard is where it works:
every step is a call that may fail, be repeated or be cut off; the cluster's controllers go
on by themselves; a command may be killed anywhere, and the next one starts from what is
left; and some parts do run concurrently (image verification, teardown of two components,
readiness waits, detached processes).

The modules here are state machines read off the Go code, `PROJECT.json` names the lines
behind every definition. TLC checks them on small instances; TLAPS proves the most important
properties for all values of the constants.

    tlc -workers 2 -config op_plans.cfg MCOperatorLifecycle
    tlapm OperatorLifecycle_proofs.tla

## 1. Inventory

| Component (source under `src/`) | State | Operations | What is hard | What makes it correct |
|---|---|---|---|---|
| Operator lifecycle: `internal/deployer/operator.go`, `operator_olm.go`, `operator_instances.go`, first part of `deploy_via_operator.go` | namespaces, deployments, Subscription, CSV, cluster RBAC, CRDs | ensure deployed (single, mixed versions, OLM), teardown, mode switch, removal of stale operators | kills between calls, namespaces that terminate slowly, errors that are swallowed, OLM working at the same time | never two operators for one kind of resource; success means the plan runs; a teardown leaves nothing |
| Component lifecycle: `deployer.go`, `deploy_via_operator.go` | custom resources with finalizer and pause annotation, volumes and secrets with owners, manifest | Deploy, Teardown of Central, SecuredCluster, both, all | two teardown goroutines, garbage collection that lags, owner checks before deletions by name, leftovers of earlier commands | a deploy starts from nothing of its predecessors; success means there or gone; the operator goes last |
| kubectl calls and the CRS: `internal/k8s`, `crs.go` | what the server has done, the reader of the standard input | RunKubectl, generateCRS, prepareNamespace, applyCRS | lost answers, repeated attempts of calls that are not idempotent | repeating a call is harmless; what is applied belongs to this deploy |
| Readiness waits: `cmd/deploy.go`, `deploy_via_operator.go` | contexts and deadlines, the goroutine of a wait, its progress loop | computeDeployContextTimeout, waitForComponentReady, WaitForCentral | a deadline that races a result, nested time limits, retries inside a wait | each wait gets its time; what was ready in time counts as ready; every deploy ends |
| Image cache: `internal/imagecache` | cache, file, mutex, semaphore, goroutines | VerifyImagesPullable | goroutines and processes that share cache and file, kills during a write | nothing unverified is ever cached, bounded, sound verdict, no deadlock |
| Add-ons: `addons*.go`, `internal/helm` | Helm release histories, manifest | install or upgrade, uninstall, retries | releases left pending or half removed, order of several | a working release is never removed by a deploy; order; nothing is left |
| Port-forward, subshell, HAProxy: `internal/portforward`, `cmd/shell.go`, `cmd/subshell.go` | processes, ports, environments of terminals | Start, StartDetached, Stop, shell, envrc | races for ports, processes that hang or die, ids that outlive processes | an endpoint leads to the Central it is for; nothing is left running |
| Configuration and flags: `cmd`, `config.go`, `feature_flags.go`, `internal/clusterdefaults` | the manifest between commands | merge of defaults, manifest, the user's file and the command line; completion; refusals | the manifest holds a completed configuration, which the next command completes again | a line takes effect; a line without settings changes nothing |
| Versions, operator instances, operand images: `operator_instances.go`, `operand_images.go`, `internal/imagetag`, `internal/helpers` | none | which operators, with which image and variables | what is computed for one deploy may get into the next | each deploy chooses its own images |
| Manifest: `internal/manifest` | a secret on the cluster | write, read, delete | written last, and an error only warns | what it says is what runs |
| Registry credentials: `internal/dockerauth`, `internal/ocihelper`, `deployer.go` | logins, the answers of a command about repositories, pull secrets | lookup, verification, the question whether a repository is private | several sources, answers that differ from one time to the next, old versions torn down before the question | pods can pull; nothing is torn down and then not deployed |
| Local images: `local_images*.go`, `acs_images.go` | images on a node | transfer before a deploy | computed apart from what is then deployed | what will run is on the node |
| Environment: `internal/env`, `internal/types` | none | detection of the cluster's type | overlapping signs | see `DetectClusterType` |
| Custom resources, logs, logger, end-to-end tests | none, or outside | see `PROJECT.json` | | |

How they interact: a command assembles its configuration (with the manifest of the last
deploy), then `Deployer.Deploy` calls, one after the other, the operator's deployment (which
verifies images through the cache), Central, the add-ons and SecuredCluster, each through
kubectl or Helm and under one context; Central's endpoint goes to a port-forward and from
there to the CRS request, the subshell or the envrc. Teardown takes the same parts in reverse
and runs the two components in parallel. Between commands the state is in the cluster (with
the manifest), in the cache file and in the environment of the terminal. Accordingly each
module below has several commands in sequence, or at the same time, over one such state.

The hazards, each at its line, are in `PROJECT.json`; the properties are aimed at them.

## 2. Modules and their correspondence to the code

**OperatorLifecycle.** One command at a time (`pc`, `cmd`, `cfg`) and the cluster (`ns`,
`dep`, `sub`, `csv`, `rbac`, `crd`). An action is one kubectl call together with the decision
that follows it: `EnsureCRDsInstalled`, `TeardownStaleOperatorNamespaces`,
`DetectOperatorDeploymentMode`, `DeleteOperatorNamespace` and so on carry the names of the
functions. Functions called from several places return through `ret`. The namespace
controller and OLM take steps of their own. An error that is handed up ends the command, as a
kill does: both are `GiveUp`, possible at each step. Errors that the code swallows (ignored
deletes, a get whose error is read as absence, a wait that only warns) are faults, counted by
`MaxFaults`. Versions are numbers in their order.

**ReconcilerHandover** is what the operator lifecycle promises, without any of its steps: the
reconciler of each kind, acquired only when the kind is free. OperatorLifecycle implements it
under the mapping `RunningReconcilers` (`HandoverSpec`).

**ComponentLifecycle.** Deploy and Teardown above the operator, one call per action. Two
goroutines (`pc[k]`) tear the components down; `Deployer.Teardown` starts both for "both" and
"all", a deploy runs one before it deploys. Objects carry the number of the deploy that made
them, as their uid. The operator (creating the workload, removing finalizers, failing on an
object of a stale owner) and the garbage collector are the environment. Central's endpoint, pull
secrets and add-ons are not part of it, the operator as a whole is "up" or "down".

**KubectlCalls.** One level below: every attempt of every call that
`deploySecuredClusterOperator` makes before its wait. The server may have got a request whose
answer is lost; `consumed` is the position of the reader that is passed on to the next attempt.
The random suffix of a CRS's name is taken to be new each time.

**DeployTimeouts.** Time as a number. `Tick` is enabled only when nothing is due, so that
roxie's own steps take no time except where the code spends it: in the readiness waits, in a
`kubectl get` of such a wait (up to `MaxLook`), in the checks of the progress (`busy`, up to
`MaxBusy`, retries included), in the waits for the load balancer and for Central's answer, and in
everything else (`overhead`, up to `MaxOverhead` in all). `kubectl get` and `kubectl wait` may fail
(`MaxFaults`), with a transient error or another one; a retry sleeps without looking at the context.
The goroutine of `waitForAvailableCondition` and the loop of `waitForComponentReady` are two
processes; `select` is a choice among what is ready, and `MaxPassedOver` bounds how often it may
prefer the ticker. Two histories are for the properties: `spent` is the time that no configured
timeout accounts for, `lost` how long failed and slow calls have kept it unnoticed that a component
is available.

**ImageCache.** Processes with goroutines, semaphore, mutex, cache and the shared file, with
the truncation and the writing of the file as two steps. `registry` is what can be pulled now,
`verified` (history) what was pulled at some time.

**AddOnReleases.** The history of each Helm release, the queue of add-ons of a command, the
retries of a Helm action (an attempt changes the history in two steps, so that a kill or an
error can fall between them), the part of the manifest that names add-ons, and Central.

**PortForwarding.** Processes with parent, port and the Central they lead to; terminals whose
environment holds one process id; commands deploy, teardown and shell, each step by step
through finding a port, starting kubectl, waiting, the envrc, the subshell with HAProxy, and
stopping; where Central is exposed there is no port-forward, and a deploy or a shell goes on with
its endpoint. A process may hang on SIGTERM or die. Another program may start at any time and bind
a free port, also the one that a command has found and kubectl has not bound yet.

**Configuration** is what a command makes of its settings, without state: the four sources and
their merge (`AssembleConfigForCommand`, where a map is merged by key and `Unset` is what the
merge takes for "not given"), the cluster's type from its context, server and API groups
(`DetectClusterType`), the defaults that depend on it, feature flags as variables of the custom
resources, the operator instances with their versions, images and `RELATED_IMAGE` variables, and
`DeployValidate`. **RegistryAccess** has what depends on the world outside: where a tag comes
from, which credentials are found and verified, and which repositories ask for them.

**DeployCommands** puts them into commands. A deploy is `BeginDeploy` (manifest read,
configuration complete or refused), the check of credentials in a container, the transfer of
local images, the credentials, one step for each operator, Central, the SecuredCluster, and the
manifest at the very end; a teardown takes its namespaces from the manifest and deletes it
together with Central. How operator and components get there is a step each: that is what
OperatorLifecycle and ComponentLifecycle are about. `host` is the machine with its logins and
the cluster's type, `probed` the answers about repositories that a command remembers, `past`
what has been asked for so far. A command may be killed between any two steps; what the code
only warns about is a fault.

The `MC` modules extend these for TLC. The definitions whose names end in `Mutant` stand next to
the ones they falsify; each shows that a property notices a plausible bug.

## 3. Runs

Every bound is a constant of its module.

| Run | Bounds | Shows |
|---|---|---|
| `op_plans` | 3 versions, 2 CRDs, OLM, no faults or interruptions | each deploy establishes its plan with current CRDs, a repeated one changes nothing, each teardown leaves nothing, in any sequence of any plans |
| `op_interrupted` | 2 versions, 2 interruptions, OLM, commands may start while a namespace terminates | no double reconciliation, `HandoverSpec` |
| `op_faulty` | 2 swallowed errors, 1 interruption | a deploy without errors of its own repairs; every command ends |
| `comp_disturbed` | one namespace or two, 2 deploys, any number of teardowns, one kill or failing call, deadlines | no stale owner, fresh database, success means there or gone, password recorded, operator last, no waiting past the deadline |
| `calls_retried` | 2 deploys, 3 attempts, 4 generations | `DeployApplies`, and repetitions that are harmless |
| `time_margin` | waits of 3 and 2, padding 3, margin 3, load balancer 3, probe 2, polls of 2, checks of 0 to 4, `kubectl get` of 0 or 1, overhead 2, 2 failing calls, 3 attempts | what may cut a wait short, cause a false timeout or keep a success from being recorded is the margin or the padding being used up, and nothing else; every deploy ends |
| `cache_pool` | 2 processes, 3 images, 2 entries, 2 workers, 2 calls, 1 kill, 1 removal from the registry | soundness, bound, no call is ever stuck |
| `addon_faults` | 3 add-ons, 3 commands, 2 failing calls, 1 kill, 2 attempts | a working release is kept, success means installed, teardown leaves nothing |
| `pf_alone` | 2 terminals, 2 clusters, 3 commands one at a time, 1 kill, 1 other program | no port-forward of an earlier command is taken for a command's own; teardown of the detached one |
| `pf_together` | 2 commands at the same time, 1 failing call, 1 other program, hanging processes | no attached port-forward and no HAProxy is left running, of detached ones whose start failed at most those that hang on SIGTERM; every command ends or reaches its subshell |
| `config_commands` | 3 commands of 16 lines, 4 machines and clusters, 2 sources of a tag, no manifest or one of an older roxie, 1 fault or kill | a line takes effect, a deploy without settings changes nothing, images are chosen anew and are on the node, names and endpoints of a SecuredCluster are its own, pods can pull |

Further properties are stated in the modules and can be added to a configuration. TLC has checked
them, those of the first three points with the bounds of the run:

- `op_interrupted`: the `IndInv` of the proofs and `TeardownRemovesOperators`; `addon_faults`:
  `OrderKept` (add-ons go in in the order of their priority and out in reverse);
- `cache_pool`: `IndInv`, `FreshStay` (the images that a call has just verified outlast it in the
  cache, as far as they fit), `CallsAdvance`, and `GoingOnIsEnabled`: that the guards which
  `NeverStuck` spells out are those of the actions;
- `comp_disturbed`: `CommandAdvances`, `ThreadsAreJoined`, and `GoingOnIsEnabled` of this module;
- OperatorLifecycle: `Removing` with two interruptions, OLM and impatient commands, and with two
  swallowed errors and an interruption without OLM, where it gives `TeardownRepairs`. With OLM and
  one swallowed error TLC refutes `TeardownRepairs`: next to the operator that OLM runs there may be
  one of a version that an earlier command failed to remove, and the teardown of an installation by OLM
  leaves all namespaces but OLM's alone. `CommandAdvances` with one error, one interruption and OLM;
- DeployTimeouts: `EndsInTime` and `TypeOK`, with the bounds of `time_margin`.

Why these bounds: every hazard needs a state left by an earlier command and one more command
that meets it, so two deploys, or three commands where a teardown lies between, are the
smallest instance in which all of them occur; three versions are needed for an upgrade, a
downgrade and a mixed plan with a newest version of its own; two components, add-ons,
goroutines or terminals are enough to interfere, and a third add-on to tell the order by
priority from that by name. In `cache_pool` one list has more images than fit and more than
there are workers, another the same image twice. In `time_margin` margin and padding are as short as
they are in the code, compared to what has to fit in: the wait for the load balancer takes all of the
margin, with the overhead or the probe more than that; one check of the progress, or two failed
`kubectl get`, more than the padding. So behaviours on both sides of each condition occur.
`MaxTime` is never reached there.

In `config_commands` a setting has to get into the manifest, meet another line and be seen in
what that one does: three commands also have room for a teardown in between. The lines are
chosen so that the sections of a configuration are set by one and left alone by another, that
refusals are met which only arise from what the manifest has kept (OLM after mixed versions or
Konflux images, a registry of one's own after Konflux images), and that each operator layout
(one, one per version, OLM, none) follows each other. The machines are a local cluster with credentials in the environment, GKE
with them in files and helpers and a file of the user's, an OpenShift of the infra project that
opens the default registry itself, and a machine without any. The legacy manifest is one whose
operator section has the version that older versions of roxie put there. Two faults are needed
to keep the manifest through a teardown of everything, so that one fault leaves that out. A
randomly drawn cluster name is taken to be new: the code draws one of 9000.

Each module with a type invariant calls it `TypeOK`, and all of them are proved (section 4). They can
be added to a configuration's invariants as well.

Deadlock is checked in the models of the operator, the components and the image cache. The
others may stop (`CHECK_DEADLOCK FALSE`) when their budget of commands is used up, or the deploy
is over.

### Disagreements with the code's own words

With each of these configurations TLC finds a behaviour of the code that a comment, a test or
the documentation denies; the column in the middle names the property (`calls_refuted`, `addon_central` and
`pf_deploy` stand for several: they check one of them, and the others take its place in the
configuration).
The first is a run and a finding of `PROJECT.json`. The others are kept as counterexamples
that can be looked at with `tlc -config <name>.cfg` and the `MC` module of the component.

| Configuration | Property | What happens |
|---|---|---|
| `config_endpoint` | `SensorFindsCentral` | a deploy of both that moves Central leaves the SecuredCluster with the endpoint that the manifest has kept |
| `config_variables` | `OperatorsAsPlanned` | an operator with the right image keeps the variables of an earlier deploy |
| `config_failfast` | `FailsFast` | the operator's repository asks for credentials after the old operator has been removed |
| `calls_refuted` | `SecretsSurvive` | the second attempt to apply a secret read from a `strings.Reader` sends nothing |
| `addon_third` | `InstallIdempotent` | the third deploy of an add-on fails |
| `op_crd_behind` | `CrdsAtNewestVersion` | an interrupted deploy leaves CRDs older than the operator, and the next one finds all in order |
| `op_terminating` | `DeployEstablishesPlan` | a deployment in a namespace that is being deleted counts as deployed |
| `op_orphan` | `DeployEstablishesPlan` | a CSV without Subscription counts as an OLM installation |
| `comp_operator_first` | `OperatorGoesLast` | the operator is removed although a component's teardown failed |
| `comp_deleting` | `DeployLasts` | a custom resource is applied onto one that is being deleted |
| `comp_manifest` | `ManifestOpensCentral` | deploying the operator alone replaces Central's recorded password |
| `comp_owner_race` | `LeavesOthersAlone` | an object is replaced between its owner check and its deletion |
| `calls_refuted` | `NamespaceSurvives` | a repeated creation of a namespace fails because of the first attempt |
| `calls_refuted` | `NamespaceIsLabelled` | a namespace that missed its label never gets it |
| `time_clamped` | `WaitIsNeverCut` | the wait for the load balancer uses up the margin, and the deploy's context cuts the next wait short |
| `time_busy` | `AvailableAlwaysSucceeds` | retries of `kubectl get` use up the padding, and a component that was ready in time is reported as timed out |
| `addon_failed_deploy` | `RecentUninstalled` | add-ons of a failed deploy are unknown to the teardown |
| `addon_central` | `CentralOutlivesAddOns` | Central is torn down under its add-ons |
| `addon_central` | `InstalledAfterCentral` | add-ons are installed without Central |
| `pf_race` | `EndpointIsMine` | another command, or another program, takes the port that was found free, and the endpoint leads there |
| `pf_deploy` | `DeployLeavesNothing` | the attached port-forward of a deploy outlives it |
| `pf_deploy` | `FailedStartIsGone` | a detached port-forward that hangs outlives the SIGTERM after its failed start |
| `pf_envrc` | `EnvrcNamesForwarder` | an envrc names a process that is gone |
| `pf_deploy` | `DetachedCanBeStopped` | the id of a detached port-forward is forgotten |
| `pf_banner` | `BannerLeadsToCentral` | the banner leads to the HAProxy of another subshell |

### Fairness

- OperatorLifecycle: roxie's steps are weakly fair, since the Go scheduler runs its only
  goroutine and every wait has a timeout; so are the cluster's (namespaces are removed, OLM
  works). Nothing is assumed about new commands or interruptions.
- ComponentLifecycle and ImageCache state no fairness. That their commands and calls end is
  stated as a state property: past its deadline a command can always go on
  (`DeadlineFreesCommand`; the deadline itself is a timer, and nothing is assumed of the
  operator, which need not ever remove a finalizer), and a call that verifies images can
  always go on (`NeverStuck`). Both have finitely many steps left, so they end if the Go
  scheduler runs them.
- DeployTimeouts: roxie's steps, and that time passes.
- DeployCommands states no fairness, and nothing about it is temporal.
- PortForwarding (`FairSpec`): roxie's steps only; a port-forward need not ever listen, or react
  to SIGTERM.

## 4. Proofs

TLAPS checks each of these for every value of the constants, under the named assumptions of the
module that declares them (numbers are natural numbers, sets are not empty).

**OperatorLifecycle_proofs.** `TypeCorrect` holds without restriction. `NeverDoubleReconcile`
and `ImplementsHandover` rest on `Inductive` and assume `MaxFaults = 0`: if one deletion is
swallowed, an operator may indeed survive next to the new one until the following command
(`op_faulty` shows what holds then). They allow any number of interruptions. `NoDoubleReconcile`
is not inductive: that a deployment may be created depends on what the stale loop has passed,
on the return point of the teardown that is running, and on a Subscription that may bring an
operator later. `IndInv` says so: an operator in the system namespace, or a Subscription,
excludes the other two (`SystemExclusive`); namespaces outside the plan are absent behind the
loop (`StaleGone`); deployments are created only where none is left to be replaced
(`NothingToReplace`); with `ControlOK`, `DeletionStarted` and `ObjectsInNamespaces` about where
the process is. The refinement then maps each step: the only ones that acquire a kind are the
creation of a deployment and OLM's.

What commands achieve is proved for clusters that are left in peace (`MaxFaults = 0` and `MaxGiveUps
= 0`: no deletion is swallowed, no command is interrupted), with any number of commands, versions,
CRDs and mode switches: `DeployEstablishesPlanCorrect`, `CrdsAtNewestVersionCorrect`,
`DeployIsIdempotentCorrect` (a step property: a deploy of what is in place changes nothing on the
way, either) and `TeardownLeavesNothingCorrect`. `op_crd_behind`, `op_terminating` and `op_orphan`
show that each of the excluded disturbances breaks one of them. The strengthening is `Undisturbed`:
a namespace at which no work is going on is bare or holds a whole operator (`Tidy`), what the
process has in hand is what it has decided on (`AtHand`), it has been through what lies behind it
(`Elsewhere`, `Unwanted`), and what a finished command leaves (`Left`); no CRD is older than
a running operator (`CrdsCurrent`), and those that a deploy has been through are as new as its
newest version (`CrdsApplied`). `DeployRepairsCorrect` needs neither assumption: after any swallowed errors
and interruptions, a deploy without faults of its own leaves its plan's operators and no others, if
the cluster has no OLM and commands wait for namespaces that are still terminating; `op_orphan` and
`op_terminating` show why these two are needed. Its invariant is `RepairInd`.

Teardowns need less. `TeardownRemovesOperatorsCorrect` allows interruptions, OLM and commands that do
not wait for terminating namespaces, and assumes that no error is swallowed (`MaxFaults = 0`);
`TeardownRepairsCorrect` allows even errors of earlier commands, on a cluster without OLM. Both have
the invariant `Removing`, which speaks of the running teardown alone: what lies behind it in its
loops has no operator, and after the removal of OLM's objects there is no Subscription.

`CommandAdvancesCorrect` is about the control flow itself, without any assumption. Each step of a
command makes the number `StepsLeft` smaller, or leaves one CRD less to apply, and steps of the
cluster leave it alone. `StepsLeft` is of a command that runs a teardown inside a loop over instances
inside a loop over namespaces and returns to one of several callers; where it returns to says how
much is left.

**ComponentLifecycle_proofs.** `NeverAStaleOwner`, `AlwaysAFreshDatabase` and
`TheOperatorGoesLast`, with `TypeCorrect`, for all numbers of deploys, failing calls and kills, in
one namespace or two, with a deadline or without. They share one argument, `Inductive`: while no
call of its command has failed and the deadline has not passed (`Unharmed`), a goroutine past the
custom resource's deletion has no custom resource, and past the database and the volume neither of
these (`Swept`); nobody but the operator puts them back, and the operator does not reconcile
what is not there; so they are still gone when the deploy applies its own (`Cleared`). A failed
call is recorded under its deploy and never forgotten (`FaultsStay`, `FaultHarms`), so that the
properties speak of no deploy for which the argument does not hold. `Control` says where goroutines
may run at all.

`SuccessInvariance` adds `Delivery` for what a success means: where each goroutine is relative to the
command that waits for it (`Threads`), that a teardown has emptied its list as far as it has got
(`TornDown`), that workloads belong to the custom resource that there is (`WorkloadOwned`), that the
custom resource of a deploy is its own from the step that applies it (`Delivered`), and that the
password in the manifest is the one of the secret (`PasswordKept`). From it `DeployDeliversCorrect`,
`TeardownDeliversCorrect` and `DeployRecordsPasswordCorrect`, without further assumptions: the
properties themselves speak of commands without errors of their own and before their deadline, and
leave open what happened to earlier ones. `TeardownDelivers` and `TheOperatorGoesLast` exclude failed
calls of teardowns only (`Clean(0)`): failures in deploys do not touch them. The second one need not
exclude a deadline that has passed either, since the removal of the operator fails then as well.

`ThreadsAreJoinedCorrect`: no goroutine works on for a command that no longer waits for it, and none
is waited for that was not started, so that the command or one of its goroutines always has a call
to make (`CanGoOn`). `CommandAdvancesCorrect`: each such call makes `CallsLeft` smaller, in which
the steps of the command count for more than all calls of the two goroutines that one of them may
start. Both need nothing but types and `Control`.

**ImageCache_proofs.** `CacheInductive` is proved with lemmas about sequences: removing the
first occurrence and evicting the oldest keep a sequence free of duplicates and within its
bound, and its elements among those it had. `Accepting` is the strengthening: a goroutine that
accepts or stores an image is past a successful pull or found it in a cache of verified ones,
which makes `NothingUnpulledIsCached` and `VerdictIsSound` inductive. `CacheTypeCorrect`
includes that only the holder of the mutex is at the changing of the cache.

Two more parts of `IndInv` are about the end of a call. `FreshLast`: the images that a call has added
are the last ones of its cache, so that an eviction, which takes the first one, hits one of them only
if there are more of them than fit; `FreshImagesStay` is what follows. `HolderWorks`: whoever holds the mutex is a goroutine
that will release it. With it, `NeverStuckCorrect`: if no goroutine has anything to do, the semaphore
is full of goroutines that wait for a mutex which one of them holds, a contradiction that needs the
count of goroutines at work. `CallsAdvanceCorrect` bounds the steps that are left by a
set that only shrinks: six for each goroutine.

**DeployTimeouts_proofs.** None of these theorems has a condition on the constants, so all of them hold for
those of the code: 10 minutes of margin, up to 10 for the load balancer and 5 for the probe, 5 seconds
of padding, and 4 and 6 of sleep between the attempts of a `kubectl get`. What can go wrong there is
a matter of the behaviour, and the properties say of which.

`TimeInvariant` is a balance: the time in every state is at most the timeouts of the components so
far and what the deploy has `spent` on everything else (`Accounted`, with what each wait has to do with
its own deadline). From it, `WaitsAreNotClamped`: a wait is cut short only if more than the margin has
been spent; and `SuccessesAreRecorded`: the manifest is missing after a success only if the margin has
been spent. `AvailableInTimeSucceedsCorrect`: a component that is ready before its timeout is reported
as such, whichever of several ready cases `select` takes, unless failed and slow calls have cost
more than the padding leaves after one poll, or the deploy's context ended the wait. Its invariant
(`Noticed`) follows the result from the goroutine through the channel to the loop: at every place, the
time since the component was ready is at most what was `lost` and one poll. `EndsInTimeCorrect`: a
deploy outlasts its deadline by one check of the progress, the steps that do not look at the context,
and the waits for the load balancer and for Central's answer, at most; each readiness wait ends with its
context or with the check that began before (`Lateness`). `TypeCorrectness` comes with them.

**KubectlCalls_proofs.** `CallsInvariant`: at each call, what the earlier ones have left, and
that every name Central knows is of an earlier deploy or attempt. From it `DeployAppliesItsOwn`,
`RetriesNeverHarm` and `CallsTypeCorrect`, for all numbers
of attempts and deploys.

**DeployCommands_proofs.** A registry may answer differently each time it is asked whether a
repository is private, and a step that needs credentials asks after the old component has gone.
`DecidedOnce`: no component is torn down and then not deployed for want of credentials, for all
command lines, machines and manifests and any number of commands and faults. The invariant is
that a deploy past its preparation remembers the answer about the repository of main
(`AnswerRemembered`, `AnswerStays`), and has credentials if this answer asks for them; the later
questions are about the same repository, because the configuration no longer changes. The
operator's repository is another one, and `config_failfast` shows that no such theorem holds for
it.

The other theorems need to know what the pure functions of Configuration do to a setting. The lemmas
about them come first: a configuration has its sections and these their settings (`IsConfig`), and
for each setting there is an equation for the merge (`PatchedSettings`, `MergedSetting`), for what is
taken from the manifest (`BaseSettings`) and for the completion (`ConfigurationCompleted`); together
they say where every setting of a deploy's configuration comes from (`PreparedSettings`). No record is
expanded after that. `Known` is the inductive invariant that all theorems share: `Decided` from above,
which command of which line is running (`Jobs`), and that every variable of an operator in the
manifest or in a running deploy comes from some line or file (`Explained`). On top of it:

| Theorem | Invariant | Assumed of lines, hosts and old manifests |
|---|---|---|
| `OperandImagesAreCurrentCorrect` | `Known` | `LegacyIsSound`, `LegacyWithoutVariables`: an old manifest is a configuration and has no variables; `SwitchesAreNoImages`: no image is named like the variables that switch a reconciler off |
| `PreloadCoversPlanCorrect` | `ImagesAreThere` | the same |
| `PodsCanPullCorrect` | `Access` (`Placed`, `Truthful`, `OpensRegistry`), `Opened` | the first two; `PlacesExist`: namespaces named are namespaces; `TypesAreDetected`: nobody sets the cluster's type by hand |
| `SensorWiredAnewCorrect` | `Wiring`, see below | those of `PodsCanPullCorrect`; `NamesAreDrawn`: cluster names and endpoints are not given by hand; `PartsAreUsual`: a SecuredCluster comes alone or with Central; `OnlyDeploysPlaceCentral`: Central's namespace is set by lines that deploy it, not by the file or by others |
| `RedeployKeepsConfigCorrect` | `Whole` | `LegacyIsSound`, `LegacyWithoutVariables`; `TagsAreGiven`: the lookup of a tag finds one or is refused |
| `LineTakesEffectCorrect` | `Followed`, `Unpinned` | `LegacyIsSound`, `LegacyWithoutVariables`; `LegacyIsUnpinned`: old manifests have no versions for operators but the baked-in one; `SettingsAreFinite`: finitely many flags, and variables in lists |

The lines, hosts and manifests of `config_commands` satisfy all of these. Without `NamesAreDrawn` a
user can give a name twice; `TypesAreDetected` and `OnlyDeploysPlaceCentral` exclude that a line
changes under an existing cluster what was established by another (moving Central without deploying
it, as in `config_endpoint`).

`Wiring`: names in the manifest, in a running deploy and in Centrals were drawn, hence are numbers
that `names` has passed (`Drawn`), and the name of a deploy that will register is not among those
that its Central has seen, since a SecuredCluster by itself gets a new one and one together with
Central meets an empty Central (`Fresh`). `Led`: as long as there were no faults, the
Central that API_ENDPOINT leads to is where the manifest says, or a deploy is just replacing it;
with `Endpoints` this gives `Registered`, the second half of the property.

`Whole`: a manifest that some deploy wrote is `Complete`, a fixed point of defaults, lookups and profiles,
and resolves to what that deploy resolved to. Each part of the completion is shown to be idempotent
(`FilledOnce`, `ProfileResolvedOnce`, `ExposureFilledOnce`, `ForwardingFilledOnce`), so that the
deploy of a complete manifest with nothing on top resolves to the same (`ManifestReproduced`), although
`DropBakedOperatorDefaults` changes the configuration itself.

For `LineTakesEffectCorrect`, `LastValueCounts` shows that of a list with flags appended the last entry
of a flag is the appended one, wherever `SetToSeq` puts it.

**AddOnReleases_proofs.** `AWorkingReleaseIsKept` (`WorkingKept`): the forced uninstall of a
deploy never hits a release with a deployed revision, for all add-ons and priorities and any
number of attempts, commands, failing calls and kills in the middle of a Helm action. The code
decides by the oldest revision alone, so the invariant (`HistoriesInOrder`) says where a deployed
revision can be: at the beginning of a history, or at its end, but then only after an oldest one
that it has superseded (`DeployedPlace`). An oldest revision that is pending or has failed
therefore has no deployed one after it. `Relies` says what each step of a Helm action knows of
the history from the steps before it.

`SuccessInvariance` adds `Success`: a command still has an add-on before it or is done with it
(`Installs`, `Removes`), the manifest knows what is installed except between an installation and its
recording, and a command knows it from there (`Known`). From it `DeployInstallsCorrect` and
`NoLeftoversCorrect`, whatever earlier commands left; the properties themselves are about commands
that succeed. `SortAddOns` chooses a sequence of the add-ons that is in order, instead of computing
one: nothing but its elements and their order is used. The queue of a command stays in that order
and what has an outcome is no longer in it (`InOrder`), which gives `OrderKeptCorrect`.

**PortForwarding_proofs.** Processes die, are killed by others and their ids are given out again;
every claim about a stored id therefore rests on who owns the process. `Structure` says so: each
process belongs to the command that started it, as its child or its proxy (`Ownership`), a command
that has not ended keeps these ids from being reused, since its children stay zombies until it waits
for them (`Keeps`), and what a process serves is a Central that has existed (`Served`). `Tidy` adds
how far a command has come (`Progress`), and with it come `ShellLeavesNothingCorrect` and
`FailedStartLeavesNothingCorrect`, for any number of commands at the same time. The other two
hold for one command at a time only (`~Together`, `OneAtATime`). `StaleForwardsAreAvoidedCorrect`: no
port-forward, detached or orphaned, that earlier commands and their failed starts have left is taken for
the one a command has started. The property leaves out behaviours in which a command was killed or
another program started: in the others a port that was found free stays free until the command's own
port-forward listens (`Undisturbed`), while `pf_race` shows two commands that find the same one, and
the same property without its condition is refuted by a program that takes the port in between, too.
`FailedStartLeavesNothingCorrect` promises no more than the code does: `StartDetached` sends a
SIGTERM and no more, so that a detached kubectl may hang (`FailedStartIsGone`). `TeardownFreesPortCorrect`,
a step property, holds if no call fails (`MaxFaults = 0`; `Stopped`).

Only model-checked: what needs fairness (`CommandReturns` of OperatorLifecycle and of PortForwarding,
`DeployEnds`) or ENABLED (`DeadlineFreesCommand`, `GoingOnIsEnabled`), which the proof system does
not do. What stands behind most of these is proved: the variants `CommandAdvances` and
`CallsAdvance`, the bound `EndsInTime`, and `CanGoOn` in ImageCache and ComponentLifecycle. That an
enabled step is taken is the fairness that section 3 states. Every other invariant and step property
of a passing run is stated by a theorem.

## 5. Not modelled

Contents of objects (custom resources beyond what a deploy's settings put there, RBAC rules,
chart values, the manifest's encoding and its certificates), the pipes between container
runtimes, requests to registries, parsing of flags, files and version strings, and all output:
`PROJECT.json` gives the reason for each. Within the modelled parts: the bundle's services in
OperatorLifecycle; the add-ons of a command line, dry runs, the image of the bundle and the
growth of a service account's list of pull secrets in DeployCommands, where `--config` files and
`--set` are one merged value of a line; a configuration that switches an add-on of the manifest
off, chart dependencies, two roxie processes on one cluster (except for the cache file and the
ports), and clusters changed by anybody else.

## 6. Plan

Done, in this order: OperatorLifecycle with ReconcilerHandover, ComponentLifecycle, ImageCache,
AddOnReleases, PortForwarding, DeployTimeouts, KubectlCalls, Configuration and RegistryAccess
with DeployCommands; proofs about all of them, of every invariant and step property of the passing
runs that is not about ENABLED, and variants for the termination of what they do.

Next, to extend the model:

1. *DeployProtocol*: an abstract specification of a command as its user sees it (what exists
   before, what is promised after), which ComponentLifecycle implements; and a composition of it
   with AddOnReleases, whose Central is a single step so far.
2. Concurrent roxie processes on one cluster, for OperatorLifecycle.

Then, to prove:

3. OperatorLifecycle: what of `DeployRepairs` and `TeardownRepairs` holds with OLM on the cluster.
4. ComponentLifecycle: its mapping to DeployProtocol, with `Delivery`.
