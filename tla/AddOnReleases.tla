---------------------------- MODULE AddOnReleases ----------------------------
(***************************************************************************)
(* Add-ons: Helm charts that are installed next to Central                 *)
(* (internal/deployer/addons*.go, internal/helm/helm.go) by the deploy     *)
(* command and removed by the teardown command, which knows them from the  *)
(* configuration in the manifest (cmd/config.go, internal/manifest).       *)
(*                                                                         *)
(* One command runs at a time.  Every Helm action has several writes, can  *)
(* fail between them with an error that is retried or not, and roxie can   *)
(* be killed between them.  Helm keeps one record per revision of a        *)
(* release, with a status; its storage lists the oldest revision first.    *)
(***************************************************************************)
EXTENDS Integers, SequencesExt

CONSTANTS
  AddOns,       \* names of add-ons: numbers, in the order of the names
  Priority,     \* priority of each add-on
  Optional,     \* the add-ons that are optional
  RepoAddOns,   \* the add-ons whose chart lies in a checkout of stackrox
  MaxAttempts,  \* maxAttempts of internal/helm
  MaxCommands,  \* bound on commands
  MaxFaults,    \* bound on failing calls
  MaxKills      \* bound on killed commands

ASSUME AddOnsAssumption ==
  /\ AddOns \subseteq Nat /\ IsFiniteSet(AddOns) /\ Priority \in [AddOns -> Nat]
  /\ Optional \subseteq AddOns /\ RepoAddOns \subseteq AddOns
ASSUME BoundsAssumption ==
  /\ MaxAttempts \in Nat \ {0} /\ MaxCommands \in Nat /\ MaxFaults \in Nat /\ MaxKills \in Nat

VARIABLES
  \* the cluster
  hist,      \* per add-on: the statuses of its release's revisions, oldest first
  central,   \* "absent" or "ready"
  manifest,  \* the configuration in the manifest: the add-ons it enables, or NoManifest
  \* the command
  stage,     \* what the command is doing
  cmd,       \* "deploy" or "teardown"
  comps,     \* its components
  enabled,   \* the add-ons that its configuration enables
  queue,     \* the enabled add-ons that it has not finished with, in order
  step,      \* where it is in the Helm action for the first of them
  attempt,   \* of that action
  outcome,   \* per add-on: "none", "ok" or "failed"
  \* history and budgets
  spotless,  \* no add-on was installed or kept that the manifest does not have
  recent,    \* the add-ons of the latest deploy that were given to Helm
  commands, faults, kills

vars == <<hist, central, manifest, stage, cmd, comps, enabled, queue, step, attempt,
          outcome, spotless, recent, commands, faults, kills>>

NoManifest == {-1}

\* Operator is like SecuredCluster here, and All like Both.
Components == {"Central", "SecuredCluster", "Both", "AddOns"}
IncludesCentral == comps \in {"Central", "Both"}
IncludesSensor == comps \in {"SecuredCluster", "Both"}
IncludesAddOns(c) == c # "SecuredCluster"

Fault == faults < MaxFaults /\ faults' = faults + 1

(***************************************************************************)
(* Helm's records of a release.                                            *)
(***************************************************************************)
Pending == {"pending-install", "pending-upgrade"}
Statuses == Pending \cup {"deployed", "superseded", "failed", "uninstalling"}

\* What the uninstall and upgrade actions of Helm do to the newest revision.
WithStatus(h, status) == [h EXCEPT ![Len(h)] = status]

\* The storage ignores the limit of one revision that the caller asks for.
ReleaseStatusMutant(h) == IF h = <<>> THEN "unknown" ELSE Last(h)
ReleaseStatus(h) == IF h = <<>> THEN "unknown" ELSE Head(h)

(***************************************************************************)
(* Resolving add-ons: higher priority first, then by name.                 *)
(***************************************************************************)
Before(a, b) == Priority[a] > Priority[b] \/ (Priority[a] = Priority[b] /\ a < b)
SortAddOnsMutant(S) == SetToSortSeq(S, LAMBDA a, b : a < b)
SortAddOns(S) ==
  CHOOSE q \in [1 .. Cardinality(S) -> S] : \A i, j \in 1 .. Cardinality(S) : i < j => Before(q[i], q[j])

\* The configuration starts from the manifest, if it can be loaded.
ConfigForCommandMutant(base, own) == own
ConfigForCommand(base, own) == IF base = NoManifest THEN own ELSE base \cup own

(***************************************************************************)
(* The start and the end of a command.                                     *)
(***************************************************************************)
Fail == stage' = "failed"

\* Charts in the stackrox repository only resolve in a checkout of it.
Start(c, components, own, inCheckout) ==
  /\ stage \in {"idle", "failed", "succeeded"} /\ commands < MaxCommands
  /\ commands' = commands + 1
  /\ cmd' = c /\ comps' = components
  /\ \/ enabled' = ConfigForCommand(manifest, own) /\ UNCHANGED <<spotless, faults>>
     \/ enabled' = own /\ spotless' = FALSE /\ Fault
  /\ outcome' = [a \in AddOns |-> "none"] /\ step' = "start" /\ attempt' = 1
  /\ LET addOns == IF IncludesAddOns(components) THEN enabled' ELSE {}
         sorted == SortAddOns(addOns) IN
     /\ queue' = IF c = "deploy" THEN sorted ELSE Reverse(sorted)
     /\ stage' = IF addOns \cap RepoAddOns # {} /\ ~inCheckout THEN "failed"
                 ELSE IF c = "teardown" THEN "addons"
                 ELSE IF components \in {"Central", "Both"} THEN "central" ELSE "namespace"
  /\ UNCHANGED <<hist, central, manifest, recent, kills>>

StartDeploy == \E c \in Components, own \in SUBSET AddOns, inCheckout \in BOOLEAN :
  Start("deploy", c, own, inCheckout)
StartTeardown == \E c \in Components \ {"SecuredCluster"}, inCheckout \in BOOLEAN :
  Start("teardown", c, {}, inCheckout)

Killed ==
  /\ stage \notin {"idle", "failed", "succeeded"} /\ kills < MaxKills
  /\ kills' = kills + 1
  /\ stage' = "idle"
  /\ spotless' = (spotless /\ (cmd = "teardown" \/ enabled \subseteq manifest))
  /\ UNCHANGED <<hist, central, manifest, cmd, comps, enabled, queue, step, attempt, outcome,
                 recent, commands, faults>>

(***************************************************************************)
(* Central and the rest of a deploy.                                       *)
(***************************************************************************)
Settled == UNCHANGED <<hist, cmd, comps, enabled, queue, step, attempt, outcome, recent, commands, kills>>

\* An existing Central is torn down first; a failure is only logged.
TeardownExistingCentral ==
  /\ stage = "central" /\ stage' = "operator"
  /\ \/ central' = "absent" /\ UNCHANGED faults
     \/ UNCHANGED central /\ Fault
  /\ Settled /\ UNCHANGED <<manifest, spotless>>

DeployCentral ==
  /\ stage = "operator"
  /\ \/ central' = "ready" /\ stage' = "namespace" /\ UNCHANGED <<faults, spotless>>
     \/ UNCHANGED <<central, spotless>> /\ Fail /\ Fault
  /\ Settled /\ UNCHANGED manifest

\* deployAddOns prepares Central's namespace when there is any add-on.
PrepareNamespace ==
  /\ stage = "namespace"
  /\ \/ stage' = "addons" /\ UNCHANGED <<faults, spotless>>
     \/ queue # <<>> /\ Fail /\ UNCHANGED spotless /\ Fault
  /\ recent' = IF IncludesAddOns(comps) THEN enabled ELSE recent
  /\ UNCHANGED <<hist, central, manifest, cmd, comps, enabled, queue, step, attempt, outcome, commands, kills>>

\* The deploy ends without recording its configuration.
Unrecorded == spotless' = (spotless /\ enabled \subseteq manifest)

DeploySensor ==
  /\ stage = "addons" /\ cmd = "deploy" /\ queue = <<>>
  /\ \/ stage' = "record" /\ UNCHANGED <<faults, spotless>>
     \/ IncludesSensor /\ Fail /\ Unrecorded /\ Fault
  /\ Settled /\ UNCHANGED <<central, manifest>>

\* The manifest keeps the whole configuration.  Failing to write it is a warning.
RecordManifestMutant ==
  /\ stage = "record" /\ stage' = "succeeded"
  /\ manifest' = {a \in enabled : outcome[a] = "ok"} /\ UNCHANGED <<faults, spotless>>
  /\ Settled /\ UNCHANGED central
RecordManifest ==
  /\ stage = "record" /\ stage' = "succeeded"
  /\ \/ manifest' = enabled /\ UNCHANGED <<faults, spotless>>
     \/ UNCHANGED manifest /\ Unrecorded /\ Fault
  /\ Settled /\ UNCHANGED central

\* Only a teardown of nothing but Central fails with it.
TeardownCentral ==
  /\ stage = "addons" /\ cmd = "teardown" /\ queue = <<>>
  /\ IF IncludesCentral
       THEN \/ central' = "absent" /\ stage' = "forget" /\ UNCHANGED faults
            \/ UNCHANGED central /\ stage' = (IF comps = "Central" THEN "failed" ELSE "forget") /\ Fault
       ELSE stage' = "succeeded" /\ UNCHANGED <<central, faults>>
  /\ Settled /\ UNCHANGED <<manifest, spotless>>

ForgetManifest ==
  /\ stage = "forget" /\ stage' = "succeeded"
  /\ \/ manifest' = NoManifest /\ UNCHANGED faults
     \/ UNCHANGED manifest /\ Fault
  /\ Settled /\ UNCHANGED <<central, spotless>>

(***************************************************************************)
(* Installing and uninstalling the first add-on of the queue.              *)
(***************************************************************************)
Same == UNCHANGED <<central, manifest, cmd, comps, enabled, recent, commands, kills>>
Goto(label) == step' = label /\ UNCHANGED <<stage, queue, attempt, outcome, spotless, faults>>

Done(a, how) ==
  /\ outcome' = [outcome EXCEPT ![a] = how]
  /\ queue' = Tail(queue) /\ step' = "start" /\ attempt' = 1

Succeeded(a) == Done(a, "ok") /\ UNCHANGED <<stage, spotless>>

\* Without a required add-on the deploy ends here.  A teardown only logs.
GaveUp(a) ==
  IF cmd = "deploy" /\ a \notin Optional
  THEN /\ Fail /\ Unrecorded
       /\ outcome' = [outcome EXCEPT ![a] = "failed"] /\ UNCHANGED <<queue, step, attempt>>
  ELSE /\ Done(a, "failed") /\ UNCHANGED stage
       /\ spotless' = (spotless /\ (cmd = "deploy" \/ comps = "AddOns"))

\* A call failed: with an error that is retried after a while, or for good (also
\* when the context ends during the wait).
AttemptFailedMutant(a) ==
  /\ Fault
  /\ IF attempt < MaxAttempts
       THEN attempt' = attempt + 1 /\ step' = "start" /\ UNCHANGED <<stage, queue, outcome, spotless>>
       ELSE Succeeded(a)
AttemptFailedOneMoreMutant(a) ==
  /\ Fault
  /\ \/ /\ attempt <= MaxAttempts
        /\ attempt' = attempt + 1 /\ step' = "start"
        /\ UNCHANGED <<stage, queue, outcome, spotless>>
     \/ GaveUp(a)
AttemptFailed(a) ==
  /\ Fault
  /\ \/ /\ attempt < MaxAttempts
        /\ attempt' = attempt + 1 /\ step' = "start"
        /\ UNCHANGED <<stage, queue, outcome, spotless>>
     \/ GaveUp(a)

\* doInstall looks at the release; when that fails it sees no release.
InspectRelease(a) ==
  /\ step = "start" /\ cmd = "deploy"
  /\ UNCHANGED hist
  /\ LET status == ReleaseStatus(hist[a]) IN
     \/ /\ status \in Pending \cup {"failed"} /\ Goto("uninstall")
     \/ /\ status = "deployed" /\ Goto("upgrade")
     \/ /\ status \notin Pending \cup {"failed", "deployed"} /\ Goto("install")
     \/ /\ Fault /\ step' = "install" /\ UNCHANGED <<stage, queue, attempt, outcome, spotless>>
     \/ AttemptFailed(a)

\* Helm refuses a name in use, for good.
InstallRelease(a) ==
  /\ step = "install"
  /\ \/ /\ hist[a] = <<>> /\ hist' = [hist EXCEPT ![a] = <<"pending-install">>]
        /\ Goto("installing")
     \/ /\ hist[a] # <<>> /\ GaveUp(a) /\ UNCHANGED <<hist, faults>>
     \/ AttemptFailed(a) /\ UNCHANGED hist

\* Helm refuses while another operation seems to run.
UpgradeRelease(a) ==
  /\ step = "upgrade"
  /\ \/ /\ Last(hist[a]) \notin Pending
        /\ hist' = [hist EXCEPT ![a] = Append(@, "pending-upgrade")]
        /\ Goto("upgrading")
     \/ /\ Last(hist[a]) \in Pending /\ GaveUp(a) /\ UNCHANGED <<hist, faults>>
     \/ AttemptFailed(a) /\ UNCHANGED hist

SupersedeRevision(a) ==
  /\ step = "upgrading"
  /\ hist' = [hist EXCEPT ![a] = [i \in DOMAIN @ |-> IF @[i] = "deployed" THEN "superseded" ELSE @[i]]]
  /\ Goto("installing")

FinishRelease(a) ==
  /\ step = "installing"
  /\ hist' = [hist EXCEPT ![a] = WithStatus(@, "deployed")]
  /\ Succeeded(a) /\ UNCHANGED faults

\* The failure is recorded, unless that fails too.
FailRelease(a) ==
  /\ step \in {"installing", "upgrading"}
  /\ hist' \in {hist, [hist EXCEPT ![a] = WithStatus(@, "failed")]}
  /\ AttemptFailed(a)

\* Uninstalling marks the newest revision and then removes one after the other.
\* A release that is not there is fine.
UninstallRelease(a) ==
  /\ step = "uninstall" \/ (step = "start" /\ cmd = "teardown")
  /\ \/ /\ hist[a] = <<>> /\ UNCHANGED hist
        /\ IF cmd = "deploy" THEN Goto("install") ELSE Succeeded(a) /\ UNCHANGED faults
     \/ /\ hist[a] # <<>> /\ hist' = [hist EXCEPT ![a] = WithStatus(@, "uninstalling")]
        /\ Goto("purging")
     \/ AttemptFailed(a) /\ UNCHANGED hist

PurgeRevision(a) ==
  /\ step = "purging"
  /\ \/ /\ hist' = [hist EXCEPT ![a] = Tail(@)]
        /\ IF Len(hist[a]) > 1 THEN UNCHANGED <<stage, queue, step, attempt, outcome, spotless, faults>>
           ELSE IF cmd = "deploy" THEN Goto("install")
           ELSE (Succeeded(a) /\ UNCHANGED faults) \/ AttemptFailed(a)
     \/ AttemptFailed(a) /\ UNCHANGED hist

Helm ==
  /\ stage = "addons" /\ queue # <<>>
  /\ LET a == Head(queue) IN
     \/ InspectRelease(a) \/ InstallRelease(a) \/ UpgradeRelease(a) \/ SupersedeRevision(a)
     \/ FinishRelease(a) \/ FailRelease(a) \/ UninstallRelease(a) \/ PurgeRevision(a)
  /\ Same

(***************************************************************************)
(* The specification.                                                      *)
(***************************************************************************)
Init ==
  /\ hist = [a \in AddOns |-> <<>>] /\ central = "absent" /\ manifest = NoManifest
  /\ stage = "idle" /\ cmd = "deploy" /\ comps = "Central" /\ enabled = {}
  /\ queue = <<>> /\ step = "start" /\ attempt = 1
  /\ outcome = [a \in AddOns |-> "none"]
  /\ spotless = TRUE /\ recent = {}
  /\ commands = 0 /\ faults = 0 /\ kills = 0

Next ==
  \/ StartDeploy \/ StartTeardown \/ Killed
  \/ TeardownExistingCentral \/ DeployCentral \/ PrepareNamespace \/ DeploySensor \/ RecordManifest
  \/ TeardownCentral \/ ForgetManifest
  \/ Helm

Spec == Init /\ [][Next]_vars

(***************************************************************************)
(* Properties.                                                             *)
(***************************************************************************)
\* Every variable has its type; the queue is what is left of the enabled add-ons.
TypeOK ==
  /\ hist \in [AddOns -> Seq(Statuses)]
  /\ central \in {"absent", "ready"} /\ (manifest = NoManifest \/ manifest \subseteq AddOns)
  /\ stage \in {"idle", "central", "operator", "namespace", "addons", "record", "forget",
                "failed", "succeeded"}
  /\ cmd \in {"deploy", "teardown"} /\ comps \in Components
  /\ enabled \subseteq AddOns /\ queue \in Seq(AddOns) /\ ToSet(queue) \subseteq enabled
  /\ step \in {"start", "uninstall", "purging", "install", "installing", "upgrade", "upgrading"}
  /\ attempt \in 1 .. MaxAttempts
  /\ outcome \in [AddOns -> {"none", "ok", "failed"}]
  /\ spotless \in BOOLEAN /\ recent \subseteq AddOns
  /\ commands \in 0 .. MaxCommands /\ faults \in 0 .. MaxFaults /\ kills \in 0 .. MaxKills

\* The forced uninstall of Install never hits a release that works: a deploy
\* removes no revision of a release with a deployed one, whatever failed or was
\* killed before.
WorkingKept ==
  [][\A a \in AddOns : cmd = "deploy" /\ Contains(hist[a], "deployed") => Len(hist'[a]) >= Len(hist[a])]_vars

\* A deploy that succeeds has tried every enabled add-on; only optional ones may
\* have failed, and what counts as installed has a deployed newest revision.
DeployInstalls ==
  stage = "succeeded" /\ cmd = "deploy" /\ IncludesAddOns(comps) =>
    \A a \in enabled :
      \/ outcome[a] = "ok" /\ hist[a] # <<>> /\ Last(hist[a]) = "deployed"
      \/ outcome[a] = "failed" /\ a \in Optional

\* Add-ons are installed from the highest to the lowest priority and removed the
\* other way round, also with retries and failures in between.
OrderKept ==
  \A a, b \in enabled :
    Before(a, b) => IF cmd = "deploy" THEN outcome[b] # "none" => outcome[a] # "none"
                                      ELSE outcome[a] # "none" => outcome[b] # "none"

\* A teardown that uninstalls everything that its configuration enables leaves no
\* release at all, though deploys may have enabled different add-ons: as long as
\* the manifest knew what was installed.
NoLeftovers ==
  stage = "succeeded" /\ cmd = "teardown" /\ spotless /\ (\A a \in enabled : outcome[a] = "ok") =>
    \A a \in AddOns : hist[a] = <<>>

\* "Install installs or upgrades a Helm chart idempotently" (helm.go:49): without
\* any failing call every add-on installs, however often it was before.
InstallIdempotent ==
  faults = 0 /\ kills = 0 /\ cmd = "deploy" => \A a \in AddOns : outcome[a] # "failed"

\* "roxie discovers which add-ons have been installed as part of the most recent
\* deployment and uninstalls those add-ons" (README.md:198), if it can read the
\* manifest and no uninstall fails.
RecentUninstalled ==
  stage = "forget" /\ (manifest = NoManifest \/ manifest \subseteq enabled)
    /\ (\A a \in enabled : outcome[a] = "ok") =>
      \A a \in recent : hist[a] = <<>>

\* Add-ons are "torn down before Central is removed" (README.md:164).
CentralOutlivesAddOns ==
  [][central = "ready" /\ central' = "absent" => \A a \in AddOns : hist[a] = <<>>]_vars

\* "Add-ons are installed after Central becomes ready" (README.md:163).
InstalledAfterCentral ==
  [][\A a \in AddOns : hist[a] = <<>> /\ hist'[a] # <<>> => central = "ready"]_vars
=============================================================================
