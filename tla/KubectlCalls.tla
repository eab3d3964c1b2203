----------------------------- MODULE KubectlCalls -----------------------------
(***************************************************************************)
(* The retries of RunKubectl (internal/k8s/kubectl.go) and of generateCRS  *)
(* (internal/deployer/crs.go), in the place where both matter: what        *)
(* deploySecuredClusterOperator does before it waits for the workload.     *)
(* That is the namespace and its pull secret (prepareNamespace in          *)
(* internal/deployer/deploy_via_operator.go), the cluster registration     *)
(* secret (CRS) that Central issues, and the custom resource.              *)
(*                                                                         *)
(* A step is one attempt of a call.  The server may get it or not, and if  *)
(* it does, its answer may get lost: roxie sees the same transient error   *)
(* in both cases.  Other calls fail for good: denied by the server, or cut *)
(* off by the context.                                                     *)
(***************************************************************************)
EXTENDS Integers

CONSTANTS
  MaxAttempts,     \* MaxAttempts of RunKubectl
  MaxGenerations,  \* maxAttempts of generateCRS
  MaxDeploys       \* bound on the deploys

ASSUME ConstantsAssumption ==
  /\ MaxAttempts \in Nat \ {0} /\ MaxGenerations \in Nat \ {0}
  /\ MaxDeploys \in Nat

VARIABLES
  \* the cluster, and what Central has issued
  ns,          \* the namespace: "absent", "plain" or "labelled"
  pullSecret,  \* the deploys that applied the pull secret and the custom resource last
  cr,
  crs,         \* the name of the CRS in the cluster
  issued,      \* the names of those that Central knows
  \* roxie
  pc,          \* the call it is at, or how the deploy ended
  deploy,      \* which deploy this is
  needPull,    \* needPullSecrets
  expired,     \* has the context expired?
  attempt,     \* of the current call
  consumed,    \* has the call's standard input been read?
  content,     \* crsContent
  refused      \* history: the calls of this deploy that the server refused

cluster == <<ns, pullSecret, cr, crs, issued>>
vars == <<ns, pullSecret, cr, crs, issued, pc, deploy, needPull, expired, attempt, consumed,
          content, refused>>

KubectlCalls == {"exists", "create", "label", "pull", "crs", "cr"}
Calls == KubectlCalls \cup {"generate"}

NoCRS == <<0, 0>>

Init ==
  /\ ns = "absent" /\ pullSecret = 0 /\ cr = 0 /\ crs = NoCRS /\ issued = {}
  /\ pc = "idle" /\ deploy = 0 /\ needPull = FALSE /\ expired = FALSE
  /\ attempt = 1 /\ consumed = FALSE /\ content = NoCRS /\ refused = {}

(***************************************************************************)
(* A deploy begins.  Its teardown of an earlier one, which may stop        *)
(* half-way, is a single step.                                             *)
(***************************************************************************)
StartDeploy ==
  /\ pc \notin Calls /\ deploy < MaxDeploys
  /\ deploy' = deploy + 1 /\ pc' = "exists"
  /\ needPull' \in BOOLEAN
  /\ cr' \in {cr, 0} /\ crs' \in {crs, NoCRS}
  /\ expired' = FALSE /\ attempt' = 1 /\ consumed' = FALSE /\ content' = NoCRS
  /\ refused' = {}
  /\ UNCHANGED <<ns, pullSecret, issued>>

(***************************************************************************)
(* What the API server makes of an attempt.  It refuses to create what is  *)
(* there, to touch what is not, and an apply without an object.            *)
(***************************************************************************)
InputArrives(c) == c = "cr" \/ ~consumed   \* only a bytes.Reader is reset

Accepts(c) ==
  CASE c = "create" -> ns = "absent"
    [] c \in {"exists", "label"} -> ns # "absent"
    [] OTHER -> ns # "absent" /\ InputArrives(c)

Effect(c) ==
  /\ ns' = CASE c = "create" -> "plain" [] c = "label" -> "labelled" [] OTHER -> ns
  /\ pullSecret' = IF c = "pull" THEN deploy ELSE pullSecret
  /\ crs' = IF c = "crs" THEN content ELSE crs
  /\ cr' = IF c = "cr" THEN deploy ELSE cr
  /\ UNCHANGED issued

(***************************************************************************)
(* Where the callers of RunKubectl go on: ensureNamespaceExists takes      *)
(* every error of the get for absence and only warns about the label,      *)
(* ensurePullSecretExists only warns.                                      *)
(***************************************************************************)
Prepared == IF needPull THEN "pull" ELSE "generate"

OnSuccess(c) ==
  CASE c \in {"exists", "label"} -> Prepared
    [] c = "create" -> "label"
    [] c = "pull" -> "generate"
    [] c = "crs" -> "cr"
    [] c = "cr" -> "deployed"

OnErrorMutant(c) ==
  CASE c = "exists" -> "create"
    [] c = "label" -> Prepared
    [] c = "pull" -> "generate"
    [] c = "crs" -> "cr"
    [] OTHER -> "failed"
OnError(c) ==
  CASE c = "exists" -> "create"
    [] c = "label" -> Prepared
    [] c = "pull" -> "generate"
    [] OTHER -> "failed"

Return(target) ==
  /\ pc' = target
  /\ attempt' = 1 /\ consumed' = FALSE
  /\ UNCHANGED <<deploy, needPull>>

AnotherAttempt ==
  /\ attempt' = attempt + 1 /\ consumed' = TRUE
  /\ UNCHANGED <<pc, deploy, needPull>>

(***************************************************************************)
(* RunKubectl.                                                             *)
(***************************************************************************)
UsesContext(c) == c \notin {"exists", "create", "label"}

AttemptAnswered(c) ==
  /\ pc = c /\ ~(expired /\ UsesContext(c))
  /\ IF Accepts(c) THEN Effect(c) /\ Return(OnSuccess(c)) /\ UNCHANGED refused
     ELSE UNCHANGED cluster /\ Return(OnError(c)) /\ refused' = refused \cup {c}
  /\ UNCHANGED <<expired, content>>

GivesUp == attempt = MaxAttempts

TransientError(c) ==
  /\ pc = c /\ ~(expired /\ UsesContext(c))
  /\ UNCHANGED cluster \/ (Accepts(c) /\ Effect(c))
  /\ IF GivesUp THEN Return(OnError(c)) ELSE AnotherAttempt
  /\ UNCHANGED <<expired, content, refused>>

Denied(c) ==
  /\ pc = c /\ ~(expired /\ UsesContext(c))
  /\ Return(OnError(c))
  /\ UNCHANGED <<cluster, expired, content, refused>>

\* kubectl is killed, whatever the server does with its request, or not started.
CutOff(c) ==
  /\ pc = c /\ UsesContext(c)
  /\ UNCHANGED cluster \/ (~expired /\ Accepts(c) /\ Effect(c))
  /\ expired' = TRUE
  /\ Return(OnError(c))
  /\ UNCHANGED <<content, refused>>

RunKubectl ==
  \E c \in KubectlCalls : AttemptAnswered(c) \/ TransientError(c) \/ Denied(c) \/ CutOff(c)

(***************************************************************************)
(* generateCRS: each attempt asks for another name.                        *)
(***************************************************************************)
CRSNameMutant == <<deploy, 1>>
CRSName == <<deploy, attempt>>

Generated ==
  /\ pc = "generate" /\ ~expired
  /\ IF CRSName \notin issued
     THEN /\ issued' = issued \cup {CRSName} /\ content' = CRSName
          /\ Return("crs") /\ UNCHANGED refused
     ELSE /\ Return("failed") /\ refused' = refused \cup {"generate"}
          /\ UNCHANGED <<issued, content>>
  /\ UNCHANGED <<ns, pullSecret, cr, crs, expired>>

TransientGenerationError ==
  /\ pc = "generate" /\ ~expired
  /\ issued' \in {issued, issued \cup {CRSName}}
  /\ IF attempt = MaxGenerations THEN Return("failed")
     ELSE AnotherAttempt
  /\ UNCHANGED <<ns, pullSecret, cr, crs, expired, content, refused>>

GenerationDenied ==
  /\ pc = "generate" /\ ~expired
  /\ Return("failed")
  /\ UNCHANGED <<cluster, expired, content, refused>>

GenerationCutOff ==
  /\ pc = "generate"
  /\ issued' = issued \/ (~expired /\ issued' = issued \cup {CRSName})
  /\ expired' = TRUE
  /\ Return("failed")
  /\ UNCHANGED <<ns, pullSecret, cr, crs, content, refused>>

GenerateCRS == Generated \/ TransientGenerationError \/ GenerationDenied \/ GenerationCutOff

(***************************************************************************)
(* The context may expire between two attempts, and roxie be killed.       *)
(***************************************************************************)
Expire ==
  /\ pc \in Calls /\ ~expired /\ expired' = TRUE
  /\ UNCHANGED <<cluster, pc, deploy, needPull, attempt, consumed, content, refused>>

Killed ==
  /\ pc \in Calls /\ pc' = "killed"
  /\ UNCHANGED <<cluster, deploy, needPull, expired, attempt, consumed, content, refused>>

RoxieStep == RunKubectl \/ GenerateCRS
Next == StartDeploy \/ RoxieStep \/ Expire \/ Killed

Spec == Init /\ [][Next]_vars

(***************************************************************************)
(* Properties.                                                             *)
(***************************************************************************)
Names == (1 .. MaxDeploys) \X (1 .. MaxGenerations)

\* Calls, attempts and objects are what the code distinguishes.
TypeOK ==
  /\ ns \in {"absent", "plain", "labelled"}
  /\ pullSecret \in 0 .. MaxDeploys /\ cr \in 0 .. MaxDeploys
  /\ issued \subseteq Names /\ crs \in Names \cup {NoCRS} /\ content \in Names \cup {NoCRS}
  /\ pc \in Calls \cup {"idle", "deployed", "failed", "killed"}
  /\ deploy \in 0 .. MaxDeploys
  /\ needPull \in BOOLEAN /\ expired \in BOOLEAN /\ consumed \in BOOLEAN
  /\ attempt \in Nat \ {0}
  /\ pc \in KubectlCalls => attempt <= MaxAttempts
  /\ pc = "generate" => attempt <= MaxGenerations
  /\ refused \subseteq Calls

\* A deploy that goes on to wait for the workload has applied its own custom resource, and a CRS
\* that Central issued for this deploy (deploySecuredClusterOperator), whatever was repeated.
DeployApplies ==
  pc = "deployed" => /\ ns # "absent" /\ cr = deploy
                     /\ crs \in issued /\ crs[1] = deploy

\* Repeating a call is harmless: the server refuses neither the custom resource nor the label
\* because of an earlier attempt (RunKubectl resets the reader of applySecuredClusterCR), nor
\* does Central refuse to issue a CRS because of an earlier attempt or deploy (generateCRS:
\* "Include random string for uniqueness, also enabling repeating deploy&teardown cycles").
RetriesAreHarmless == refused \cap {"cr", "label", "generate"} = {}

\* A namespace is not refused because of an earlier attempt of ensureNamespaceExists (RunKubectl
\* executes "with automatic retries on transient errors").
NamespaceSurvives == "create" \notin refused

\* Nor is a secret whose text RunKubectl reads from a strings.Reader (applyCRS and
\* ensurePullSecretExists; "For retry attempts, we need to reset the reader").
SecretsSurvive == refused \cap {"crs", "pull"} = {}

\* The namespace that roxie made carries its label when the deploy goes on (ensureNamespaceExists:
\* "Label namespace as managed by roxie since we just created it").
NamespaceIsLabelled == pc = "deployed" => ns = "labelled"
===============================================================================
