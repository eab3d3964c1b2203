------------------------- MODULE KubectlCalls_proofs -------------------------
(***************************************************************************)
(* What retries leave, for every number of attempts and deploys: a deploy  *)
(* applies its own objects, and neither the custom resource nor the CRS is *)
(* refused because of an earlier attempt.                                  *)
(*                                                                         *)
(* The inductive invariant says how far a deploy has got at each call, and *)
(* that the name it asks Central for is one that Central does not know.    *)
(***************************************************************************)
EXTENDS KubectlCalls, TLAPS

\* From here on the namespace exists.
AfterNamespace == {"label", "pull", "generate", "crs", "cr", "deployed"}
BeforeGeneration == {"exists", "create", "label", "pull"}

Progress ==
  /\ pc # "idle" => deploy # 0
  /\ pc \in AfterNamespace => ns # "absent"
  /\ pc = "crs" => content \in issued /\ content[1] = deploy
  /\ pc \in {"cr", "deployed"} => crs \in issued /\ crs[1] = deploy
  /\ pc = "deployed" => cr = deploy

NamesAreFresh ==
  \A n \in issued : /\ n[1] <= deploy
                    /\ pc \in BeforeGeneration => n[1] < deploy
                    /\ pc = "generate" => n[1] < deploy \/ n[2] < attempt

IndInv == TypeOK /\ Progress /\ NamesAreFresh /\ RetriesAreHarmless

\* The attempts and deploys are numbers.
LEMMA BoundsAreNumbers == MaxAttempts \in Nat \ {0} /\ MaxGenerations \in Nat \ {0} /\ MaxDeploys \in Nat
BY ConstantsAssumption

\* The invariant holds before the first deploy.
LEMMA IndInvInit == Init => IndInv
<1> SUFFICES ASSUME Init PROVE IndInv
  OBVIOUS
<1>1. TypeOK
  <2>1. pc = "idle" /\ pc \notin KubectlCalls /\ deploy \in 0 .. MaxDeploys /\ attempt \in Nat \ {0}
    BY BoundsAreNumbers DEF Init, KubectlCalls
  <2>2. pullSecret \in 0 .. MaxDeploys /\ cr \in 0 .. MaxDeploys
    BY BoundsAreNumbers DEF Init
  <2> QED BY <2>1, <2>2 DEF Init, TypeOK
<1>2. Progress /\ NamesAreFresh /\ RetriesAreHarmless
  BY DEF Init, Progress, AfterNamespace, NamesAreFresh, RetriesAreHarmless
<1> QED BY <1>1, <1>2 DEF IndInv

\* A deploy begins with calls that ask for no CRS.
LEMMA StartKeeps == IndInv /\ StartDeploy => IndInv'
<1> SUFFICES ASSUME IndInv, StartDeploy PROVE IndInv'
  OBVIOUS
<1>1. TypeOK'
  <2>1. deploy' \in 0 .. MaxDeploys /\ cr' \in 0 .. MaxDeploys
    BY BoundsAreNumbers DEF IndInv, StartDeploy, TypeOK
  <2>2. pc' = "exists" /\ pc' \in Calls /\ attempt' = 1 /\ attempt' <= MaxAttempts
    BY BoundsAreNumbers DEF StartDeploy, Calls, KubectlCalls
  <2>3. needPull' \in BOOLEAN /\ expired' \in BOOLEAN /\ consumed' \in BOOLEAN /\ refused' = {}
    BY DEF StartDeploy
  <2>4. /\ ns' = ns /\ issued' = issued /\ pullSecret' = pullSecret
        /\ crs' \in Names \cup {NoCRS} /\ content' = NoCRS
    BY DEF StartDeploy, IndInv, TypeOK
  <2> QED BY <2>1, <2>2, <2>3, <2>4 DEF IndInv, TypeOK
<1>2. Progress' /\ RetriesAreHarmless'
  BY DEF IndInv, TypeOK, StartDeploy, Progress, AfterNamespace, RetriesAreHarmless
<1>3. NamesAreFresh'
  <2>1. \A n \in issued : n[1] <= deploy /\ n[1] \in Nat
    BY DEF IndInv, NamesAreFresh, TypeOK, Names
  <2> QED BY <2>1 DEF IndInv, TypeOK, StartDeploy, NamesAreFresh, BeforeGeneration
<1> QED BY <1>1, <1>2, <1>3 DEF IndInv

\* Where a call of RunKubectl may go on.
LEMMA Targets ==
  ASSUME NEW c \in KubectlCalls
  PROVE  /\ OnSuccess(c) \in (Calls \cup {"deployed"}) \ {"exists"}
         /\ OnError(c) \in Calls \cup {"failed"}
         /\ OnSuccess(c) \in AfterNamespace
         /\ OnError(c) \in AfterNamespace => c \in {"label", "pull"}
         /\ OnSuccess(c) \in {"crs", "cr", "deployed"} => c \in {"crs", "cr"}
         /\ OnSuccess(c) # "crs" /\ OnError(c) \notin {"crs", "cr", "deployed"}
         /\ OnSuccess(c) = "cr" => c = "crs"
         /\ OnSuccess(c) = "deployed" => c = "cr"
         /\ (OnSuccess(c) \in BeforeGeneration \cup {"generate"}
               \/ OnError(c) \in BeforeGeneration \cup {"generate"}) => c \in BeforeGeneration
BY DEF KubectlCalls, Calls, OnSuccess, OnError, Prepared, AfterNamespace, BeforeGeneration

\* A call of RunKubectl either takes effect or leaves the cluster alone, and then is repeated,
\* or its caller goes on.
Outcome(c) ==
  \/ Accepts(c) /\ Effect(c) /\ Return(OnSuccess(c)) /\ UNCHANGED refused
  \/ /\ UNCHANGED cluster \/ (Accepts(c) /\ Effect(c))
     /\ Return(OnError(c)) /\ UNCHANGED refused
  \/ ~Accepts(c) /\ UNCHANGED cluster /\ Return(OnError(c)) /\ refused' = refused \cup {c}
  \/ /\ UNCHANGED cluster \/ (Accepts(c) /\ Effect(c))
     /\ ~GivesUp /\ AnotherAttempt /\ UNCHANGED refused

LEMMA Outcomes ==
  ASSUME RunKubectl, TypeOK
  PROVE  \E c \in KubectlCalls : pc = c /\ Outcome(c) /\ content' = content /\ expired' \in BOOLEAN
<1>1. PICK c \in KubectlCalls : AttemptAnswered(c) \/ TransientError(c) \/ Denied(c) \/ CutOff(c)
  BY DEF RunKubectl
<1>2. pc = c /\ content' = content
  BY <1>1 DEF AttemptAnswered, TransientError, Denied, CutOff
<1>3. expired' \in BOOLEAN
  BY <1>1 DEF AttemptAnswered, TransientError, Denied, CutOff, TypeOK
<1>4. AttemptAnswered(c) => Outcome(c)
  BY DEF AttemptAnswered, Outcome
<1>5. TransientError(c) => Outcome(c)
  BY DEF TransientError, Outcome
<1>6. Denied(c) => Outcome(c)
  BY DEF Denied, Outcome
<1>7. CutOff(c) => Outcome(c)
  BY DEF CutOff, Outcome
<1> QED BY <1>1, <1>2, <1>3, <1>4, <1>5, <1>6, <1>7

\* RunKubectl keeps the invariant.
LEMMA RunKubectlKeeps == IndInv /\ RunKubectl => IndInv'
<1> SUFFICES ASSUME IndInv, RunKubectl PROVE IndInv'
  OBVIOUS
<1>1. PICK c \in KubectlCalls : pc = c /\ Outcome(c) /\ content' = content /\ expired' \in BOOLEAN
  BY Outcomes DEF IndInv
<1>2. issued' = issued /\ deploy' = deploy /\ needPull' = needPull
  BY <1>1 DEF Outcome, Effect, Return, AnotherAttempt, cluster
<1>3. /\ ns' \in {"absent", "plain", "labelled"} /\ (ns # "absent" => ns' # "absent")
      /\ pullSecret' \in {pullSecret, deploy} /\ cr' \in {cr, deploy}
      /\ crs' = crs \/ (c = "crs" /\ crs' = content)
  BY <1>1 DEF Outcome, Effect, Accepts, cluster, IndInv, TypeOK
<1>4. \/ pc' = c /\ attempt' = attempt + 1 /\ attempt # MaxAttempts
      \/ pc' \in {OnSuccess(c), OnError(c)} /\ attempt' = 1
  BY <1>1 DEF Outcome, Return, AnotherAttempt, GivesUp
<1>5. pc' \in Calls \cup {"deployed", "failed"}
  BY <1>1, <1>4, Targets DEF Calls
<1>6. TypeOK'
  <2>1. /\ attempt' \in Nat \ {0}
        /\ pc' \in KubectlCalls => attempt' <= MaxAttempts
        /\ pc' = "generate" => attempt' <= MaxGenerations
    BY <1>1, <1>4, BoundsAreNumbers DEF IndInv, TypeOK, KubectlCalls
  <2>2. consumed' \in BOOLEAN /\ refused' \subseteq Calls
    BY <1>1 DEF Outcome, Return, AnotherAttempt, IndInv, TypeOK, Calls
  <2> QED BY <1>1, <1>2, <1>3, <1>5, <2>1, <2>2 DEF IndInv, TypeOK
<1>7. Progress'
  <2>0. deploy' # 0
    BY <1>1, <1>2 DEF IndInv, Progress, KubectlCalls
  <2>1. CASE pc' = c
    BY <1>1, <1>2, <1>3, <2>1 DEF IndInv, Progress, AfterNamespace, KubectlCalls
  <2>2. CASE pc' # c /\ Accepts(c) /\ Effect(c) /\ pc' = OnSuccess(c)
    <3>1. ns' # "absent"
      BY <1>1, <2>2 DEF Accepts, Effect, KubectlCalls
    <3>2. pc' # "crs" /\ (pc' = "cr" => c = "crs") /\ (pc' = "deployed" => c = "cr")
      BY <2>2, Targets
    <3>3. (c = "crs" => crs' = content) /\ (c = "cr" => cr' = deploy /\ crs' = crs)
      BY <2>2 DEF Effect
    <3> QED BY <1>1, <1>2, <2>0, <3>1, <3>2, <3>3 DEF IndInv, Progress
  <2>3. CASE pc' # c /\ pc' = OnError(c)
    BY <1>1, <1>3, <2>0, <2>3, Targets DEF IndInv, Progress, AfterNamespace
  <2> QED BY <1>1, <2>1, <2>2, <2>3 DEF Outcome, Return, AnotherAttempt
<1>8. NamesAreFresh'
  <2>1. pc' \in BeforeGeneration \cup {"generate"} => c \in BeforeGeneration
    BY <1>1, <1>4, Targets DEF KubectlCalls, BeforeGeneration
  <2> QED BY <1>1, <1>2, <2>1 DEF IndInv, NamesAreFresh, BeforeGeneration
<1>9. RetriesAreHarmless'
  <2>1. c \in {"cr", "label"} => Accepts(c)
    BY <1>1 DEF IndInv, Progress, AfterNamespace, Accepts, InputArrives
  <2> QED BY <1>1, <2>1 DEF Outcome, IndInv, RetriesAreHarmless, KubectlCalls
<1> QED BY <1>6, <1>7, <1>8, <1>9 DEF IndInv

\* So does generateCRS: the name of an attempt is none that Central knows.
LEMMA GenerateKeeps == IndInv /\ GenerateCRS => IndInv'
<1> SUFFICES ASSUME IndInv, GenerateCRS PROVE IndInv'
  OBVIOUS
<1>1. /\ pc = "generate" /\ UNCHANGED <<ns, pullSecret, cr, crs, deploy, needPull>>
      /\ issued' \subseteq issued \cup {CRSName} /\ expired' \in BOOLEAN
  BY DEF GenerateCRS, Generated, TransientGenerationError, GenerationDenied, GenerationCutOff,
         Return, AnotherAttempt, cluster, IndInv, TypeOK
<1>2. deploy \in Nat /\ attempt \in Nat /\ attempt <= MaxGenerations /\ 1 <= attempt /\ deploy <= MaxDeploys
  BY <1>1, BoundsAreNumbers DEF IndInv, TypeOK
<1>3. CRSName \notin issued /\ CRSName[1] = deploy /\ CRSName[2] = attempt
  BY <1>1, <1>2 DEF IndInv, NamesAreFresh, CRSName
<1>4. /\ \/ pc' \in {"crs", "failed"} /\ attempt' = 1 /\ consumed' = FALSE
         \/ pc' = "generate" /\ attempt' = attempt + 1 /\ attempt # MaxGenerations /\ consumed' = TRUE
      /\ pc' = "crs" => content' = CRSName /\ CRSName \in issued'
      /\ content' \in {content, CRSName} /\ refused' = refused
  BY <1>1, <1>3 DEF GenerateCRS, Generated, TransientGenerationError, GenerationDenied,
         GenerationCutOff, Return, AnotherAttempt
<1>5. TypeOK'
  <2>1. deploy # 0 => CRSName \in Names
    BY <1>2, BoundsAreNumbers DEF CRSName, Names
  <2>2. deploy # 0
    BY <1>1 DEF IndInv, Progress
  <2>3. issued' \subseteq Names /\ content' \in Names \cup {NoCRS}
    BY <1>1, <1>4, <2>1, <2>2 DEF IndInv, TypeOK
  <2>4. /\ pc' \in Calls \cup {"failed"} /\ (pc' \in KubectlCalls => attempt' <= MaxAttempts)
        /\ attempt' \in Nat \ {0} /\ (pc' = "generate" => attempt' <= MaxGenerations)
    BY <1>2, <1>4, BoundsAreNumbers DEF Calls, KubectlCalls
  <2> QED BY <1>1, <1>4, <2>3, <2>4 DEF IndInv, TypeOK
<1>6. Progress'
  BY <1>1, <1>3, <1>4 DEF IndInv, Progress, AfterNamespace
<1>7. NamesAreFresh'
  <2> SUFFICES ASSUME NEW n \in issued'
               PROVE  n[1] <= deploy /\ (pc' = "generate" => n[1] < deploy \/ n[2] < attempt')
    BY <1>1, <1>4 DEF NamesAreFresh, BeforeGeneration
  <2>1. CASE n = CRSName
    BY <1>2, <1>3, <1>4, <2>1
  <2>2. CASE n \in issued
    <3>1. n[1] \in Nat /\ n[2] \in Nat
      BY <2>2 DEF IndInv, TypeOK, Names
    <3> QED BY <1>1, <1>2, <1>4, <2>2, <3>1 DEF IndInv, NamesAreFresh
  <2> QED BY <1>1, <2>1, <2>2
<1>8. RetriesAreHarmless'
  BY <1>4 DEF IndInv, RetriesAreHarmless
<1> QED BY <1>5, <1>6, <1>7, <1>8 DEF IndInv

\* The invariant is inductive.
LEMMA IndInvNext == IndInv /\ [Next]_vars => IndInv'
<1> SUFFICES ASSUME IndInv, [Next]_vars PROVE IndInv'
  OBVIOUS
<1>1. CASE StartDeploy
  BY <1>1, StartKeeps
<1>2. CASE RoxieStep
  BY <1>2, RunKubectlKeeps, GenerateKeeps DEF RoxieStep
<1>3. CASE Expire
  BY <1>3 DEF Expire, cluster, IndInv, TypeOK, Progress, NamesAreFresh, RetriesAreHarmless
<1>4. CASE Killed
  BY <1>4, BoundsAreNumbers DEF Killed, cluster, IndInv, TypeOK, Progress, AfterNamespace, NamesAreFresh,
              BeforeGeneration, RetriesAreHarmless, Calls, KubectlCalls
<1>5. CASE UNCHANGED vars
  BY <1>5 DEF vars, IndInv, TypeOK, Progress, NamesAreFresh, RetriesAreHarmless
<1> QED BY <1>1, <1>2, <1>3, <1>4, <1>5 DEF Next

\* The invariant holds in every state.
THEOREM CallsInvariant == Spec => []IndInv
BY IndInvInit, IndInvNext, PTL DEF Spec

\* Calls and objects keep their types, and no call is attempted more often than allowed.
THEOREM CallsTypeCorrect == Spec => []TypeOK
<1>1. IndInv => TypeOK
  BY DEF IndInv
<1> QED BY <1>1, CallsInvariant, PTL

\* A deploy that goes on to its wait has applied its own objects, with a CRS that Central knows.
THEOREM DeployAppliesItsOwn == Spec => []DeployApplies
<1>1. IndInv => DeployApplies
  BY DEF IndInv, Progress, AfterNamespace, DeployApplies
<1> QED BY <1>1, CallsInvariant, PTL

\* However often calls are repeated, neither the custom resource, nor the label, nor the
\* generation of a CRS is refused for it.
THEOREM RetriesNeverHarm == Spec => []RetriesAreHarmless
<1>1. IndInv => RetriesAreHarmless
  BY DEF IndInv
<1> QED BY <1>1, CallsInvariant, PTL
===============================================================================
