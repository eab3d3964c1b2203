---------------------------- MODULE DeployTimeouts ----------------------------
(***************************************************************************)
(* The time limits of a deploy: the context that all of it shares          *)
(* (computeDeployContextTimeout in cmd/deploy.go), the wait for each       *)
(* component with the goroutine that runs kubectl wait and the loop that   *)
(* shows the progress (waitForComponentReady in                            *)
(* internal/deployer/deploy_via_operator.go), and what comes after them:   *)
(* the wait for a load balancer, the wait for an answer of Central and the *)
(* manifest.  Calls to kubectl may fail, and take time when they do.       *)
(*                                                                         *)
(* Time is counted in units, of seconds say; whatever is due happens       *)
(* before the time goes on.                                                *)
(***************************************************************************)
EXTENDS Integers

CONSTANTS
  CentralWait, SensorWait,  \* DeployTimeout of the components
  DefaultWait,   \* DefaultCentralWaitTimeout
  Margin,        \* margin
  Padding,       \* padding
  Poll,          \* how often waitForResourceToExist looks
  RetryDelay,    \* RetryDelay of RunKubectl
  MaxAttempts,   \* MaxAttempts of RunKubectl
  LoadBalancerWait, \* loadBalancerWaitTime
  BalancerPoll,  \* how long waitForLoadBalancer sleeps between two looks
  Probe,         \* how long WaitForCentral tries at most, its last attempt included
  MaxLook,       \* bound on how long one kubectl get of waitForResourceToExist takes
  MaxBusy,       \* bound on how long one check of the progress, or look at the load balancer, takes
  MaxOverhead,   \* bound on how long the steps that wait for nothing take together
  MaxFaults,     \* bound on how often kubectl fails on its own
  MaxPassedOver, \* bound on how often select prefers the ticker to a result
  MaxTime        \* bound on the time

ASSUME ConstantsAssumption ==
  /\ {CentralWait, SensorWait, DefaultWait, Margin, Padding, Poll, RetryDelay, MaxAttempts,
      LoadBalancerWait, BalancerPoll, Probe, MaxLook, MaxBusy, MaxOverhead, MaxFaults, MaxPassedOver,
      MaxTime} \subseteq Nat
  /\ Poll > 0 /\ RetryDelay > 0 /\ BalancerPoll > 0

VARIABLES
  now,           \* the time since the context was made
  comps,         \* the components to deploy
  current,       \* the one it is at
  stage,         \* what the deploy is doing
  overhead,      \* how long the steps that wait for nothing have taken
  spent,         \* history: the time so far that no configured timeout accounts for
  faults,        \* how often kubectl has failed
  \* the wait for the current component
  due,           \* deadline of waitForAvailableCondition
  waitDeadline,  \* when waitCtx expires
  workload,      \* the resource that it waits for
  readyAt,       \* history: since when that is available
  lost,          \* history: how long failed and slow calls to kubectl have kept that unnoticed
  waiter,        \* what the goroutine does
  wakeAt,        \* when its look ends, its kubectl wait times out, or its retry begins;
                 \* or when waitForLoadBalancer looks
  asked,         \* the timeout given to kubectl wait
  attempt,       \* of the kubectl command
  busy,          \* how long the check of the progress that runs still takes
  ticked,        \* whether one has begun since the time last went on
  passedOver,    \* how often a result was passed over
  \* the end
  until,         \* when waitForLoadBalancer or WaitForCentral gives up
  recorded       \* whether the manifest was written

waitVars == <<due, waitDeadline, workload, readyAt, lost, waiter, wakeAt, asked, attempt, busy,
              ticked, passedOver>>
vars == <<now, comps, current, stage, overhead, spent, faults, waitVars, until, recorded>>

Components == {"Central", "SecuredCluster"}
Never == -1

Least(a, b) == IF a < b THEN a ELSE b

(***************************************************************************)
(* The deadline of the deploy.                                             *)
(***************************************************************************)
DeployTimeout(c) == IF c = "Central" THEN CentralWait ELSE SensorWait
BudgetOf(c) == IF c \in comps THEN DeployTimeout(c) ELSE 0

BudgetMutant == IF comps = Components THEN CentralWait ELSE BudgetOf("Central") + BudgetOf("SecuredCluster")
Budget == BudgetOf("Central") + BudgetOf("SecuredCluster")
DeadlineMutant == IF Budget <= 0 THEN DefaultWait ELSE Budget
Deadline == (IF Budget <= 0 THEN DefaultWait ELSE Budget) + Margin

First(C) == IF "SecuredCluster" \in C /\ "Central" \notin C THEN "SecuredCluster" ELSE "Central"

Init ==
  /\ now = 0 /\ overhead = 0 /\ spent = 0 /\ faults = 0 /\ until = 0 /\ recorded = FALSE
  /\ comps \in SUBSET Components
  /\ current = First(comps)
  /\ stage = IF comps = {} THEN "finish" ELSE "prepare"
  /\ due = 0 /\ waitDeadline = 0 /\ workload = "absent" /\ readyAt = Never /\ lost = 0
  /\ waiter = "off" /\ wakeAt = 0 /\ asked = 0 /\ attempt = 1
  /\ busy = 0 /\ ticked = TRUE /\ passedOver = 0

(***************************************************************************)
(* Before a wait: teardown of the old component, its namespace, secrets    *)
(* and custom resource.  These fail once the context has expired.          *)
(***************************************************************************)
WaitContextMutant(start) == Least(Deadline, start + DeployTimeout(current))
WaitContext(start) == Least(Deadline, start + DeployTimeout(current) + Padding)

\* When a kubectl get that begins at t ends, under a context that expires at d.
LookEnds(t, d) == {IF t >= d THEN t ELSE Least(t + l, d) : l \in 0..MaxLook}

BeginWait ==
  /\ stage = "prepare"
  /\ IF now < Deadline
     THEN /\ stage' = "waiting"
          /\ due' = now + DeployTimeout(current)
          /\ waitDeadline' = WaitContext(now)
          /\ workload' \in {"absent", "exists", "available"}
          /\ readyAt' = IF workload' = "available" THEN now ELSE Never
          /\ waiter' = "polling" /\ wakeAt' \in LookEnds(now, WaitContext(now))
          /\ asked' = 0 /\ attempt' = 1 /\ lost' = 0
          /\ busy' = 0 /\ ticked' = TRUE /\ passedOver' = 0
     ELSE stage' = "failed" /\ UNCHANGED waitVars
  /\ UNCHANGED <<now, comps, current, overhead, spent, faults, until, recorded>>

\* The operator and the cluster.
WorkloadProgresses ==
  /\ stage = "waiting" /\ workload # "available"
  /\ workload' = IF workload = "absent" THEN "exists" ELSE "available"
  /\ readyAt' = IF workload' = "available" THEN now ELSE readyAt
  /\ UNCHANGED <<now, comps, current, stage, overhead, spent, faults, due, waitDeadline, lost, waiter,
                 wakeAt, asked, attempt, busy, ticked, passedOver, until, recorded>>

(***************************************************************************)
(* The goroutine: waitForAvailableCondition.  RunKubectl tries again after *)
(* a transient error, for which it takes the timeout of kubectl wait too,  *)
(* and sleeps before without looking at the context.  A negative timeout   *)
(* means a week to kubectl.                                                *)
(***************************************************************************)
CtxDone == now >= waitDeadline

WaiterOnly == UNCHANGED <<now, comps, current, stage, overhead, spent, due, waitDeadline, workload,
                          readyAt, lost, busy, ticked, passedOver, until, recorded>>

\* kubectl fails though the context has not expired.
KubectlFails == ~CtxDone /\ faults < MaxFaults /\ faults' = faults + 1

LooksAgain ==
  /\ waiter' = "polling" /\ attempt' = 1 /\ wakeAt' \in LookEnds(now + Poll, waitDeadline)

WaitForResourceToExist ==
  /\ stage = "waiting"
  /\ \/ waiter = "polling" /\ (wakeAt = now \/ CtxDone)
     \/ waiter = "getBackoff" /\ wakeAt = now
  /\ \/ CtxDone /\ waiter' = "error" /\ UNCHANGED <<wakeAt, asked, attempt, faults>>
     \/ /\ ~CtxDone /\ workload # "absent"
        /\ waiter' = "waiting" /\ asked' = due - now /\ attempt' = 1
        /\ wakeAt' = IF now > due THEN waitDeadline ELSE due
        /\ UNCHANGED faults
     \/ ~CtxDone /\ workload = "absent" /\ LooksAgain /\ UNCHANGED <<asked, faults>>
     \/ /\ KubectlFails /\ UNCHANGED asked
        /\ \/ LooksAgain
           \/ /\ attempt < MaxAttempts
              /\ waiter' = "getBackoff" /\ attempt' = attempt + 1
              /\ wakeAt' \in LookEnds(now + attempt' * RetryDelay, waitDeadline)
  /\ WaiterOnly

\* After a transient error of kubectl wait; "last" is what the last attempt ends with.
TriesAgain(last) ==
  IF attempt = MaxAttempts THEN waiter' = last /\ UNCHANGED <<wakeAt, attempt>>
  ELSE waiter' = "backoff" /\ attempt' = attempt + 1 /\ wakeAt' = now + attempt' * RetryDelay

KubectlWaitEnds == workload = "available" \/ wakeAt = now \/ CtxDone
KubectlWait ==
  /\ stage = "waiting" /\ waiter = "waiting"
  /\ \/ workload = "available" /\ waiter' = "ok" /\ UNCHANGED <<wakeAt, attempt, faults>>
     \/ CtxDone /\ waiter' = "error" /\ UNCHANGED <<wakeAt, attempt, faults>>
     \/ wakeAt = now /\ ~CtxDone /\ workload # "available" /\ TriesAgain("error") /\ UNCHANGED faults
     \/ KubectlFails /\ TriesAgain("broken")
     \/ KubectlFails /\ waiter' = "broken" /\ UNCHANGED <<wakeAt, attempt>>
  /\ UNCHANGED asked
  /\ WaiterOnly

Retry ==
  /\ stage = "waiting" /\ waiter = "backoff" /\ wakeAt = now
  /\ IF CtxDone THEN waiter' = "error" /\ UNCHANGED wakeAt
     ELSE waiter' = "waiting" /\ wakeAt' = IF asked < 0 THEN waitDeadline ELSE now + asked
  /\ UNCHANGED <<asked, attempt, faults>>
  /\ WaiterOnly

(***************************************************************************)
(* The loop of waitForComponentReady.  Go's select takes any of the cases  *)
(* that are ready.                                                         *)
(***************************************************************************)
IsIdle == busy = 0
HasResult == waiter \in {"ok", "error", "broken"}

AfterResult == CASE waiter = "ok" -> IF current = "Central" THEN "endpoint" ELSE "finish"
                 [] waiter = "error" -> "timedOut"
                 [] waiter = "broken" -> "failed"
\* The variables of a wait that has succeeded are gone.
TakeResult ==
  /\ stage = "waiting" /\ IsIdle /\ HasResult
  /\ stage' = AfterResult
  /\ waiter' = "off"
  /\ IF waiter = "ok"
     THEN /\ due' = 0 /\ waitDeadline' = 0 /\ workload' = "absent" /\ readyAt' = Never /\ lost' = 0
          /\ wakeAt' = 0 /\ asked' = 0 /\ attempt' = 1 /\ busy' = 0 /\ ticked' = TRUE /\ passedOver' = 0
     ELSE UNCHANGED <<due, waitDeadline, workload, readyAt, lost, wakeAt, asked, attempt, busy, ticked,
                      passedOver>>
  /\ UNCHANGED <<now, comps, current, overhead, spent, faults, until, recorded>>

TimeoutReached ==
  /\ stage = "waiting" /\ IsIdle /\ CtxDone
  /\ stage' = "timedOut"
  /\ UNCHANGED <<now, comps, current, overhead, spent, faults, waitVars, until, recorded>>

\* With an expired context kubectl fails at once, but a retry that is due sleeps past the deadline.
ShowProgress ==
  /\ stage = "waiting" /\ IsIdle /\ ~ticked
  /\ HasResult => passedOver < MaxPassedOver
  /\ passedOver' = IF HasResult THEN passedOver + 1 ELSE passedOver
  /\ ticked' = TRUE
  /\ \E d \in 0..MaxBusy : (CtxDone => d = 0) /\ busy' = d
  /\ UNCHANGED <<now, comps, current, stage, overhead, spent, faults, due, waitDeadline, workload,
                 readyAt, lost, waiter, wakeAt, asked, attempt, until, recorded>>

(***************************************************************************)
(* After the wait for Central: its endpoint, which may be that of a load   *)
(* balancer.  The wait for that looks at its own time only, and fails the  *)
(* deploy unless there is a port-forwarding to use instead.                *)
(***************************************************************************)
ConfigureCentralEndpoint ==
  /\ stage = "endpoint"
  /\ \/ stage' = "finish" /\ UNCHANGED <<wakeAt, until>>
     \/ stage' = "balancer" /\ wakeAt' = now /\ until' = now + LoadBalancerWait
  /\ UNCHANGED <<now, comps, current, overhead, spent, faults, due, waitDeadline, workload, readyAt,
                 lost, waiter, asked, attempt, busy, ticked, passedOver, recorded>>

BalancerTimedOutMutant == FALSE
BalancerTimedOut == now >= until

WaitForLoadBalancer ==
  /\ stage = "balancer" /\ wakeAt = now
  /\ \/ ~BalancerTimedOut /\ now < Deadline /\ stage' = "finish" /\ wakeAt' = 0 /\ until' = 0
     \/ /\ ~BalancerTimedOut /\ UNCHANGED <<stage, until>>
        /\ \E d \in 0..MaxBusy : (now >= Deadline => d = 0) /\ wakeAt' = now + d + BalancerPoll
     \/ BalancerTimedOut /\ stage' \in {"finish", "failed"} /\ wakeAt' = 0 /\ until' = 0
  /\ UNCHANGED <<now, comps, current, overhead, spent, faults, due, waitDeadline, workload, readyAt,
                 lost, waiter, asked, attempt, busy, ticked, passedOver, recorded>>

(***************************************************************************)
(* After a component: the add-ons and the next one.  After all of them:    *)
(* WaitForCentral, which does not fail the deploy, and the manifest.       *)
(***************************************************************************)
Finish ==
  /\ stage = "finish"
  /\ IF current = "Central" /\ "SecuredCluster" \in comps
     THEN current' = "SecuredCluster" /\ stage' = "prepare" /\ UNCHANGED until
     ELSE /\ stage' = "probe" /\ UNCHANGED current
          /\ until' = IF "Central" \in comps THEN now + Probe ELSE now
  /\ UNCHANGED <<now, comps, overhead, spent, faults, waitVars, recorded>>

WaitForCentral ==
  /\ stage = "probe" /\ stage' = "manifest"
  /\ UNCHANGED <<now, comps, current, overhead, spent, faults, waitVars, until, recorded>>

RecordManifest ==
  /\ stage = "manifest" /\ stage' = "done"
  /\ recorded' = (now < Deadline)
  /\ UNCHANGED <<now, comps, current, overhead, spent, faults, waitVars, until>>

(***************************************************************************)
(* Time goes on unless something is due.                                   *)
(***************************************************************************)
WaiterIsDue ==
  \/ waiter \in {"polling", "getBackoff", "backoff"} /\ wakeAt = now
  \/ waiter = "polling" /\ CtxDone
  \/ waiter = "waiting" /\ KubectlWaitEnds
LoopIsDue == IsIdle /\ (HasResult \/ CtxDone)

\* Calls to kubectl that fail, or take longer than the look that comes next, hide that the workload is available.
IsHeldUp ==
  /\ stage = "waiting" /\ readyAt # Never
  /\ \/ waiter \in {"getBackoff", "backoff"}
     \/ waiter = "polling" /\ wakeAt > readyAt + Poll
     \/ ~IsIdle

Tick ==
  /\ now < MaxTime /\ now' = now + 1
  /\ \/ /\ stage \in {"prepare", "endpoint", "finish"} /\ overhead < MaxOverhead
        /\ overhead' = overhead + 1
     \/ stage = "waiting" /\ ~WaiterIsDue /\ ~LoopIsDue /\ UNCHANGED overhead
     \/ stage = "balancer" /\ now < wakeAt /\ UNCHANGED overhead
     \/ stage = "probe" /\ now < until /\ UNCHANGED overhead
  /\ spent' = IF stage = "waiting" /\ now < due THEN spent ELSE spent + 1
  /\ lost' = IF IsHeldUp THEN lost + 1 ELSE lost
  /\ busy' = IF busy > 0 THEN busy - 1 ELSE 0
  /\ ticked' = (stage # "waiting")
  /\ UNCHANGED <<comps, current, stage, faults, due, waitDeadline, workload, readyAt, waiter, wakeAt,
                 asked, attempt, passedOver, until, recorded>>

RoxieStep ==
  \/ BeginWait \/ WaitForResourceToExist \/ KubectlWait \/ Retry
  \/ TakeResult \/ TimeoutReached \/ ShowProgress
  \/ ConfigureCentralEndpoint \/ WaitForLoadBalancer
  \/ Finish \/ WaitForCentral \/ RecordManifest

Next == RoxieStep \/ WorkloadProgresses \/ Tick

Spec == Init /\ [][Next]_vars

\* Time passes, and roxie's steps are taken.
FairSpec == Spec /\ WF_vars(Tick) /\ WF_vars(RoxieStep)

(***************************************************************************)
(* Properties.                                                             *)
(***************************************************************************)
\* Times are times, and stages and states are what the code distinguishes.
TypeOK ==
  /\ {now, overhead, spent, faults, due, waitDeadline, lost, wakeAt, attempt, busy, passedOver, until} \subseteq Nat
  /\ asked \in Int /\ readyAt \in {Never} \cup Nat
  /\ comps \subseteq Components /\ current \in Components
  /\ stage = "waiting" => current \in comps
  /\ stage \in {"prepare", "waiting", "endpoint", "balancer", "finish", "probe", "manifest", "done", "failed",
                "timedOut"}
  /\ workload \in {"absent", "exists", "available"}
  /\ waiter \in {"off", "polling", "getBackoff", "waiting", "backoff", "ok", "error", "broken"}
  /\ ticked \in BOOLEAN /\ recorded \in BOOLEAN

\* The context of the deploy cuts a component's wait short of the timeout configured for it only when
\* the rest of the deploy has by then used up more than the margin (computeDeployContextTimeout: "It
\* must outlive the per-component readiness waits").
NotClamped == stage = "waiting" /\ spent <= Margin => waitDeadline >= due

\* A wait is reported as timed out although the component became available before the configured
\* timeout only when failed and slow calls to kubectl have cost more than the padding leaves after
\* one poll, or when the deploy's context ended the wait (waitForComponentReady).
AvailableInTimeSucceeds ==
  stage = "timedOut" /\ lost + Poll <= Padding /\ due + Padding <= Deadline => readyAt = Never \/ readyAt >= due

\* A deploy that succeeds has written its manifest, unless everything but the configured timeouts,
\* the waits for the load balancer and for Central's answer included, has used up the margin.
SuccessIsRecorded == stage = "done" /\ spent < Margin => recorded

\* The same without the conditions: what the code does not keep.
WaitIsNeverCut == stage = "waiting" => waitDeadline >= due
AvailableAlwaysSucceeds == stage = "timedOut" => readyAt = Never \/ readyAt >= due

\* Every deploy ends, even if the workload never exists and kubectl fails.
DeployEnds == <>(stage \in {"done", "failed", "timedOut"})

\* However late a component is, and however often kubectl is tried again: a deploy outlasts the
\* deadline of its context by no more than one check of the progress, the steps that do not look
\* at the context, and the waits for the load balancer and Central's answer.  This bound is behind
\* DeployEnds.
BalancerTakes == LoadBalancerWait + MaxBusy + BalancerPoll
EndsInTime == now <= Deadline + MaxBusy + MaxOverhead + BalancerTakes + Probe
===============================================================================
