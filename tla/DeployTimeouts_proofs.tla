------------------------- MODULE DeployTimeouts_proofs -------------------------
(***************************************************************************)
(* The time limits of a deploy, for all their values and without a         *)
(* condition on how they relate.                                           *)
(*                                                                         *)
(* Accounted is a balance of the time: up to now the deploy has taken what *)
(* the configured timeouts account for and what it has spent on the rest.  *)
(* A wait is therefore cut short, and a manifest is lost, only when the    *)
(* rest has used up the margin.                                            *)
(*                                                                         *)
(* Noticed is a balance of what a wait may take after its component has    *)
(* become available: one poll, and the time that failed and slow calls to  *)
(* kubectl have cost.  Only those can use up the padding.                  *)
(*                                                                         *)
(* Lateness bounds the time by the deadline of the context and by what     *)
(* goes on without looking at it.                                          *)
(***************************************************************************)
EXTENDS DeployTimeouts, TLAPS

\* The time limits are numbers.
LEMMA LimitsAreNumbers ==
  /\ {CentralWait, SensorWait, DefaultWait, Margin, Padding, Poll, RetryDelay, MaxAttempts,
      LoadBalancerWait, BalancerPoll, Probe, MaxLook, MaxBusy, MaxOverhead, MaxFaults} \subseteq Nat
  /\ \A c : DeployTimeout(c) \in Nat /\ BudgetOf(c) \in Nat
  /\ Budget \in Nat /\ Deadline \in Nat
<1>1. {CentralWait, SensorWait, DefaultWait, Margin, Padding, Poll, RetryDelay, MaxAttempts,
       LoadBalancerWait, BalancerPoll, Probe, MaxLook, MaxBusy, MaxOverhead, MaxFaults} \subseteq Nat
  BY ConstantsAssumption
<1>2. \A c : DeployTimeout(c) \in Nat /\ BudgetOf(c) \in Nat
  BY <1>1 DEF DeployTimeout, BudgetOf
<1>3. Budget \in Nat
  BY <1>2 DEF Budget
<1>4. Deadline \in Nat
  BY <1>1, <1>3 DEF Deadline
<1> QED BY <1>1, <1>2, <1>3, <1>4

\* The deadline is fixed once the components are.
LEMMA DeadlineIsFixed == comps' = comps => Deadline' = Deadline
BY DEF Deadline, Budget, BudgetOf

\* A look ends no earlier than it begins.
LEMMA LooksTakeTime ==
  ASSUME NEW t \in Nat, NEW d \in Nat, NEW w \in LookEnds(t, d)
  PROVE  w \in Nat /\ t <= w
<1>1. PICK l \in 0..MaxLook : w = IF t >= d THEN t ELSE Least(t + l, d)
  BY DEF LookEnds
<1>2. l \in Nat /\ t + l \in Nat /\ t <= t + l
  BY <1>1, LimitsAreNumbers
<1> QED BY <1>1, <1>2 DEF Least

\* Products of numbers are numbers.
LEMMA ProductIsNumber == \A a, b \in Nat : a * b \in Nat
OBVIOUS

(***************************************************************************)
(* Types.                                                                  *)
(***************************************************************************)
CurrentIsNext ==
  /\ stage \in {"prepare", "waiting", "endpoint", "balancer"} => current \in comps
  /\ stage \in {"probe", "manifest"} => current = "SecuredCluster" \/ "SecuredCluster" \notin comps
  /\ current = "SecuredCluster" => current \in comps

Typed == TypeOK /\ CurrentIsNext

\* Types are right at first.
LEMMA TypedAtFirst == Init => Typed
<1> SUFFICES ASSUME Init PROVE Typed
  OBVIOUS
<1>1. current \in Components /\ comps \subseteq Components /\ stage \in {"finish", "prepare"} /\ CurrentIsNext
  BY DEF Init, First, Components, CurrentIsNext
<1>2. /\ now = 0 /\ overhead = 0 /\ spent = 0 /\ faults = 0 /\ until = 0 /\ due = 0 /\ waitDeadline = 0
      /\ lost = 0 /\ wakeAt = 0 /\ asked = 0 /\ attempt = 1 /\ busy = 0 /\ passedOver = 0
      /\ readyAt = Never /\ workload = "absent" /\ waiter = "off" /\ recorded = FALSE /\ ticked = TRUE
  BY DEF Init
<1>3. /\ recorded \in BOOLEAN /\ ticked \in BOOLEAN /\ readyAt \in {Never} \cup Nat
      /\ workload \in {"absent", "exists", "available"}
      /\ waiter \in {"off", "polling", "getBackoff", "waiting", "backoff", "ok", "error", "broken"}
  BY <1>2, Zenon
<1>4. /\ asked \in Int
      /\ {now, overhead, spent, faults, due, waitDeadline, lost, wakeAt, attempt, busy, passedOver, until}
           \subseteq Nat
  BY <1>2
<1> QED BY <1>1, <1>3, <1>4, Zenon DEF TypeOK, Typed

\* Types are kept.
LEMMA TypedNext == Typed /\ [Next]_vars => Typed'
<1> SUFFICES ASSUME Typed, [Next]_vars PROVE Typed'
  OBVIOUS
<1>limits. /\ Poll \in Nat /\ RetryDelay \in Nat /\ BalancerPoll \in Nat /\ LoadBalancerWait \in Nat
           /\ Padding \in Nat /\ Probe \in Nat /\ MaxBusy \in Nat /\ Deadline \in Nat
           /\ \A c : DeployTimeout(c) \in Nat
  BY LimitsAreNumbers
<1>type. TypeOK /\ CurrentIsNext
  BY DEF Typed
<1>1. CASE BeginWait
  <2>1. CASE now < Deadline
    <3>1. /\ stage' = "waiting" /\ due' = now + DeployTimeout(current) /\ waitDeadline' = WaitContext(now)
          /\ workload' \in {"absent", "exists", "available"}
          /\ readyAt' = (IF workload' = "available" THEN now ELSE Never)
          /\ waiter' = "polling" /\ wakeAt' \in LookEnds(now, WaitContext(now)) /\ asked' = 0 /\ attempt' = 1
          /\ lost' = 0 /\ busy' = 0 /\ ticked' = TRUE /\ passedOver' = 0
          /\ UNCHANGED <<now, comps, current, overhead, spent, faults, until, recorded>> /\ stage = "prepare"
      BY <1>1, <2>1 DEF BeginWait
    <3>2. due' \in Nat /\ waitDeadline' \in Nat
      BY <1>type, <1>limits, <3>1 DEF TypeOK, WaitContext, Least
    <3>3. wakeAt' \in Nat
      BY <1>type, <3>1, <3>2, LooksTakeTime DEF TypeOK
    <3>4. current \in comps /\ CurrentIsNext'
      BY <1>type, <3>1 DEF CurrentIsNext
    <3> QED BY <1>type, <3>1, <3>2, <3>3, <3>4 DEF Typed, TypeOK
  <2>2. CASE ~(now < Deadline)
    BY <1>1, <1>type, <2>2 DEF BeginWait, waitVars, Typed, TypeOK, CurrentIsNext
  <2> QED BY <2>1, <2>2
<1>2. CASE WorkloadProgresses
  BY <1>2, <1>type DEF WorkloadProgresses, Typed, TypeOK, CurrentIsNext
<1>3. CASE WaitForResourceToExist
  <2>1. /\ WaiterOnly
        /\ waiter' \in {"polling", "getBackoff", "waiting", "error"}
        /\ attempt' \in {attempt, 1, attempt + 1} /\ asked' \in {asked, due - now}
        /\ faults' \in {faults, faults + 1}
        /\ \/ wakeAt' \in {wakeAt, waitDeadline, due}
           \/ wakeAt' \in LookEnds(now + Poll, waitDeadline)
           \/ wakeAt' \in LookEnds(now + (attempt + 1) * RetryDelay, waitDeadline)
    BY <1>3 DEF WaitForResourceToExist, LooksAgain, KubectlFails
  <2>2. attempt' \in Nat /\ asked' \in Int /\ faults' \in Nat
    BY <1>type, <2>1 DEF TypeOK
  <2>3. now + Poll \in Nat /\ now + (attempt + 1) * RetryDelay \in Nat
    <3>1. attempt + 1 \in Nat /\ now \in Nat
      BY <1>type DEF TypeOK
    <3>2. (attempt + 1) * RetryDelay \in Nat
      BY <3>1, <1>limits, ProductIsNumber
    <3> QED BY <3>1, <3>2, <1>limits
  <2>4. wakeAt' \in Nat
    BY <1>type, <2>1, <2>3, LooksTakeTime DEF TypeOK
  <2> QED BY <1>type, <2>1, <2>2, <2>4 DEF WaiterOnly, Typed, TypeOK, CurrentIsNext
<1>4. CASE KubectlWait
  <2>1. /\ WaiterOnly /\ asked' = asked
        /\ waiter' \in {"ok", "error", "broken", "backoff"}
        /\ attempt' \in {attempt, attempt + 1} /\ faults' \in {faults, faults + 1}
        /\ wakeAt' \in {wakeAt, now + (attempt + 1) * RetryDelay}
    BY <1>4 DEF KubectlWait, TriesAgain, KubectlFails
  <2>2. attempt' \in Nat /\ faults' \in Nat
    BY <1>type, <2>1 DEF TypeOK
  <2>3. wakeAt' \in Nat
    <3>1. attempt + 1 \in Nat /\ now \in Nat /\ wakeAt \in Nat
      BY <1>type DEF TypeOK
    <3>2. (attempt + 1) * RetryDelay \in Nat
      BY <3>1, <1>limits, ProductIsNumber
    <3> QED BY <2>1, <3>1, <3>2
  <2> QED BY <1>type, <2>1, <2>2, <2>3 DEF WaiterOnly, Typed, TypeOK, CurrentIsNext
<1>5. CASE Retry
  <2>1. /\ asked' = asked /\ attempt' = attempt /\ faults' = faults
        /\ waiter' \in {"error", "waiting"} /\ WaiterOnly
        /\ wakeAt' = wakeAt \/ wakeAt' = (IF asked < 0 THEN waitDeadline ELSE now + asked)
    BY <1>5 DEF Retry
  <2>2. wakeAt' \in Nat
    BY <1>type, <2>1 DEF TypeOK
  <2> QED BY <1>type, <2>1, <2>2 DEF WaiterOnly, Typed, TypeOK, CurrentIsNext
<1>6. CASE TakeResult
  <2>1. /\ stage' \in {"endpoint", "finish", "timedOut", "failed"} /\ stage = "waiting"
        /\ waiter' = "off" /\ UNCHANGED <<now, comps, current, overhead, spent, faults, until, recorded>>
    BY <1>6 DEF TakeResult, HasResult, AfterResult
  <2>2. CurrentIsNext'
    BY <1>type, <2>1 DEF TypeOK, CurrentIsNext
  <2>3. CASE waiter = "ok"
    <3>1. /\ due' = 0 /\ waitDeadline' = 0 /\ workload' = "absent" /\ readyAt' = Never /\ lost' = 0
          /\ wakeAt' = 0 /\ asked' = 0 /\ attempt' = 1 /\ busy' = 0 /\ ticked' = TRUE /\ passedOver' = 0
      BY <1>6, <2>3 DEF TakeResult
    <3> QED BY <1>type, <2>1, <2>2, <3>1 DEF Typed, TypeOK
  <2>4. CASE waiter # "ok"
    <3>1. UNCHANGED <<due, waitDeadline, workload, readyAt, lost, wakeAt, asked, attempt, busy, ticked, passedOver>>
      BY <1>6, <2>4 DEF TakeResult
    <3> QED BY <1>type, <2>1, <2>2, <3>1 DEF Typed, TypeOK
  <2> QED BY <2>3, <2>4
<1>7. CASE TimeoutReached
  BY <1>7, <1>type DEF TimeoutReached, waitVars, Typed, TypeOK, CurrentIsNext
<1>8. CASE ShowProgress
  <2>1. PICK d \in 0..MaxBusy : busy' = d
    BY <1>8 DEF ShowProgress
  <2>2. busy' \in Nat /\ passedOver' \in Nat /\ ticked' = TRUE
    BY <1>8, <1>type, <1>limits, <2>1 DEF ShowProgress, TypeOK
  <2>3. UNCHANGED <<now, comps, current, stage, overhead, spent, faults, due, waitDeadline, workload,
                    readyAt, lost, waiter, wakeAt, asked, attempt, until, recorded>>
    BY <1>8 DEF ShowProgress
  <2> QED BY <1>type, <2>2, <2>3 DEF Typed, TypeOK, CurrentIsNext
<1>9. CASE ConfigureCentralEndpoint
  <2>1. wakeAt' \in Nat /\ until' \in Nat /\ stage' \in {"finish", "balancer"} /\ stage = "endpoint"
    BY <1>9, <1>type, <1>limits DEF ConfigureCentralEndpoint, TypeOK
  <2>2. UNCHANGED <<now, comps, current, overhead, spent, faults, due, waitDeadline, workload, readyAt,
                    lost, waiter, asked, attempt, busy, ticked, passedOver, recorded>>
    BY <1>9 DEF ConfigureCentralEndpoint
  <2> QED BY <1>type, <2>1, <2>2 DEF Typed, TypeOK, CurrentIsNext
<1>10. CASE WaitForLoadBalancer
  <2>1. /\ stage' \in {"finish", "balancer", "failed"} /\ stage = "balancer" /\ until' \in {until, 0}
        /\ wakeAt' = 0 \/ \E d \in 0..MaxBusy : wakeAt' = now + d + BalancerPoll
    BY <1>10 DEF WaitForLoadBalancer
  <2>2. wakeAt' \in Nat /\ until' \in Nat
    BY <1>type, <1>limits, <2>1 DEF TypeOK
  <2>3. UNCHANGED <<now, comps, current, overhead, spent, faults, due, waitDeadline, workload, readyAt,
                    lost, waiter, asked, attempt, busy, ticked, passedOver, recorded>>
    BY <1>10 DEF WaitForLoadBalancer
  <2> QED BY <1>type, <2>1, <2>2, <2>3 DEF Typed, TypeOK, CurrentIsNext
<1>11. CASE Finish
  <2>1. until' \in Nat
    BY <1>11, <1>type, <1>limits DEF Finish, TypeOK
  <2>2. /\ current' \in Components /\ stage' \in {"prepare", "probe"} /\ CurrentIsNext'
        /\ UNCHANGED <<now, comps, overhead, spent, faults, waitVars, recorded>>
    BY <1>11, <1>type DEF Finish, TypeOK, Components, CurrentIsNext
  <2> QED BY <1>type, <2>1, <2>2 DEF Typed, TypeOK, waitVars
<1>12. CASE WaitForCentral \/ RecordManifest
  <2>1. /\ stage \in {"probe", "manifest"} /\ stage' \in {"manifest", "done"}
        /\ UNCHANGED <<now, comps, current, overhead, spent, faults, waitVars, until>>
    BY <1>12 DEF WaitForCentral, RecordManifest
  <2>2. recorded' \in BOOLEAN
    <3>1. CASE WaitForCentral
      BY <3>1, <1>type DEF WaitForCentral, TypeOK
    <3>2. CASE RecordManifest
      <4>1. recorded' = (now < Deadline)
        BY <3>2 DEF RecordManifest
      <4> QED BY <4>1
    <3> QED BY <1>12, <3>1, <3>2
  <2> QED BY <1>type, <2>1, <2>2 DEF waitVars, Typed, TypeOK, CurrentIsNext
<1>13. CASE Tick
  <2>1. /\ now' \in Nat /\ overhead' \in Nat /\ spent' \in Nat /\ lost' \in Nat /\ busy' \in Nat
    BY <1>13, <1>type DEF Tick, TypeOK
  <2>2. /\ UNCHANGED <<comps, current, stage, faults, due, waitDeadline, workload, readyAt, waiter, wakeAt,
                       asked, attempt, passedOver, until, recorded>>
        /\ ticked' = (stage # "waiting")
    BY <1>13 DEF Tick
  <2>3. ticked' \in BOOLEAN
    BY <2>2
  <2> QED BY <1>type, <2>1, <2>2, <2>3 DEF Typed, TypeOK, CurrentIsNext
<1>14. CASE UNCHANGED vars
  BY <1>14, <1>type DEF vars, waitVars, Typed, TypeOK, CurrentIsNext
<1> QED BY <1>1, <1>2, <1>3, <1>4, <1>5, <1>6, <1>7, <1>8, <1>9, <1>10, <1>11, <1>12, <1>13, <1>14
        DEF Next, RoxieStep

\* Times are times, and stages and states are what the code distinguishes, whatever the limits.
THEOREM TypeCorrectness == Spec => []TypeOK
<1>1. Typed => TypeOK
  BY DEF Typed
<1> QED BY <1>1, TypedAtFirst, TypedNext, PTL DEF Spec

(***************************************************************************)
(* The balance of the time.                                                *)
(***************************************************************************)
\* The timeouts of the components before the current one.
Past == IF current = "SecuredCluster" THEN BudgetOf("Central") ELSE 0

Accounted ==
  /\ stage = "prepare" => now <= spent + Past
  /\ stage = "waiting" => /\ waitDeadline = Least(Deadline, due + Padding)
                          /\ due <= spent + Past + DeployTimeout(current)
                          /\ now <= spent + Past + DeployTimeout(current)
  /\ stage \in {"endpoint", "balancer", "finish", "probe", "manifest"} => now <= spent + Past + BudgetOf(current)

Balance == Typed /\ Accounted

\* The balance is even when the deploy begins.
LEMMA BalanceAtFirst == Init => Balance
<1> SUFFICES ASSUME Init PROVE Accounted
  BY TypedAtFirst DEF Balance
<1>1. now = 0 /\ spent = 0 /\ stage \in {"finish", "prepare"}
  BY DEF Init
<1>2. Past \in Nat
  BY LimitsAreNumbers DEF Past
<1> QED BY <1>1, <1>2, LimitsAreNumbers DEF Accounted

\* Every step keeps it.
LEMMA BalanceNext == Balance /\ [Next]_vars => Balance'
<1> SUFFICES ASSUME Balance, [Next]_vars PROVE Accounted'
  BY TypedNext DEF Balance
<1>inv. TypeOK /\ CurrentIsNext /\ Accounted /\ TypeOK'
  BY TypedNext DEF Balance, Typed
<1>types. /\ now \in Nat /\ spent \in Nat /\ due \in Nat /\ Past \in Nat /\ Padding \in Nat
          /\ \A c : DeployTimeout(c) \in Nat /\ BudgetOf(c) \in Nat
          /\ current \in Components /\ comps \subseteq Components
  BY <1>inv, LimitsAreNumbers DEF TypeOK, Past
<1>fixed. /\ comps' = comps => Deadline' = Deadline /\ \A c : BudgetOf(c)' = BudgetOf(c)
          /\ comps' = comps /\ current' = current => Past' = Past /\ BudgetOf(current)' = BudgetOf(current)
                                                     /\ DeployTimeout(current)' = DeployTimeout(current)
  BY DeadlineIsFixed DEF Past, BudgetOf, DeployTimeout
<1>1. CASE BeginWait
  <2>1. stage = "prepare" /\ UNCHANGED <<now, comps, current, spent>>
    BY <1>1 DEF BeginWait
  <2>2. CASE now < Deadline
    <3>1. stage' = "waiting" /\ due' = now + DeployTimeout(current) /\ waitDeadline' = WaitContext(now)
      BY <1>1, <2>2 DEF BeginWait
    <3>2. waitDeadline' = Least(Deadline, due' + Padding)
      BY <3>1 DEF WaitContext
    <3>3. now <= spent + Past
      BY <1>inv, <2>1 DEF Accounted
    <3>4. due' <= spent + Past + DeployTimeout(current) /\ now <= spent + Past + DeployTimeout(current)
      BY <1>types, <3>1, <3>3
    <3> QED BY <1>fixed, <2>1, <3>1, <3>2, <3>4 DEF Accounted
  <2>3. CASE ~(now < Deadline)
    BY <1>1, <2>3 DEF BeginWait, Accounted
  <2> QED BY <2>2, <2>3
<1>2. CASE WorkloadProgresses \/ WaitForResourceToExist \/ KubectlWait \/ Retry \/ ShowProgress
  <2>1. UNCHANGED <<now, comps, current, stage, spent, due, waitDeadline>>
    BY <1>2 DEF WorkloadProgresses, WaitForResourceToExist, KubectlWait, Retry, WaiterOnly, ShowProgress
  <2> QED BY <2>1, <1>inv, <1>fixed DEF Accounted
<1>3. CASE TakeResult \/ TimeoutReached
  <2>1. /\ stage = "waiting" /\ stage' \in {"endpoint", "finish", "timedOut", "failed"}
        /\ UNCHANGED <<now, comps, current, spent>>
    BY <1>3 DEF TakeResult, AfterResult, HasResult, TimeoutReached
  <2>2. BudgetOf(current) = DeployTimeout(current)
    BY <1>inv, <2>1 DEF CurrentIsNext, BudgetOf
  <2> QED BY <1>inv, <1>fixed, <2>1, <2>2 DEF Accounted
<1>4. CASE ConfigureCentralEndpoint \/ WaitForLoadBalancer \/ WaitForCentral \/ RecordManifest
  <2>1. /\ stage \in {"endpoint", "balancer", "probe", "manifest"}
        /\ stage' \in {"balancer", "finish", "failed", "manifest", "done"}
        /\ UNCHANGED <<now, comps, current, spent>>
    BY <1>4 DEF ConfigureCentralEndpoint, WaitForLoadBalancer, WaitForCentral, RecordManifest
  <2> QED BY <1>inv, <1>fixed, <2>1 DEF Accounted
<1>5. CASE Finish
  <2>1. stage = "finish" /\ UNCHANGED <<now, comps, spent>>
    BY <1>5 DEF Finish
  <2>2. CASE current = "Central" /\ "SecuredCluster" \in comps
    <3>1. current' = "SecuredCluster" /\ stage' = "prepare"
      BY <1>5, <2>2 DEF Finish
    <3>2. Past = 0 /\ Past' = BudgetOf("Central")
      BY <1>fixed, <2>1, <2>2, <3>1 DEF Past
    <3>3. now <= spent + Past'
      BY <1>inv, <1>types, <2>1, <2>2, <3>2 DEF Accounted
    <3> QED BY <2>1, <3>1, <3>3 DEF Accounted
  <2>3. CASE ~(current = "Central" /\ "SecuredCluster" \in comps)
    <3>1. current' = current /\ stage' = "probe"
      BY <1>5, <2>3 DEF Finish
    <3> QED BY <1>inv, <1>fixed, <2>1, <3>1 DEF Accounted
  <2> QED BY <2>2, <2>3
<1>6. CASE Tick
  <2>1. /\ now' = now + 1 /\ UNCHANGED <<comps, current, stage, due, waitDeadline>>
        /\ spent' = IF stage = "waiting" /\ now < due THEN spent ELSE spent + 1
    BY <1>6 DEF Tick
  <2>2. CASE stage = "waiting"
    <3>1. /\ due <= spent + Past + DeployTimeout(current)
          /\ now <= spent + Past + DeployTimeout(current)
          /\ waitDeadline' = Least(Deadline', due' + Padding)
      BY <1>inv, <1>fixed, <2>1, <2>2 DEF Accounted
    <3>2. /\ due <= spent' + Past + DeployTimeout(current)
          /\ now' <= spent' + Past + DeployTimeout(current)
      BY <1>types, <2>1, <2>2, <3>1
    <3> QED BY <1>fixed, <2>1, <2>2, <3>1, <3>2 DEF Accounted
  <2>3. CASE stage # "waiting"
    <3>1. spent' = spent + 1
      BY <2>1, <2>3
    <3>2. stage = "prepare" => now' <= spent' + Past
      BY <1>inv, <1>types, <2>1, <3>1 DEF Accounted
    <3>3. stage \in {"endpoint", "balancer", "finish", "probe", "manifest"} => now' <= spent' + Past + BudgetOf(current)
      BY <1>inv, <1>types, <2>1, <3>1 DEF Accounted
    <3> QED BY <1>fixed, <2>1, <2>3, <3>2, <3>3 DEF Accounted
  <2> QED BY <2>2, <2>3
<1>7. CASE UNCHANGED vars
  BY <1>7, <1>inv, <1>fixed DEF vars, waitVars, Accounted
<1> QED BY <1>1, <1>2, <1>3, <1>4, <1>5, <1>6, <1>7 DEF Next, RoxieStep

\* What a deploy has taken is what the configured timeouts account for and what it has spent on the
\* rest, in every state and for all values of the time limits.
THEOREM TimeInvariant == Spec => []Balance
BY BalanceAtFirst, BalanceNext, PTL DEF Spec

\* The timeouts up to the current component are part of the budget.
LEMMA PastIsBudgeted ==
  ASSUME Typed PROVE Past + BudgetOf(current) <= Budget
<1>1. current \in Components
  BY DEF Typed, TypeOK
<1> QED BY <1>1, LimitsAreNumbers DEF Past, Budget, Components

\* The context of the deploy cuts no wait short unless the rest of the deploy has used up more than the
\* margin (computeDeployContextTimeout), whatever timeouts are configured.
THEOREM WaitsAreNotClamped == Spec => []NotClamped
<1>1. Balance => NotClamped
  <2> SUFFICES ASSUME Balance, stage = "waiting", spent <= Margin PROVE waitDeadline >= due
    BY DEF NotClamped
  <2>types. /\ spent \in Nat /\ due \in Nat /\ Past \in Nat /\ BudgetOf(current) \in Nat
            /\ Margin \in Nat /\ Padding \in Nat /\ Budget \in Nat /\ Deadline \in Nat
    BY LimitsAreNumbers DEF Balance, Typed, TypeOK, Past
  <2>1. BudgetOf(current) = DeployTimeout(current)
    BY DEF Balance, Typed, CurrentIsNext, BudgetOf
  <2>2. due <= spent + Past + BudgetOf(current) /\ waitDeadline = Least(Deadline, due + Padding)
    BY <2>1 DEF Balance, Accounted
  <2>3. Past + BudgetOf(current) <= Budget
    BY PastIsBudgeted DEF Balance
  <2>4. Budget + Margin <= Deadline
    BY <2>types, LimitsAreNumbers DEF Deadline
  <2>5. due <= Deadline
    BY <2>types, <2>2, <2>3, <2>4
  <2> QED BY <2>types, <2>2, <2>5 DEF Least
<1> QED BY <1>1, TimeInvariant, PTL

Recorded == Balance /\ SuccessIsRecorded

\* The manifest of a deploy that succeeds is written unless everything but the configured timeouts has
\* used up the margin (runDeploy).
THEOREM SuccessesAreRecorded == Spec => []SuccessIsRecorded
<1>1. Init => Recorded
  BY BalanceAtFirst DEF Recorded, Init, SuccessIsRecorded
<1>2. Recorded /\ [Next]_vars => Recorded'
  <2> SUFFICES ASSUME Recorded, [Next]_vars PROVE SuccessIsRecorded'
    BY BalanceNext DEF Recorded
  <2>1. CASE RecordManifest
    <3>1. stage = "manifest" /\ recorded' = (now < Deadline) /\ spent' = spent
      BY <2>1 DEF RecordManifest
    <3>2. ASSUME spent < Margin PROVE now < Deadline
      <4>types. /\ now \in Nat /\ spent \in Nat /\ Past \in Nat /\ BudgetOf(current) \in Nat
                /\ Margin \in Nat /\ Budget \in Nat /\ Deadline \in Nat
        BY LimitsAreNumbers DEF Recorded, Balance, Typed, TypeOK, Past
      <4>1. now <= spent + Past + BudgetOf(current)
        BY <3>1 DEF Recorded, Balance, Accounted
      <4>2. Past + BudgetOf(current) <= Budget
        BY PastIsBudgeted DEF Recorded, Balance
      <4>3. Budget + Margin <= Deadline
        BY <4>types, LimitsAreNumbers DEF Deadline
      <4> QED BY <3>2, <4>types, <4>1, <4>2, <4>3
    <3> QED BY <3>1, <3>2 DEF SuccessIsRecorded
  <2>2. CASE ~RecordManifest
    <3>1. stage' = "done" => stage = "done" /\ recorded' = recorded /\ spent' = spent
      BY <2>2 DEF Next, RoxieStep, BeginWait, WorkloadProgresses, WaitForResourceToExist,
         KubectlWait, Retry, WaiterOnly, TakeResult, AfterResult, HasResult, TimeoutReached, ShowProgress,
         ConfigureCentralEndpoint, WaitForLoadBalancer, Finish, WaitForCentral, Tick, vars, waitVars
    <3> QED BY <3>1 DEF Recorded, SuccessIsRecorded
  <2> QED BY <2>1, <2>2
<1>3. Recorded => SuccessIsRecorded
  BY DEF Recorded
<1> QED BY <1>1, <1>2, <1>3, PTL DEF Spec
(***************************************************************************)
(* A component that is available in time is noticed in time.               *)
(***************************************************************************)
\* How soon after the component has become available the wait is over.
NoticedInTime == readyAt # Never => now <= readyAt + Poll + lost

\* The goroutine is at work, gives kubectl wait no less than the time until due, and fails for time only
\* when the context has expired or the component was not available by then.
Goroutine ==
  /\ waiter # "off"
  /\ workload = "available" <=> readyAt # Never
  /\ waiter \in {"polling", "getBackoff"} => now <= wakeAt
  /\ waiter = "waiting" => wakeAt >= due
  /\ waiter \in {"waiting", "backoff"} => now + asked >= due /\ (asked < 0 => waitDeadline >= due)
  /\ waiter = "error" => now >= waitDeadline \/ (now >= due /\ (readyAt = Never \/ readyAt >= due))

Noticed == stage = "waiting" => NoticedInTime /\ Goroutine

\* Every step keeps the goroutine at work.
LEMMA NoticedNext == Balance /\ Noticed /\ [Next]_vars => Noticed'
<1> SUFFICES ASSUME Balance, Noticed, [Next]_vars, stage' = "waiting"
             PROVE  NoticedInTime' /\ Goroutine'
  BY DEF Noticed
<1>types. /\ now \in Nat /\ due \in Nat /\ waitDeadline \in Nat /\ wakeAt \in Nat /\ lost \in Nat
          /\ attempt \in Nat /\ busy \in Nat /\ asked \in Int /\ readyAt \in {Never} \cup Nat
          /\ current \in Components /\ workload \in {"absent", "exists", "available"}
          /\ waiter \in {"off", "polling", "getBackoff", "waiting", "backoff", "ok", "error", "broken"}
  BY DEF Balance, Typed, TypeOK
<1>limits. /\ Poll \in Nat /\ Padding \in Nat /\ RetryDelay \in Nat /\ Deadline \in Nat
           /\ \A c : DeployTimeout(c) \in Nat
  BY LimitsAreNumbers
<1>never. Never \notin Nat
  BY DEF Never
<1>1. CASE BeginWait
  <2>1. /\ now' = now /\ due' \in Nat /\ waitDeadline' = WaitContext(now) /\ waiter' = "polling"
        /\ wakeAt' \in LookEnds(now, WaitContext(now)) /\ lost' = 0 /\ stage = "prepare"
        /\ readyAt' = (IF workload' = "available" THEN now ELSE Never)
    BY <1>1, <1>types, <1>limits DEF BeginWait
  <2>2. WaitContext(now) \in Nat
    BY <1>types, <1>limits DEF WaitContext, Least
  <2>3. now <= wakeAt'
    BY <1>types, <2>1, <2>2, LooksTakeTime
  <2>4. Goroutine'
    BY <1>types, <1>never, <2>1, <2>3 DEF Goroutine
  <2>5. NoticedInTime'
    BY <1>types, <1>limits, <2>1 DEF NoticedInTime
  <2> QED BY <2>4, <2>5
<1>2. CASE stage = "waiting"
  <2>inv. NoticedInTime /\ Goroutine
    BY <1>2 DEF Noticed
  <2>1. CASE WorkloadProgresses
    <3>1. /\ UNCHANGED <<now, due, waitDeadline, waiter, wakeAt, asked, lost>> /\ workload # "available"
          /\ workload' \in {"exists", "available"}
          /\ readyAt' = (IF workload' = "available" THEN now ELSE readyAt)
      BY <2>1 DEF WorkloadProgresses
    <3>2. readyAt = Never
      BY <2>inv, <3>1 DEF Goroutine
    <3>3. NoticedInTime'
      BY <1>types, <1>limits, <3>1, <3>2 DEF NoticedInTime
    <3>4. Goroutine'
      BY <1>types, <1>never, <2>inv, <3>1, <3>2 DEF Goroutine
    <3> QED BY <3>3, <3>4
  <2>2. CASE WaitForResourceToExist
    <3>1. /\ UNCHANGED <<now, due, waitDeadline, workload, readyAt, lost>>
          /\ waiter \in {"polling", "getBackoff"}
      BY <2>2 DEF WaitForResourceToExist, WaiterOnly
    <3>2. NoticedInTime'
      BY <2>inv, <3>1 DEF NoticedInTime
    <3>3. CASE CtxDone /\ waiter' = "error"
      BY <2>inv, <3>1, <3>2, <3>3 DEF Goroutine, CtxDone
    <3>4. CASE /\ ~CtxDone /\ waiter' = "waiting" /\ asked' = due - now
               /\ wakeAt' = IF now > due THEN waitDeadline ELSE due
      <4>1. now < waitDeadline
        BY <1>types, <3>4 DEF CtxDone
      <4>2. wakeAt' >= due /\ now + asked' >= due /\ (asked' < 0 => waitDeadline >= due)
        BY <1>types, <3>4, <4>1
      <4>3. workload = "available" <=> readyAt # Never
        BY <2>inv DEF Goroutine
      <4>4. Goroutine'
        BY <3>1, <3>4, <4>2, <4>3 DEF Goroutine
      <4> QED BY <3>2, <4>4
    <3>5. CASE waiter' = "polling" /\ wakeAt' \in LookEnds(now + Poll, waitDeadline)
      <4>1. now + Poll \in Nat
        BY <1>types, <1>limits
      <4>2. now + Poll <= wakeAt' /\ wakeAt' \in Nat
        BY <1>types, <3>5, <4>1, LooksTakeTime
      <4>3. now <= wakeAt'
        BY <1>types, <1>limits, <4>2
      <4> QED BY <2>inv, <3>1, <3>2, <3>5, <4>3 DEF Goroutine
    <3>6. CASE /\ waiter' = "getBackoff" /\ attempt' = attempt + 1
               /\ wakeAt' \in LookEnds(now + attempt' * RetryDelay, waitDeadline)
      <4>1. attempt' * RetryDelay \in Nat
        BY <1>types, <1>limits, <3>6, ProductIsNumber
      <4>2. now + attempt' * RetryDelay \in Nat /\ now <= now + attempt' * RetryDelay
        BY <1>types, <4>1
      <4>3. now + attempt' * RetryDelay <= wakeAt' /\ wakeAt' \in Nat
        BY <1>types, <3>6, <4>2, LooksTakeTime
      <4>4. now <= wakeAt'
        BY <1>types, <4>1, <4>3
      <4> QED BY <2>inv, <3>1, <3>2, <3>6, <4>4 DEF Goroutine
    <3> QED BY <2>2, <3>3, <3>4, <3>5, <3>6 DEF WaitForResourceToExist, LooksAgain, KubectlFails
  <2>3. CASE KubectlWait
    <3>1. /\ UNCHANGED <<now, due, waitDeadline, workload, readyAt, lost, asked>> /\ waiter = "waiting"
          /\ waiter' \in {"ok", "error", "backoff", "broken"}
      BY <2>3 DEF KubectlWait, WaiterOnly, TriesAgain
    <3>2. waiter' = "error" => now >= waitDeadline \/ (now >= due /\ readyAt = Never)
      <4>1. CASE CtxDone
        BY <4>1 DEF CtxDone
      <4>2. CASE wakeAt = now /\ workload # "available"
        BY <2>inv, <3>1, <4>2 DEF Goroutine
      <4>3. waiter' = "error" => CtxDone \/ (wakeAt = now /\ workload # "available")
        BY <2>3 DEF KubectlWait, TriesAgain
      <4> QED BY <4>1, <4>2, <4>3
    <3> QED BY <2>inv, <3>1, <3>2 DEF NoticedInTime, Goroutine
  <2>4. CASE Retry
    <3>1. /\ UNCHANGED <<now, due, waitDeadline, workload, readyAt, lost, asked>> /\ waiter = "backoff"
          /\ waiter' \in {"error", "waiting"}
      BY <2>4 DEF Retry, WaiterOnly
    <3>2. waiter' = "error" => now >= waitDeadline
      BY <2>4 DEF Retry, CtxDone
    <3>3. waiter' = "waiting" => wakeAt' >= due
      <4>1. waiter' = "waiting" => wakeAt' = IF asked < 0 THEN waitDeadline ELSE now + asked
        BY <2>4 DEF Retry
      <4> QED BY <2>inv, <3>1, <4>1 DEF Goroutine
    <3> QED BY <2>inv, <3>1, <3>2, <3>3 DEF NoticedInTime, Goroutine
  <2>5. CASE ShowProgress
    BY <2>5, <2>inv DEF ShowProgress, NoticedInTime, Goroutine
  <2>6. CASE Tick
    <3>1. /\ now' = now + 1 /\ ~WaiterIsDue /\ ~LoopIsDue /\ lost' = (IF IsHeldUp THEN lost + 1 ELSE lost)
          /\ UNCHANGED <<due, waitDeadline, workload, readyAt, waiter, wakeAt, asked>>
      BY <1>2, <2>6 DEF Tick
    <3>2. waiter \in {"polling", "getBackoff"} => now < wakeAt
      BY <1>types, <2>inv, <3>1 DEF Goroutine, WaiterIsDue
    <3>3. Goroutine'
      BY <1>types, <2>inv, <3>1, <3>2 DEF Goroutine
    <3>4. ASSUME readyAt # Never PROVE now + 1 <= readyAt + Poll + lost'
      <4>1. readyAt \in Nat /\ workload = "available" /\ now <= readyAt + Poll + lost
        BY <1>types, <2>inv, <3>4 DEF Goroutine, NoticedInTime
      <4>2. CASE IsHeldUp
        BY <1>types, <1>limits, <3>1, <4>1, <4>2
      <4>3. CASE ~IsHeldUp
        <5>1. IsIdle /\ waiter \notin {"getBackoff", "backoff"} /\ ~(waiter = "polling" /\ wakeAt > readyAt + Poll)
          BY <1>2, <3>4, <4>3 DEF IsHeldUp
        <5>2. waiter = "polling"
          BY <1>types, <2>inv, <3>1, <4>1, <5>1 DEF Goroutine, LoopIsDue, HasResult, WaiterIsDue, KubectlWaitEnds
        <5>3. now + 1 <= readyAt + Poll
          BY <1>types, <1>limits, <3>2, <4>1, <5>1, <5>2
        <5> QED BY <1>types, <1>limits, <3>1, <4>1, <4>3, <5>3
      <4> QED BY <4>2, <4>3
    <3>5. NoticedInTime'
      BY <3>1, <3>4 DEF NoticedInTime
    <3> QED BY <3>3, <3>5
  <2>7. CASE UNCHANGED vars
    BY <2>7, <2>inv DEF vars, waitVars, NoticedInTime, Goroutine
  <2> QED BY <1>1, <1>2, [Next]_vars, stage' = "waiting", <2>1, <2>2, <2>3, <2>4, <2>5, <2>6, <2>7
          DEF Next, RoxieStep, TakeResult, AfterResult, HasResult, TimeoutReached, ConfigureCentralEndpoint,
              WaitForLoadBalancer, Finish, WaitForCentral, RecordManifest
<1>3. stage = "waiting" \/ BeginWait
  BY DEF Next, RoxieStep, WorkloadProgresses, WaitForResourceToExist, KubectlWait, Retry, TakeResult,
         TimeoutReached, ShowProgress, ConfigureCentralEndpoint, WaitForLoadBalancer, Finish, WaitForCentral,
         RecordManifest, Tick, vars
<1> QED BY <1>1, <1>2, <1>3

WaitsInTime == Balance /\ Noticed /\ AvailableInTimeSucceeds

\* A wait times out early only when the padding has been used up, or the deploy's context has ended it.
LEMMA TimeoutIsDeserved == WaitsInTime /\ [Next]_vars => AvailableInTimeSucceeds'
<1> SUFFICES ASSUME WaitsInTime, [Next]_vars, stage' = "timedOut", lost' + Poll <= Padding,
                    due' + Padding <= Deadline'
             PROVE  readyAt' = Never \/ readyAt' >= due'
  BY DEF AvailableInTimeSucceeds
<1>types. /\ now \in Nat /\ due \in Nat /\ waitDeadline \in Nat /\ lost \in Nat /\ readyAt \in {Never} \cup Nat
          /\ Poll \in Nat /\ Padding \in Nat /\ Deadline \in Nat
  BY LimitsAreNumbers DEF WaitsInTime, Balance, Typed, TypeOK
<1>1. CASE (TakeResult \/ TimeoutReached) /\ stage = "waiting"
  <2>1. /\ UNCHANGED <<now, due, readyAt, lost, comps>>
        /\ waiter = "error" \/ CtxDone
    BY <1>1 DEF TakeResult, AfterResult, HasResult, TimeoutReached, waitVars
  <2>2. Deadline' = Deadline
    BY <2>1, DeadlineIsFixed
  <2>3. waitDeadline = due + Padding
    BY <1>1, <1>types, <2>1, <2>2 DEF WaitsInTime, Balance, Accounted, Least
  <2>4. now >= waitDeadline \/ (readyAt = Never \/ readyAt >= due)
    BY <1>1, <2>1 DEF WaitsInTime, Noticed, Goroutine, CtxDone
  <2>5. CASE now >= waitDeadline
    <3>1. readyAt # Never => now <= readyAt + Poll + lost
      BY <1>1 DEF WaitsInTime, Noticed, NoticedInTime
    <3> QED BY <1>types, <2>1, <2>3, <2>5, <3>1
  <2> QED BY <2>1, <2>4, <2>5
<1>2. CASE stage # "waiting"
  <2>1. stage = "timedOut" /\ UNCHANGED <<due, readyAt, lost, comps>>
    BY <1>2 DEF Next, RoxieStep, BeginWait, WorkloadProgresses, WaitForResourceToExist, KubectlWait, Retry,
       TakeResult, TimeoutReached, ShowProgress, ConfigureCentralEndpoint, WaitForLoadBalancer, Finish,
       WaitForCentral, RecordManifest, Tick, vars, waitVars
  <2> QED BY <2>1, DeadlineIsFixed DEF WaitsInTime, AvailableInTimeSucceeds
<1>3. stage = "waiting" => TakeResult \/ TimeoutReached
  BY DEF Next, RoxieStep, BeginWait, WorkloadProgresses, WaitForResourceToExist, KubectlWait, Retry, WaiterOnly,
     ShowProgress, ConfigureCentralEndpoint, WaitForLoadBalancer, Finish, WaitForCentral, RecordManifest, Tick, vars
<1> QED BY <1>1, <1>2, <1>3

\* A wait is reported as timed out for a component that became available before its timeout only when
\* failed and slow calls to kubectl have cost more than the padding leaves after one poll, or when the
\* deploy's context ended the wait (waitForComponentReady); whatever timeouts are configured and
\* whichever of the cases that are ready select takes.
THEOREM AvailableInTimeSucceedsCorrect == Spec => []AvailableInTimeSucceeds
<1>1. Init => WaitsInTime
  <2>1. Init => stage \in {"finish", "prepare"}
    BY DEF Init
  <2> QED BY <2>1, BalanceAtFirst DEF WaitsInTime, Noticed, AvailableInTimeSucceeds
<1>2. WaitsInTime /\ [Next]_vars => WaitsInTime'
  BY BalanceNext, NoticedNext, TimeoutIsDeserved DEF WaitsInTime
<1>3. WaitsInTime => AvailableInTimeSucceeds
  BY DEF WaitsInTime
<1> QED BY <1>1, <1>2, <1>3, PTL DEF Spec
(***************************************************************************)
(* How late a deploy can be.                                               *)
(***************************************************************************)
\* The deadline, one check of the progress, and the steps that wait for nothing.
Late == Deadline + MaxBusy + overhead

Lateness ==
  /\ overhead <= MaxOverhead
  /\ stage = "waiting" => now + busy <= waitDeadline + MaxBusy
  /\ stage = "endpoint" => now <= Late
  /\ stage = "balancer" => now <= wakeAt /\ wakeAt <= Late + BalancerTakes /\ until <= Late + LoadBalancerWait
  /\ stage \in {"prepare", "finish", "failed", "timedOut"} => now <= Late + BalancerTakes
  /\ stage = "probe" => now <= until /\ until <= Late + BalancerTakes + Probe
  /\ stage \in {"manifest", "done"} => now <= Late + BalancerTakes + Probe

LateInv == Balance /\ Lateness

\* What the bound is made of are numbers.
LEMMA BoundsAreNumbers ==
  ASSUME Typed
  PROVE  /\ now \in Nat /\ overhead \in Nat /\ busy \in Nat /\ wakeAt \in Nat /\ until \in Nat /\ waitDeadline \in Nat
         /\ Deadline \in Nat /\ MaxBusy \in Nat /\ MaxOverhead \in Nat /\ Probe \in Nat /\ Late \in Nat
         /\ LoadBalancerWait \in Nat /\ BalancerPoll \in Nat /\ BalancerTakes \in Nat
         /\ BalancerTakes = LoadBalancerWait + MaxBusy + BalancerPoll
<1>1. /\ now \in Nat /\ overhead \in Nat /\ busy \in Nat /\ wakeAt \in Nat /\ until \in Nat /\ waitDeadline \in Nat
  BY DEF Typed, TypeOK
<1>2. /\ Deadline \in Nat /\ MaxBusy \in Nat /\ MaxOverhead \in Nat /\ Probe \in Nat
      /\ LoadBalancerWait \in Nat /\ BalancerPoll \in Nat
  BY LimitsAreNumbers
<1> QED BY <1>1, <1>2 DEF Late, BalancerTakes

\* A wait ends with its context, or with a check of the progress that began before.
LEMMA WaitEndsSoon ==
  ASSUME Balance, Lateness, stage = "waiting" PROVE now <= Late
<1>1. waitDeadline = Least(Deadline, due + Padding) /\ now + busy <= waitDeadline + MaxBusy
  BY DEF Balance, Accounted, Lateness
<1>2. due + Padding \in Nat
  BY LimitsAreNumbers DEF Balance, Typed, TypeOK
<1>3. waitDeadline <= Deadline
  BY <1>1, <1>2, BoundsAreNumbers DEF Least, Balance
<1> QED BY <1>1, <1>3, BoundsAreNumbers DEF Late, Balance

\* A deploy is not late when it begins.
LEMMA LateInvInit == Init => LateInv
<1> SUFFICES ASSUME Init PROVE Lateness
  BY BalanceAtFirst DEF LateInv
<1>1. now = 0 /\ overhead = 0 /\ stage \in {"finish", "prepare"}
  BY DEF Init
<1>2. MaxOverhead \in Nat /\ Late + BalancerTakes \in Nat
  BY TypedAtFirst, BoundsAreNumbers
<1> QED BY <1>1, <1>2 DEF Lateness

\* No step makes it later than the bound accounts for.
LEMMA LateInvNext == LateInv /\ [Next]_vars => LateInv'
<1> SUFFICES ASSUME LateInv, [Next]_vars PROVE Lateness'
  BY BalanceNext DEF LateInv
<1>inv. Balance /\ Typed /\ Lateness /\ Balance' /\ Typed'
  BY BalanceNext DEF LateInv, Balance
<1>types. /\ now \in Nat /\ overhead \in Nat /\ busy \in Nat /\ wakeAt \in Nat /\ until \in Nat /\ waitDeadline \in Nat
          /\ Deadline \in Nat /\ MaxBusy \in Nat /\ MaxOverhead \in Nat /\ Probe \in Nat /\ Late \in Nat
          /\ LoadBalancerWait \in Nat /\ BalancerPoll \in Nat /\ BalancerTakes \in Nat
          /\ BalancerTakes = LoadBalancerWait + MaxBusy + BalancerPoll
  BY <1>inv, BoundsAreNumbers
<1>fixed. comps' = comps => /\ Deadline' = Deadline
                            /\ overhead' = overhead => Late' = Late
                            /\ overhead' = overhead + 1 => Late' = Late + 1
  BY <1>types, DeadlineIsFixed DEF Late
<1>bound. BalancerTakes' = BalancerTakes
  BY DEF BalancerTakes
<1>late. stage = "waiting" => now <= Late
  BY <1>inv, WaitEndsSoon
<1>1. CASE BeginWait
  <2>1. stage = "prepare" /\ UNCHANGED <<now, comps, overhead>>
    BY <1>1 DEF BeginWait
  <2>2. CASE now < Deadline
    <3>1. stage' = "waiting" /\ busy' = 0 /\ waitDeadline' = WaitContext(now)
      BY <1>1, <2>2 DEF BeginWait
    <3>2. now <= waitDeadline' /\ waitDeadline' \in Nat
      <4>1. now + DeployTimeout(current) + Padding \in Nat /\ now <= now + DeployTimeout(current) + Padding
        BY <1>types, LimitsAreNumbers
      <4> QED BY <1>types, <2>2, <3>1, <4>1 DEF WaitContext, Least
    <3>3. now' + busy' <= waitDeadline' + MaxBusy
      BY <1>types, <2>1, <3>1, <3>2
    <3> QED BY <1>inv, <2>1, <3>1, <3>3 DEF Lateness
  <2>3. CASE ~(now < Deadline)
    <3>1. stage' = "failed"
      BY <1>1, <2>3 DEF BeginWait
    <3> QED BY <1>inv, <1>fixed, <1>bound, <2>1, <3>1 DEF Lateness
  <2> QED BY <2>2, <2>3
<1>2. CASE WorkloadProgresses \/ WaitForResourceToExist \/ KubectlWait \/ Retry
  <2>1. stage = "waiting" /\ UNCHANGED <<now, comps, stage, overhead, busy, waitDeadline>>
    BY <1>2 DEF WorkloadProgresses, WaitForResourceToExist, KubectlWait, Retry, WaiterOnly
  <2> QED BY <1>inv, <2>1 DEF Lateness
<1>3. CASE TakeResult \/ TimeoutReached
  <2>1. /\ stage = "waiting" /\ stage' \in {"endpoint", "finish", "timedOut", "failed"}
        /\ UNCHANGED <<now, comps, overhead>>
    BY <1>3 DEF TakeResult, AfterResult, HasResult, TimeoutReached
  <2>2. now <= Late /\ now <= Late + BalancerTakes
    BY <1>types, <1>late, <2>1
  <2> QED BY <1>inv, <1>fixed, <1>bound, <2>1, <2>2 DEF Lateness
<1>4. CASE ShowProgress
  <2>1. /\ stage = "waiting" /\ IsIdle /\ UNCHANGED <<now, comps, stage, overhead, waitDeadline>>
    BY <1>4 DEF ShowProgress
  <2>2. PICK d \in 0..MaxBusy : (CtxDone => d = 0) /\ busy' = d
    BY <1>4 DEF ShowProgress
  <2>3. now + d <= waitDeadline + MaxBusy
    <3>1. CASE CtxDone
      <4>1. now + busy <= waitDeadline + MaxBusy /\ busy = 0 /\ d = 0
        BY <1>inv, <2>1, <2>2, <3>1 DEF Lateness, IsIdle
      <4> QED BY <4>1
    <3>2. CASE ~CtxDone
      BY <1>types, <2>2, <3>2 DEF CtxDone
    <3> QED BY <3>1, <3>2
  <2> QED BY <1>inv, <2>1, <2>2, <2>3 DEF Lateness
<1>5. CASE ConfigureCentralEndpoint
  <2>1. stage = "endpoint" /\ UNCHANGED <<now, comps, overhead>>
    BY <1>5 DEF ConfigureCentralEndpoint
  <2>2. \/ stage' = "finish"
        \/ stage' = "balancer" /\ wakeAt' = now /\ until' = now + LoadBalancerWait
    BY <1>5 DEF ConfigureCentralEndpoint
  <2>3. now <= Late
    BY <1>inv, <2>1 DEF Lateness
  <2>4. now <= Late + BalancerTakes /\ now + LoadBalancerWait <= Late + LoadBalancerWait
    BY <1>types, <2>3
  <2> QED BY <1>inv, <1>types, <1>fixed, <1>bound, <2>1, <2>2, <2>4 DEF Lateness
<1>6. CASE WaitForLoadBalancer
  <2>1. stage = "balancer" /\ wakeAt = now /\ UNCHANGED <<now, comps, overhead>>
    BY <1>6 DEF WaitForLoadBalancer
  <2>2. \/ stage' \in {"finish", "failed"}
        \/ /\ now < until /\ stage' = stage /\ until' = until
           /\ \E d \in 0..MaxBusy : wakeAt' = now + d + BalancerPoll
    BY <1>6, <1>types DEF WaitForLoadBalancer, BalancerTimedOut
  <2>3. now <= Late + BalancerTakes /\ until <= Late + LoadBalancerWait
    BY <1>inv, <2>1 DEF Lateness
  <2>4. CASE stage' \in {"finish", "failed"}
    BY <1>inv, <1>fixed, <1>bound, <2>1, <2>3, <2>4 DEF Lateness
  <2>5. CASE stage' = stage /\ now < until /\ until' = until
    <3>1. PICK d \in 0..MaxBusy : wakeAt' = now + d + BalancerPoll
      BY <2>1, <2>2, <2>5
    <3>2. now <= wakeAt' /\ wakeAt' <= Late + BalancerTakes
      BY <1>types, <2>3, <2>5, <3>1
    <3> QED BY <1>inv, <1>fixed, <1>bound, <2>1, <2>3, <2>5, <3>2 DEF Lateness
  <2> QED BY <2>2, <2>4, <2>5
<1>7. CASE Finish
  <2>1. stage = "finish" /\ UNCHANGED <<now, comps, overhead>>
    BY <1>7 DEF Finish
  <2>2. \/ stage' = "prepare"
        \/ stage' = "probe" /\ until' \in {now, now + Probe}
    BY <1>7 DEF Finish
  <2>3. now <= Late + BalancerTakes
    BY <1>inv, <2>1 DEF Lateness
  <2>4. /\ until' \in {now, now + Probe} => now <= until' /\ until' <= Late + BalancerTakes + Probe
    BY <1>types, <2>3
  <2> QED BY <1>inv, <1>fixed, <1>bound, <2>1, <2>2, <2>3, <2>4 DEF Lateness
<1>8. CASE WaitForCentral \/ RecordManifest
  <2>1. /\ \/ stage = "probe" /\ stage' = "manifest"
           \/ stage = "manifest" /\ stage' = "done"
        /\ UNCHANGED <<now, comps, overhead>>
    BY <1>8 DEF WaitForCentral, RecordManifest
  <2>2. now <= Late + BalancerTakes + Probe
    BY <1>inv, <1>types, <2>1 DEF Lateness
  <2> QED BY <1>inv, <1>fixed, <1>bound, <2>1, <2>2 DEF Lateness
<1>9. CASE Tick
  <2>1. now' = now + 1 /\ UNCHANGED <<comps, stage, until, wakeAt, waitDeadline>>
    BY <1>9 DEF Tick
  <2>2. CASE stage \in {"prepare", "endpoint", "finish"} /\ overhead < MaxOverhead /\ overhead' = overhead + 1
    <3>1. overhead' <= MaxOverhead
      BY <1>types, <2>2
    <3>2. stage = "endpoint" => now' <= Late'
      BY <1>inv, <1>types, <1>fixed, <2>1, <2>2 DEF Lateness
    <3>3. stage \in {"prepare", "finish"} => now' <= Late' + BalancerTakes
      BY <1>inv, <1>types, <1>fixed, <2>1, <2>2 DEF Lateness
    <3> QED BY <1>bound, <2>1, <2>2, <3>1, <3>2, <3>3 DEF Lateness
  <2>3. CASE stage = "waiting" /\ ~LoopIsDue /\ overhead' = overhead
    <3>1. busy' = IF busy > 0 THEN busy - 1 ELSE 0
      BY <1>9 DEF Tick
    <3>2. busy > 0 \/ now < waitDeadline
      BY <1>types, <2>3 DEF LoopIsDue, IsIdle, CtxDone
    <3>3. now + busy <= waitDeadline + MaxBusy
      BY <1>inv, <2>3 DEF Lateness
    <3>4. now' + busy' <= waitDeadline + MaxBusy
      BY <1>types, <2>1, <3>1, <3>2, <3>3
    <3> QED BY <1>inv, <2>1, <2>3, <3>4 DEF Lateness
  <2>4. CASE stage = "balancer" /\ now < wakeAt /\ overhead' = overhead
    <3>1. now' <= wakeAt
      BY <1>types, <2>1, <2>4
    <3> QED BY <1>inv, <1>fixed, <1>bound, <2>1, <2>4, <3>1 DEF Lateness
  <2>5. CASE stage = "probe" /\ now < until /\ overhead' = overhead
    <3>1. now' <= until
      BY <1>types, <2>1, <2>5
    <3> QED BY <1>inv, <1>fixed, <1>bound, <2>1, <2>5, <3>1 DEF Lateness
  <2> QED BY <1>9, <2>2, <2>3, <2>4, <2>5 DEF Tick
<1>10. CASE UNCHANGED vars
  BY <1>inv, <1>fixed, <1>bound, <1>10 DEF vars, waitVars, Lateness
<1> QED BY <1>1, <1>2, <1>3, <1>4, <1>5, <1>6, <1>7, <1>8, <1>9, <1>10 DEF Next, RoxieStep

\* Whatever the limits, and with a margin of any size: a deploy outlasts the deadline of its context by
\* no more than one check of the progress, the steps that do not look at the context, and the waits for
\* the load balancer and for Central's answer.
THEOREM EndsInTimeCorrect == Spec => []EndsInTime
<1>1. LateInv => EndsInTime
  <2> SUFFICES ASSUME LateInv PROVE EndsInTime
    OBVIOUS
  <2>types. /\ now \in Nat /\ overhead \in Nat /\ until \in Nat /\ Deadline \in Nat /\ MaxBusy \in Nat
            /\ MaxOverhead \in Nat /\ Probe \in Nat /\ Late \in Nat /\ BalancerTakes \in Nat
    BY BoundsAreNumbers DEF LateInv, Balance
  <2>1. now <= Late + BalancerTakes + Probe
    <3>1. stage = "waiting" => now <= Late
      BY WaitEndsSoon DEF LateInv
    <3>2. stage \in {"prepare", "waiting", "endpoint", "balancer", "finish", "probe", "manifest", "done", "failed",
                     "timedOut"}
      BY DEF LateInv, Balance, Typed, TypeOK
    <3>3. /\ wakeAt \in Nat /\ (stage = "balancer" => now <= wakeAt /\ wakeAt <= Late + BalancerTakes)
          /\ stage = "endpoint" => now <= Late
          /\ stage \in {"prepare", "finish", "failed", "timedOut"} => now <= Late + BalancerTakes
          /\ stage = "probe" => now <= until /\ until <= Late + BalancerTakes + Probe
          /\ stage \in {"manifest", "done"} => now <= Late + BalancerTakes + Probe
      BY BoundsAreNumbers DEF LateInv, Balance, Lateness
    <3> QED BY <2>types, <3>1, <3>2, <3>3
  <2>2. overhead <= MaxOverhead
    BY DEF LateInv, Lateness
  <2> QED BY <2>types, <2>1, <2>2 DEF Late, EndsInTime
<1> QED BY <1>1, LateInvInit, LateInvNext, PTL DEF Spec
===============================================================================
