---------------------------- MODULE PortForwarding ----------------------------
(***************************************************************************)
(* The local processes that roxie starts next to itself: kubectl           *)
(* port-forward (internal/portforward) for the deploy and shell commands,  *)
(* attached or, with an envrc file or --eval, detached, and HAProxy for    *)
(* the subshell (cmd/subshell.go); and how deploy and teardown stop the    *)
(* detached one, whose process id is in the environment of the terminal    *)
(* that has read the envrc (internal/deployer/deployer.go).                *)
(*                                                                         *)
(* Process ids are used again.  A process that has died keeps its id only  *)
(* while the roxie that started it runs.                                   *)
(***************************************************************************)
EXTENDS Integers, FiniteSets

CONSTANTS
  Terminals,    \* the terminals that roxie runs in
  Clusters,     \* the clusters of the kubectl contexts
  Pids,         \* the process ids
  NoOne,        \* none of these
  LastPort,     \* the local ports are 1, which is preferred (8443), to LastPort
  Together,     \* whether commands of several terminals run at the same time
  MaxCommands,  \* bound on commands
  MaxFaults,    \* bound on failing calls
  MaxKills,     \* bound on killed commands
  MaxOthers     \* bound on other programs that start later

ASSUME ConstantsAssumption ==
  /\ NoOne \notin Terminals \cup Clusters \cup Pids
  /\ LastPort \in Nat \ {0} /\ Together \in BOOLEAN
  /\ {MaxCommands, MaxFaults, MaxKills, MaxOthers} \subseteq Nat

VARIABLES
  proc,     \* the processes other than roxie
  central,  \* per cluster: how often Central was deployed, and whether it is there
  env,      \* per terminal: ROXIE_PORT_FORWARD_PID, or NoOne
  cmd,      \* per terminal: its roxie command
  commands, faults, kills, others

vars == <<proc, central, env, cmd, commands, faults, kills, others>>

UIPort == 0    \* the port that HAProxy is configured to bind
Ports == 1..LastPort

(***************************************************************************)
(* Processes.                                                              *)
(***************************************************************************)
Process == [kind   : {"none", "kubectl", "haproxy", "other"},
            state  : {"starting", "listening", "zombie"},
            port   : {-1} \cup {UIPort} \cup Ports,
            by     : {"", "deploy", "shell"},  \* the command that started it
            to     : [cluster : Clusters \cup {NoOne}, times : Nat],  \* the Central that it serves
            detached : BOOLEAN,
            parent : Terminals \cup {NoOne},
            termed : BOOLEAN,   \* has got a SIGTERM
            ready  : BOOLEAN]   \* history: its start was reported as successful

NoProcess == [kind |-> "none", state |-> "starting", port |-> -1, by |-> "",
              to |-> [cluster |-> NoOne, times |-> 0],
              detached |-> FALSE, parent |-> NoOne, termed |-> FALSE, ready |-> FALSE]

IsUnused(p) == proc[p].kind = "none"
Listeners(port) == {p \in Pids : proc[p].state = "listening" /\ proc[p].port = port}
IsServed(to) == central[to.cluster] = [times |-> to.times, up |-> TRUE]

\* A process that dies stays as a zombie until the roxie that started it waits or exits.
Dead(P, p) == [P EXCEPT ![p] = IF P[p].parent = NoOne THEN NoProcess
                               ELSE [@ EXCEPT !.state = "zombie", !.port = -1]]
Terminated(P, p) == [P EXCEPT ![p].termed = TRUE]

\* The processes after the command of terminal t has exited.
Orphaned(P, t) == [p \in Pids |->
  IF P[p].parent # t THEN P[p]
  ELSE IF P[p].state = "zombie" THEN NoProcess ELSE [P[p] EXCEPT !.parent = NoOne]]

(***************************************************************************)
(* Commands.                                                               *)
(***************************************************************************)
Command == [kind    : {"", "deploy", "shell", "teardown"},
            mode    : {"attached", "detached", "exposed"},
            cluster : Clusters \cup {NoOne},
            pc      : {"ended", "failed", "stop", "teardown", "central", "find", "start",
                       "wait", "envrc", "haproxy", "serving", "waitProxy", "stopForward",
                       "waitForward"},
            pid     : {NoOne} \cup Pids,     \* portForwardPID
            port    : {-1} \cup Ports,   \* localPort
            child   : {NoOne} \cup Pids,     \* the port-forward it started
            proxy   : {NoOne} \cup Pids]     \* the HAProxy it started

HasEnded(t) == cmd[t].pc \in {"ended", "failed"}
MayStart(t) == /\ HasEnded(t) /\ commands < MaxCommands
               /\ Together \/ \A u \in Terminals : HasEnded(u) \/ cmd[u].pc = "serving"
NewCommand(t, kind, mode, c, pc) ==
  [kind |-> kind, mode |-> mode, cluster |-> c, pc |-> pc, pid |-> env[t], port |-> -1,
   child |-> NoOne, proxy |-> NoOne]
NamespaceExists(c) == central[c].times > 0

Goto(t, pc) == cmd' = [cmd EXCEPT ![t].pc = pc]
Ends(t, P, how) == Goto(t, how) /\ proc' = Orphaned(P, t)
Fault == faults < MaxFaults /\ faults' = faults + 1

StartDeploy(t) ==
  /\ MayStart(t) /\ commands' = commands + 1
  /\ \E c \in Clusters, mode \in {"attached", "detached", "exposed"}, found \in BOOLEAN :
       /\ IF NamespaceExists(c) /\ ~found THEN Fault
          ELSE found = NamespaceExists(c) /\ UNCHANGED faults
       /\ cmd' = [cmd EXCEPT ![t] =
            NewCommand(t, "deploy", mode, c, IF found THEN "stop" ELSE "central")]
  /\ UNCHANGED <<proc, central, env, kills, others>>

StartTeardown(t) ==
  /\ MayStart(t) /\ commands' = commands + 1
  /\ \E c \in Clusters, found \in BOOLEAN :
       /\ IF NamespaceExists(c) /\ ~found THEN Fault
          ELSE found = NamespaceExists(c) /\ UNCHANGED faults
       /\ cmd' = [cmd EXCEPT ![t] =
            NewCommand(t, "teardown", "attached", c, IF found THEN "stop" ELSE "ended")]
  /\ UNCHANGED <<proc, central, env, kills, others>>

\* Of an exposed Central --eval prints the variables, and a subshell starts, without a port-forward.
StartShell(t) ==
  /\ MayStart(t) /\ commands' = commands + 1
  /\ \E c \in Clusters, mode \in {"attached", "detached", "exposed"} :
       /\ central[c].up
       /\ \E pc \in IF mode = "exposed" THEN {"envrc", "haproxy"} ELSE {"find"} :
            cmd' = [cmd EXCEPT ![t] = [NewCommand(t, "shell", mode, c, pc) EXCEPT !.pid = NoOne]]
  /\ UNCHANGED <<proc, central, env, faults, kills, others>>

(***************************************************************************)
(* teardownCentral.  The port-forward manager of the process is fresh, so  *)
(* that only the detached port-forward can be stopped: with SIGKILL, by    *)
(* its id alone, which is forgotten only if that worked.                   *)
(***************************************************************************)
StopDetachedPortForwardMutant(t) ==
  /\ cmd[t].pc = "stop" /\ Goto(t, "teardown")
  /\ UNCHANGED <<proc, central, env, commands, faults, kills, others>>
StopDetachedPortForward(t) ==
  /\ cmd[t].pc = "stop"
  /\ IF cmd[t].pid = NoOne \/ IsUnused(cmd[t].pid)
     THEN Goto(t, "teardown") /\ UNCHANGED proc
     ELSE /\ cmd' = [cmd EXCEPT ![t].pc = "teardown", ![t].pid = NoOne]
          /\ proc' = Dead(proc, cmd[t].pid)
  /\ UNCHANGED <<central, env, commands, faults, kills, others>>

\* The error of the deletion is only logged if the teardown is part of a deploy.
DeleteCentralResources(t) ==
  /\ cmd[t].pc = "teardown"
  /\ \/ central' = [central EXCEPT ![cmd[t].cluster].up = FALSE] /\ UNCHANGED faults
     \/ Fault /\ UNCHANGED central
  /\ Goto(t, IF cmd[t].kind = "deploy" THEN "central"
             ELSE IF central' = central /\ faults' # faults THEN "failed" ELSE "ended")
  /\ UNCHANGED <<proc, env, commands, kills, others>>

\* An exposed Central needs no port-forward, with an envrc as well as with a subshell.
DeployCentral(t) ==
  /\ cmd[t].pc = "central"
  /\ \/ /\ central' = [central EXCEPT ![cmd[t].cluster] = [times |-> @.times + 1, up |-> TRUE]]
        /\ \E pc \in IF cmd[t].mode = "exposed" THEN {"envrc", "haproxy"} ELSE {"find"} : Goto(t, pc)
        /\ UNCHANGED <<proc, faults>>
     \/ Fault /\ Ends(t, proc, "failed") /\ UNCHANGED central
  /\ UNCHANGED <<env, commands, kills, others>>

(***************************************************************************)
(* Manager.Start and Manager.StartDetached.                                *)
(***************************************************************************)
FreePortMutant(port) == port = 1
FreePort(port) ==
  /\ Listeners(port) = {}
  /\ port = 1 \/ Listeners(1) # {}

FindFreeLocalPort(t) ==
  /\ cmd[t].pc = "find"
  /\ \/ \E port \in Ports : /\ FreePort(port)
                            /\ cmd' = [cmd EXCEPT ![t].pc = "start", ![t].port = port]
                            /\ UNCHANGED proc
     \/ (\A port \in Ports : ~FreePort(port)) /\ Ends(t, proc, "failed")
  /\ UNCHANGED <<central, env, commands, faults, kills, others>>

StartKubectl(t) ==
  /\ cmd[t].pc = "start"
  /\ \/ \E p \in Pids :
          /\ IsUnused(p)
          /\ proc' = [proc EXCEPT ![p] = [NoProcess EXCEPT
               !.kind = "kubectl", !.port = cmd[t].port, !.by = cmd[t].kind, !.parent = t,
               !.detached = (cmd[t].mode = "detached"), !.to.cluster = cmd[t].cluster]]
          /\ cmd' = [cmd EXCEPT ![t].pc = "wait", ![t].child = p]
          /\ UNCHANGED faults
     \/ /\ Fault \/ ((\A p \in Pids : ~IsUnused(p)) /\ UNCHANGED faults)
        /\ Ends(t, proc, "failed")
  /\ UNCHANGED <<central, env, commands, kills, others>>

\* Any listener on the port counts.
TCPReady(t) == Listeners(cmd[t].port) # {}

\* Attached: SIGKILL and Wait.  Detached: SIGTERM.
KilledAtTimeoutMutant(t) == Terminated(proc, cmd[t].child)
KilledAtTimeout(t) ==
  IF cmd[t].mode = "attached" THEN [proc EXCEPT ![cmd[t].child] = NoProcess]
  ELSE Terminated(proc, cmd[t].child)

WaitTCPReady(t) ==
  /\ cmd[t].pc = "wait"
  /\ \/ /\ TCPReady(t)
        /\ IF cmd[t].mode = "attached" THEN Goto(t, "haproxy")
           ELSE cmd' = [cmd EXCEPT ![t].pc = "envrc", ![t].pid = cmd[t].child]
        /\ proc' = [proc EXCEPT ![cmd[t].child].ready = TRUE]
     \/ ~TCPReady(t) /\ Ends(t, KilledAtTimeout(t), "failed")
  /\ UNCHANGED <<central, env, commands, faults, kills, others>>

(***************************************************************************)
(* What comes after the start: the envrc, which the terminal reads, or a   *)
(* subshell with its HAProxy.  An envrc without an id leaves the variable  *)
(* of the terminal alone.  That an envrc cannot be written is only logged. *)
(***************************************************************************)
WriteEnvrc(t) ==
  /\ cmd[t].pc = "envrc"
  /\ \/ /\ env' = [env EXCEPT ![t] = IF cmd[t].pid = NoOne THEN @ ELSE cmd[t].pid]
        /\ UNCHANGED faults
     \/ cmd[t].kind = "deploy" /\ Fault /\ UNCHANGED env
  /\ Ends(t, proc, "ended")
  /\ UNCHANGED <<central, commands, kills, others>>

TryStartHAProxy(t) ==
  /\ cmd[t].pc = "haproxy"
  /\ \/ Goto(t, "serving") /\ UNCHANGED proc
     \/ \E p \in Pids :
          /\ IsUnused(p)
          /\ proc' = [proc EXCEPT ![p] = [NoProcess EXCEPT
               !.kind = "haproxy", !.port = UIPort, !.by = cmd[t].kind, !.parent = t,
               !.to.cluster = cmd[t].cluster]]
          /\ cmd' = [cmd EXCEPT ![t].pc = "serving", ![t].proxy = p]
  /\ UNCHANGED <<central, env, commands, faults, kills, others>>

\* The subshell exits; cleanupHAProxy.
ExitSubshell(t) ==
  /\ cmd[t].pc = "serving" /\ Goto(t, "waitProxy")
  /\ proc' = IF cmd[t].proxy = NoOne THEN proc ELSE Terminated(proc, cmd[t].proxy)
  /\ UNCHANGED <<central, env, commands, faults, kills, others>>

\* Either the process has died, or SIGKILL is sent after some seconds.
Gone(p) == p = NoOne \/ proc[p].state = "zombie"
WaitedForTooBrieflyMutant(p) == {proc}
WaitedForMutant(p) == IF Gone(p) THEN {proc} ELSE {}
WaitedFor(p) == IF Gone(p) THEN {proc} ELSE {Dead(proc, p)}

\* Only the shell command stops its port-forward, if it has one.
WaitForHAProxy(t) ==
  /\ cmd[t].pc = "waitProxy"
  /\ \E P \in WaitedFor(cmd[t].proxy) :
       IF cmd[t].kind = "shell" /\ cmd[t].child # NoOne THEN Goto(t, "stopForward") /\ proc' = P
       ELSE Ends(t, P, "ended")
  /\ UNCHANGED <<central, env, commands, faults, kills, others>>

Stop(t) ==
  /\ cmd[t].pc = "stopForward" /\ Goto(t, "waitForward")
  /\ proc' = Terminated(proc, cmd[t].child)
  /\ UNCHANGED <<central, env, commands, faults, kills, others>>
WaitForForward(t) ==
  /\ cmd[t].pc = "waitForward"
  /\ \E P \in WaitedFor(cmd[t].child) : Ends(t, P, "ended")
  /\ UNCHANGED <<central, env, commands, faults, kills, others>>

Killed(t) ==
  /\ ~HasEnded(t) /\ kills < MaxKills /\ kills' = kills + 1
  /\ Ends(t, proc, "failed")
  /\ UNCHANGED <<central, env, commands, faults, others>>

(***************************************************************************)
(* The processes themselves.  kubectl needs Central's pod and the port;    *)
(* it may notice that the pod is gone, and after a SIGTERM it dies or hangs. *)
(***************************************************************************)
Listens(p) ==
  /\ proc[p].kind \in {"kubectl", "haproxy"} /\ proc[p].state = "starting" /\ ~proc[p].termed
  /\ IF Listeners(proc[p].port) = {} /\ (proc[p].kind = "kubectl" => central[proc[p].to.cluster].up)
     THEN proc' = [proc EXCEPT ![p].state = "listening",
                               ![p].to.times = central[proc[p].to.cluster].times]
     ELSE proc' = Dead(proc, p)
  /\ UNCHANGED <<central, env, cmd, commands, faults, kills, others>>

Dies(p) ==
  /\ proc[p].kind \in {"kubectl", "haproxy"} /\ proc[p].state # "zombie"
  /\ \/ proc[p].termed
     \/ proc[p].kind = "kubectl" /\ proc[p].state = "listening" /\ ~IsServed(proc[p].to)
  /\ proc' = Dead(proc, p)
  /\ UNCHANGED <<central, env, cmd, commands, faults, kills, others>>

\* Any other program, which may listen on a port, even on one that roxie has just found free.
OtherProgram(port) ==
  [NoProcess EXCEPT !.kind = "other", !.port = port, !.state = IF port = -1 THEN @ ELSE "listening"]
OtherStarts ==
  /\ others < MaxOthers /\ others' = others + 1
  /\ \E p \in Pids, port \in {-1, UIPort} \cup Ports :
       /\ IsUnused(p) /\ Listeners(port) = {}
       /\ proc' = [proc EXCEPT ![p] = OtherProgram(port)]
  /\ UNCHANGED <<central, env, cmd, commands, faults, kills>>

(***************************************************************************)
(* The specification.                                                      *)
(***************************************************************************)
\* Another program may listen on the preferred port.
Init ==
  /\ \E busy \in BOOLEAN, p \in Pids :
       proc = [q \in Pids |-> IF busy /\ q = p THEN OtherProgram(1) ELSE NoProcess]
  /\ central = [c \in Clusters |-> [times |-> 0, up |-> FALSE]]
  /\ env = [t \in Terminals |-> NoOne]
  /\ cmd = [t \in Terminals |-> [kind |-> "", mode |-> "attached",
              cluster |-> NoOne, pc |-> "ended", pid |-> NoOne, port |-> -1,
              child |-> NoOne, proxy |-> NoOne]]
  /\ commands = 0 /\ faults = 0 /\ kills = 0 /\ others = 0

RoxieStep(t) ==
  \/ StopDetachedPortForward(t) \/ DeleteCentralResources(t) \/ DeployCentral(t)
  \/ FindFreeLocalPort(t) \/ StartKubectl(t) \/ WaitTCPReady(t) \/ WriteEnvrc(t)
  \/ TryStartHAProxy(t) \/ WaitForHAProxy(t) \/ Stop(t) \/ WaitForForward(t)

UserStep(t) ==
  StartDeploy(t) \/ StartTeardown(t) \/ StartShell(t) \/ ExitSubshell(t) \/ Killed(t)

Next ==
  \/ \E t \in Terminals : RoxieStep(t) \/ UserStep(t)
  \/ \E p \in Pids : Listens(p) \/ Dies(p)
  \/ OtherStarts

Spec == Init /\ [][Next]_vars

\* roxie always goes on: each of its waits has a timeout.  Nothing else is fair.
FairSpec == Spec /\ \A t \in Terminals : WF_vars(RoxieStep(t))

(***************************************************************************)
(* Properties.                                                             *)
(***************************************************************************)
\* Processes, commands and Centrals are what the code can make of them.
TypeOK ==
  /\ proc \in [Pids -> Process]
  /\ central \in [Clusters -> [times : Nat, up : BOOLEAN]]
  /\ env \in [Terminals -> {NoOne} \cup Pids]
  /\ cmd \in [Terminals -> Command]
  /\ commands \in 0..MaxCommands /\ faults \in 0..MaxFaults
  /\ kills \in 0..MaxKills /\ others \in 0..MaxOthers

\* The endpoint that Start and StartDetached return is the one of the port-forward that they
\* started, and not of whatever else listens on the port that was found free before
\* (portforward.go, "Start starts port-forward to the given service").  Another program or another
\* roxie that takes the port before kubectl binds it refutes this.
EndpointIsMine ==
  \A t \in Terminals :
    cmd[t].pc \in {"haproxy", "envrc"} /\ cmd[t].mode # "exposed"
      => Listeners(cmd[t].port) \subseteq {cmd[t].child}

\* Nothing that was there before a command is taken for the port-forward that it starts, neither the
\* detached port-forwards and the orphans of earlier commands, which may serve another Central, nor
\* those of open subshells, nor a program on the preferred port (findFreeLocalPort): as long as no
\* program starts later, no command is killed, and commands run one at a time, the endpoint is the
\* command's own.
StaleForwardsAreAvoided == kills = 0 /\ others = 0 => EndpointIsMine

IsRunning(p, kind) == proc[p].kind = kind /\ proc[p].state # "zombie"
IsOrphan(p, kind) == IsRunning(p, kind) /\ proc[p].parent = NoOne

\* Once the shell command has ended it has stopped its attached port-forward, even one that
\* does not react to SIGTERM (Manager.Stop), and no HAProxy outlives the subshell that it was
\* started for (cleanupHAProxy).
ShellLeavesNothing ==
  kills = 0 => \A p \in Pids : proc[p].parent = NoOne =>
    /\ ~(IsRunning(p, "kubectl") /\ proc[p].by = "shell" /\ ~proc[p].detached)
    /\ ~IsRunning(p, "haproxy")

\* What the timeouts of Start and StartDetached leave of a port-forward whose start is given up: no
\* attached one goes on running, whether or not it reacts to signals, and of the detached ones no
\* more than those that do not react to the SIGTERM that they have got.
FailedStartLeavesNothing ==
  kills = 0 => \A p \in Pids :
    IsOrphan(p, "kubectl") /\ ~proc[p].ready => proc[p].detached /\ proc[p].termed

\* A detached one is gone as well ("port-forward did not become ready" is all that is reported):
\* refuted if it hangs, since nothing but a SIGTERM is sent and its id is not reported.
FailedStartIsGone ==
  kills = 0 => \A p \in Pids : IsOrphan(p, "kubectl") => proc[p].ready

\* A teardown from a terminal whose environment names the port-forward to that Central has
\* stopped it when it ends (TestDetachedPortForwarding).
TeardownFreesPort ==
  [][\A t \in Terminals :
       cmd'[t] # cmd[t] /\ cmd'[t].kind = "teardown" /\ cmd'[t].pc = "ended" /\ env[t] # NoOne
         => ~(IsRunning(env[t], "kubectl") /\ proc[env[t]].to.cluster = cmd[t].cluster)']_vars

\* Every command comes to its end or to its subshell: no wait for a port or for the end of a
\* process lasts for ever.
CommandReturns ==
  \A t \in Terminals : cmd[t].kind # "" ~> (HasEnded(t) \/ cmd[t].pc = "serving")

\* A deploy command cleans up what it has created when it ends (Deployer.Cleanup), hence also
\* its attached port-forward.
DeployLeavesNothing ==
  kills = 0 => \A p \in Pids :
    ~(IsOrphan(p, "kubectl") /\ proc[p].by = "deploy" /\ ~proc[p].detached)

\* Whenever a deploy has written an envrc with a process id, that process exists and is its
\* port-forward (TestDetachedPortForwarding).
EnvrcNamesForwarder ==
  \A t \in Terminals : cmd[t].pc = "envrc" /\ cmd[t].pid # NoOne => cmd[t].pid = cmd[t].child

\* Somebody still knows the id of every detached port-forward that is up, since "the caller is
\* responsible for killing the process when done".
DetachedCanBeStopped ==
  \A p \in Pids : IsOrphan(p, "kubectl") /\ proc[p].detached => \E t \in Terminals : env[t] = p

\* The HAProxy that a subshell was started with listens on the port that its banner names, as
\* soon as it is up, and serves the Central of this subshell.
BannerLeadsToCentral ==
  \A t \in Terminals : cmd[t].pc = "serving" /\ cmd[t].proxy # NoOne
    => Listeners(UIPort) \subseteq {cmd[t].proxy}
===============================================================================
