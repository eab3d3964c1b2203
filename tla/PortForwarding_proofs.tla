---- MODULE PortForwarding_proofs ----
(* What commands leave behind and where an endpoint leads, for any terminals, clusters, processes, ports and
   numbers of commands, failing calls, kills and other programs. All of it rests on which command a process
   belongs to, although processes die, are stopped by other commands, and process ids are used again. *)
EXTENDS PortForwarding, TLAPS

\* What the command of terminal t has and is where it stands.
Stands(t) ==
    LET c == cmd[t]
        In(pcs) == c.pc \in pcs
    IN  /\ ~HasEnded(t) => c.cluster \in Clusters
        /\ In({"stop", "teardown"}) => c.kind \in {"deploy", "teardown"}
        /\ In({"central"}) => c.kind = "deploy"
        /\ In({"find", "start", "wait", "envrc", "haproxy", "serving", "waitProxy"}) => c.kind \in {"deploy", "shell"}
        /\ In({"stopForward", "waitForward"}) => c.kind = "shell" /\ c.mode = "attached"
        /\ In({"find", "start", "wait"}) => c.mode # "exposed"
        /\ In({"envrc"}) => c.mode # "attached"
        /\ In({"haproxy", "serving", "waitProxy"}) => c.mode # "detached"
        /\ In({"stop", "teardown", "central", "find", "start"}) => c.child = NoOne
        /\ ~HasEnded(t) /\ c.mode = "exposed" => c.child = NoOne
        /\ In({"wait", "stopForward", "waitForward"})
             \/ (In({"envrc", "haproxy", "serving", "waitProxy"}) /\ c.mode # "exposed") => c.child \in Pids
        /\ In({"start", "wait"}) \/ (In({"envrc", "haproxy"}) /\ c.mode # "exposed") => c.port \in Ports
        /\ ~HasEnded(t) /\ ~In({"serving", "waitProxy", "stopForward", "waitForward"}) => c.proxy = NoOne

\* A process whose roxie still runs is its port-forward or its HAProxy, and was started as that roxie starts it.
BelongsTo(p, t) ==
    /\ ~HasEnded(t)
    /\ \/ /\ proc[p].kind = "kubectl" /\ p = cmd[t].child
          /\ proc[p].by = cmd[t].kind /\ proc[p].detached = (cmd[t].mode = "detached")
       \/ proc[p].kind = "haproxy" /\ p = cmd[t].proxy

\* The command's processes are not reused for others as long as it runs.
Keeps(t) == ~HasEnded(t) =>
    /\ cmd[t].child \in Pids => proc[cmd[t].child].parent = t /\ proc[cmd[t].child].kind = "kubectl"
    /\ cmd[t].proxy \in Pids => proc[cmd[t].proxy].parent = t /\ proc[cmd[t].proxy].kind = "haproxy"

Ownership ==
    /\ \A p \in Pids, t \in Terminals : proc[p].parent = t => BelongsTo(p, t)
    /\ \A t \in Terminals : Keeps(t)

\* Which Central a process can serve at all, and on which port.
Served(p) == proc[p].kind \in {"kubectl", "haproxy"} =>
    /\ proc[p].to.cluster \in Clusters
    /\ proc[p].kind = "kubectl" => NamespaceExists(proc[p].to.cluster)
    /\ proc[p].kind = "haproxy" /\ proc[p].state # "zombie" => proc[p].port = UIPort
HasCentral(t) == cmd[t].pc \in {"find", "start"} => NamespaceExists(cmd[t].cluster)

Installed(c) == central[c].up => NamespaceExists(c)

Structure == /\ TypeOK
             /\ \A c \in Clusters : Installed(c)
             /\ \A t \in Terminals : Stands(t) /\ HasCentral(t)
             /\ \A p \in Pids : Served(p)
             /\ Ownership

----------------------------------------------------------------------------
\* How far the command has come with its processes.
Progress(t) ==
    /\ cmd[t].pc \in {"stopForward", "waitForward"} => Gone(cmd[t].proxy)
    /\ cmd[t].pc \in {"envrc", "haproxy", "serving", "waitProxy", "stopForward", "waitForward"} /\ cmd[t].child \in Pids
         => proc[cmd[t].child].ready

Tidy == /\ \A t \in Terminals : Progress(t)
        /\ ShellLeavesNothing /\ FailedStartLeavesNothing

----------------------------------------------------------------------------
\* A command that may start processes.
Busy(t) == cmd[t].pc \in {"stop", "teardown", "central", "find", "start", "wait", "envrc", "haproxy"}
OneAtATime == ~Together => \A t, u \in Terminals : Busy(t) /\ Busy(u) => t = u

\* The port that a command has found stays its own until its port-forward listens.
PortIsFree(t) ==
    /\ cmd[t].pc = "start" => Listeners(cmd[t].port) = {}
    /\ cmd[t].pc = "wait" => Listeners(cmd[t].port) \subseteq {cmd[t].child}
\* Only the port-forward that is waited for may start to listen.
Listens1(p) == proc[p].kind = "kubectl" /\ proc[p].state = "starting" /\ ~proc[p].termed =>
                  proc[p].parent \in Terminals /\ cmd[proc[p].parent].pc = "wait"
Undisturbed == ~Together /\ kills = 0 /\ others = 0 =>
    /\ \A t \in Terminals : PortIsFree(t)
    /\ \A p \in Pids : Listens1(p)
    /\ EndpointIsMine

\* What a teardown has stopped stays stopped until it ends.
Stopped == ~Together => \A t \in Terminals :
    /\ cmd[t].pc = "stop" => cmd[t].pid = env[t]
    /\ cmd[t].pc = "teardown" /\ env[t] # NoOne => ~IsRunning(env[t], "kubectl")

IndInv == Structure /\ Tidy /\ OneAtATime /\ Undisturbed /\ Stopped

----------------------------------------------------------------------------
(* Processes *)

\* There is no process yet.
LEMMA NoProcessTyped == NoProcess \in Process /\ -1 \notin Ports /\ UIPort \notin Ports
BY ConstantsAssumption DEF NoProcess, Process, UIPort, Ports

\* What no process is like.
LEMMA NoProcessIs == /\ NoProcess.kind = "none" /\ NoProcess.parent = NoOne /\ NoProcess.state = "starting"
                     /\ NoProcess.detached = FALSE /\ NoProcess \in Process
BY NoProcessTyped DEF NoProcess

\* The parts of the type invariant.
ProcType == proc \in [Pids -> Process]
CmdType == cmd \in [Terminals -> Command]
RestType == /\ central \in [Clusters -> [times : Nat, up : BOOLEAN]]
            /\ env \in [Terminals -> {NoOne} \cup Pids]
            /\ commands \in 0..MaxCommands /\ faults \in 0..MaxFaults
            /\ kills \in 0..MaxKills /\ others \in 0..MaxOthers

\* What happens to processes keeps them processes.
LEMMA DeadTyped ==
    ASSUME ProcType, NEW p \in Pids
    PROVE  Dead(proc, p) \in [Pids -> Process]
<1>1. [proc[p] EXCEPT !.state = "zombie", !.port = -1] \in Process
  BY NoProcessTyped DEF Process, ProcType
<1> QED BY <1>1, NoProcessTyped DEF Dead, ProcType

\* A process that is told to end, whose start succeeds, or that has gone stays typed.
LEMMA TerminatedTyped ==
    ASSUME ProcType, NEW p \in Pids \cup {NoOne}
    PROVE  /\ Terminated(proc, p) \in [Pids -> Process]
           /\ [proc EXCEPT ![p].ready = TRUE] \in [Pids -> Process]
           /\ [proc EXCEPT ![p] = NoProcess] \in [Pids -> Process]
<1>1. p \in Pids => [proc[p] EXCEPT !.termed = TRUE] \in Process /\ [proc[p] EXCEPT !.ready = TRUE] \in Process
  BY DEF Process, ProcType
<1> QED BY <1>1, NoProcessTyped DEF Terminated, ProcType

\* The processes that a command leaves behind are processes.
LEMMA OrphansTyped ==
    ASSUME NEW P \in [Pids -> Process], NEW t
    PROVE  Orphaned(P, t) \in [Pids -> Process]
<1>1. \A q \in Pids : [P[q] EXCEPT !.parent = NoOne] \in Process
  BY DEF Process
<1> QED BY <1>1, NoProcessTyped DEF Orphaned

\* The type invariant is its parts, before and after a step.
LEMMA TypeParts == (TypeOK <=> ProcType /\ CmdType /\ RestType) /\ (TypeOK' <=> (ProcType /\ CmdType /\ RestType)')
BY DEF TypeOK, ProcType, CmdType, RestType

\* The null value is no terminal, cluster or process.
LEMMA NoOneElse == NoOne \notin Terminals /\ NoOne \notin Clusters /\ NoOne \notin Pids
BY ConstantsAssumption

\* Budgets are numbers.
LEMMA Budgets == /\ MaxCommands \in Nat /\ MaxFaults \in Nat /\ MaxKills \in Nat /\ MaxOthers \in Nat
                 /\ LastPort \in Nat \ {0}
BY ConstantsAssumption

Labels == {"ended", "failed", "stop", "teardown", "central", "find", "start", "wait", "envrc", "haproxy",
           "serving", "waitProxy", "stopForward", "waitForward"}

\* A command goes on to another step.
LEMMA CommandGoes ==
    ASSUME CmdType, NEW t \in Terminals, NEW label \in Labels, Goto(t, label)
    PROVE  CmdType'
<1>1. [cmd[t] EXCEPT !.pc = label] \in Command
  BY DEF CmdType, Command, Labels
<1> QED BY <1>1 DEF CmdType, Goto

\* It goes on with a port that it has found, or a process that it has started or stopped.
LEMMA CommandLearns ==
    ASSUME CmdType, NEW t \in Terminals, NEW label \in Labels,
           \/ \E p \in Pids \cup {NoOne} : \/ cmd' = [cmd EXCEPT ![t].pc = label, ![t].pid = p]
                                        \/ cmd' = [cmd EXCEPT ![t].pc = label, ![t].child = p]
                                        \/ cmd' = [cmd EXCEPT ![t].pc = label, ![t].proxy = p]
           \/ \E port \in Ports : cmd' = [cmd EXCEPT ![t].pc = label, ![t].port = port]
    PROVE  CmdType'
<1>1. ASSUME NEW c \in Command
      PROVE  /\ \A p \in Pids \cup {NoOne} : /\ [c EXCEPT !.pc = label, !.pid = p] \in Command
                                          /\ [c EXCEPT !.pc = label, !.child = p] \in Command
                                          /\ [c EXCEPT !.pc = label, !.proxy = p] \in Command
             /\ \A port \in Ports : [c EXCEPT !.pc = label, !.port = port] \in Command
  <2>1. ASSUME NEW p \in Pids \cup {NoOne} PROVE [c EXCEPT !.pc = label, !.pid = p] \in Command
    BY <1>1, <2>1 DEF Command, Labels
  <2>2. ASSUME NEW p \in Pids \cup {NoOne} PROVE [c EXCEPT !.pc = label, !.child = p] \in Command
    BY <1>1, <2>2 DEF Command, Labels
  <2>3. ASSUME NEW p \in Pids \cup {NoOne} PROVE [c EXCEPT !.pc = label, !.proxy = p] \in Command
    BY <1>1, <2>3 DEF Command, Labels
  <2>4. ASSUME NEW port \in Ports PROVE [c EXCEPT !.pc = label, !.port = port] \in Command
    BY <1>1, <2>4 DEF Command, Labels
  <2> QED BY <2>1, <2>2, <2>3, <2>4
<1>2. cmd[t] \in Command
  BY DEF CmdType
<1>3. CASE \E port \in Ports : cmd' = [cmd EXCEPT ![t].pc = label, ![t].port = port]
  BY <1>1, <1>2, <1>3 DEF CmdType
<1>4. CASE \E p \in Pids \cup {NoOne} : cmd' = [cmd EXCEPT ![t].pc = label, ![t].pid = p]
  <2>1. PICK p \in Pids \cup {NoOne} : cmd' = [cmd EXCEPT ![t].pc = label, ![t].pid = p]
    BY <1>4
  <2>2. [cmd[t] EXCEPT !.pc = label, !.pid = p] \in Command
    BY <1>1, <1>2
  <2> QED BY <2>1, <2>2 DEF CmdType
<1>5. CASE \E p \in Pids \cup {NoOne} : cmd' = [cmd EXCEPT ![t].pc = label, ![t].child = p]
  <2>1. PICK p \in Pids \cup {NoOne} : cmd' = [cmd EXCEPT ![t].pc = label, ![t].child = p]
    BY <1>5
  <2>2. [cmd[t] EXCEPT !.pc = label, !.child = p] \in Command
    BY <1>1, <1>2
  <2> QED BY <2>1, <2>2 DEF CmdType
<1>6. CASE \E p \in Pids \cup {NoOne} : cmd' = [cmd EXCEPT ![t].pc = label, ![t].proxy = p]
  <2>1. PICK p \in Pids \cup {NoOne} : cmd' = [cmd EXCEPT ![t].pc = label, ![t].proxy = p]
    BY <1>6
  <2>2. [cmd[t] EXCEPT !.pc = label, !.proxy = p] \in Command
    BY <1>1, <1>2
  <2> QED BY <2>1, <2>2 DEF CmdType
<1> QED BY <1>3, <1>4, <1>5, <1>6

\* A new command is one.
LEMMA NewCommandsTyped ==
    ASSUME TypeOK, NEW t \in Terminals, NEW kind \in {"deploy", "shell", "teardown"}, NEW c \in Clusters,
           NEW mode \in {"attached", "detached", "exposed"}, NEW label \in Labels
    PROVE  /\ NewCommand(t, kind, mode, c, label) \in Command
           /\ [NewCommand(t, kind, mode, c, label) EXCEPT !.pid = NoOne] \in Command
BY DEF TypeOK, NewCommand, Command, Labels

\* A new process is one.
NewProcess(kind, port, by, t, detached, c) ==
    [NoProcess EXCEPT !.kind = kind, !.port = port, !.by = by, !.parent = t, !.detached = detached, !.to.cluster = c]

\* Whatever a command starts is typed.
LEMMA NewProcessesTyped ==
    ASSUME NEW c \in Clusters, NEW t \in Terminals, NEW port \in Ports \cup {UIPort}, NEW by \in {"deploy", "shell"},
           NEW detached \in BOOLEAN, NEW kind \in {"kubectl", "haproxy"}
    PROVE  NewProcess(kind, port, by, t, detached, c) \in Process
BY NoProcessTyped DEF NoProcess, Process, NewProcess

\* The types of a command that ends, and a count that stays in its bounds.
LEMMA EndsTyped ==
    ASSUME CmdType, NEW t \in Terminals, NEW P \in [Pids -> Process], NEW how \in {"ended", "failed"}, Ends(t, P, how)
    PROVE  CmdType' /\ ProcType'
<1>1. how \in Labels
  BY DEF Labels
<1>2. CmdType'
  BY <1>1, CommandGoes DEF Ends, Goto
<1>3. ProcType'
  BY OrphansTyped DEF Ends, ProcType
<1> QED BY <1>2, <1>3

\* Another program is a process, whether or not it listens on a port.
LEMMA OtherTyped ==
    ASSUME NEW port \in {-1, UIPort} \cup Ports
    PROVE  /\ OtherProgram(port) \in Process
           /\ OtherProgram(port).kind = "other" /\ OtherProgram(port).parent = NoOne
<1>1. CASE port = -1
  <2>1. OtherProgram(port) = [NoProcess EXCEPT !.kind = "other", !.port = -1, !.state = "starting"]
    BY <1>1, NoProcessIs DEF OtherProgram
  <2>2. [NoProcess EXCEPT !.kind = "other", !.port = -1, !.state = "starting"] \in Process
    BY NoProcessTyped DEF NoProcess, Process
  <2> QED BY <2>1, <2>2 DEF NoProcess
<1>2. CASE port # -1
  <2>1. OtherProgram(port) = [NoProcess EXCEPT !.kind = "other", !.port = port, !.state = "listening"]
    BY <1>2 DEF OtherProgram
  <2>2. [NoProcess EXCEPT !.kind = "other", !.port = port, !.state = "listening"] \in Process
    BY NoProcessTyped DEF NoProcess, Process
  <2> QED BY <2>1, <2>2 DEF NoProcess
<1> QED BY <1>1, <1>2

\* The preferred port is one.
LEMMA PreferredPort == 1 \in Ports
BY Budgets DEF Ports

\* The initial states are typed.
LEMMA Initially == Init => TypeOK
<1> SUFFICES ASSUME Init PROVE TypeOK
  OBVIOUS
<1>1. ProcType
  <2>1. OtherProgram(1) \in Process
    BY OtherTyped, PreferredPort
  <2> QED BY <2>1, NoProcessTyped DEF Init, ProcType
<1>2. CmdType
  <2>1. [kind |-> "", mode |-> "attached", cluster |-> NoOne, pc |-> "ended", pid |-> NoOne, port |-> -1,
         child |-> NoOne, proxy |-> NoOne] \in Command
    BY DEF Command
  <2> QED BY <2>1 DEF Init, CmdType
<1>3. RestType
  <2> commands = 0 /\ faults = 0 /\ kills = 0 /\ others = 0
    BY DEF Init
  <2>1. commands \in 0..MaxCommands /\ faults \in 0..MaxFaults /\ kills \in 0..MaxKills /\ others \in 0..MaxOthers
    BY Budgets
  <2> QED BY <2>1 DEF Init, RestType
<1> QED BY <1>1, <1>2, <1>3, TypeParts

\* Each step of roxie, of its user and of the processes.
LEMMA TypeStep ==
    ASSUME Structure, [Next]_vars
    PROVE  TypeOK'
<1> USE Budgets
<1>1. ProcType /\ CmdType /\ RestType
  BY TypeParts DEF Structure
<1> DEFINE Goal == ProcType' /\ CmdType' /\ RestType'
<1> SUFFICES Goal
  BY TypeParts
<1> USE DEF Fault
<1>2. ASSUME NEW t \in Terminals, StartDeploy(t) \/ StartTeardown(t) \/ StartShell(t)
      PROVE  Goal
  <2>1. CmdType'
    <3>1. \E c \in Command : cmd' = [cmd EXCEPT ![t] = c]
      <4>1. CASE StartDeploy(t) \/ StartTeardown(t)
        BY <4>1, NewCommandsTyped DEF StartDeploy, StartTeardown, Structure, Labels
      <4>2. CASE StartShell(t)
        <5>1. PICK c \in Clusters, mode \in {"attached", "detached", "exposed"}, label \in {"envrc", "haproxy", "find"} :
                cmd' = [cmd EXCEPT ![t] = [NewCommand(t, "shell", mode, c, label) EXCEPT !.pid = NoOne]]
          BY <4>2 DEF StartShell
        <5>2. [NewCommand(t, "shell", mode, c, label) EXCEPT !.pid = NoOne] \in Command
          BY NewCommandsTyped DEF Structure, Labels
        <5> QED BY <5>1, <5>2
      <4> QED BY <1>2, <4>1, <4>2
    <3> QED BY <1>1, <3>1 DEF CmdType
  <2>2. ProcType' /\ RestType'
    BY <1>1, <1>2 DEF StartDeploy, StartTeardown, StartShell, ProcType, RestType, MayStart
  <2> QED BY <2>1, <2>2
<1>3. ASSUME NEW t \in Terminals, StopDetachedPortForward(t) PROVE Goal
  <2>1. cmd[t].pid \in Pids \cup {NoOne}
    BY <1>1 DEF CmdType, Command
  <2>2. ProcType'
    BY <1>1, <1>3, <2>1, DeadTyped DEF StopDetachedPortForward, ProcType
  <2>3. CmdType'
    BY <1>1, <1>3, CommandGoes, CommandLearns DEF StopDetachedPortForward, Labels
  <2> QED BY <1>1, <1>3, <2>2, <2>3 DEF StopDetachedPortForward, RestType
<1>4. ASSUME NEW t \in Terminals, DeleteCentralResources(t) PROVE Goal
  <2>1. CmdType'
    BY <1>1, <1>4, CommandGoes, CommandLearns DEF DeleteCentralResources, Labels
  <2>2. central' \in [Clusters -> [times : Nat, up : BOOLEAN]]
    BY <1>1, <1>4 DEF DeleteCentralResources, RestType
  <2>3. faults' \in 0..MaxFaults
    BY <1>1, <1>4 DEF DeleteCentralResources, RestType
  <2> QED BY <1>1, <1>4, <2>1, <2>2, <2>3 DEF DeleteCentralResources, RestType, ProcType
<1>5. ASSUME NEW t \in Terminals, DeployCentral(t) PROVE Goal
  <2>1. CmdType' /\ ProcType'
    <3>1. CASE Ends(t, proc, "failed")
      BY <1>1, <3>1, EndsTyped DEF ProcType
    <3>2. ASSUME NEW label \in {"envrc", "haproxy", "find"}, Goto(t, label), UNCHANGED proc
          PROVE  CmdType' /\ ProcType'
      BY <1>1, <3>2, CommandGoes DEF Labels, ProcType
    <3> QED BY <1>5, <3>1, <3>2 DEF DeployCentral
  <2>2. cmd[t].cluster \in Clusters
    BY <1>5 DEF Structure, Stands, HasEnded, DeployCentral
  <2>3. central' \in [Clusters -> [times : Nat, up : BOOLEAN]]
    <3>1. central[cmd[t].cluster].times + 1 \in Nat
      BY <1>1, <2>2 DEF RestType
    <3>2. [times |-> central[cmd[t].cluster].times + 1, up |-> TRUE] \in [times : Nat, up : BOOLEAN]
      BY <3>1
    <3>3. central' \in {central, [central EXCEPT ![cmd[t].cluster] =
                                  [times |-> central[cmd[t].cluster].times + 1, up |-> TRUE]]}
      BY <1>5 DEF DeployCentral
    <3> QED BY <1>1, <3>2, <3>3 DEF RestType
  <2>4. faults' \in 0..MaxFaults
    BY <1>1, <1>5 DEF DeployCentral, RestType
  <2> QED BY <1>1, <1>5, <2>1, <2>3, <2>4 DEF DeployCentral, RestType
<1>6. ASSUME NEW t \in Terminals, FindFreeLocalPort(t) PROVE Goal
  <2>1. CmdType' /\ ProcType'
    BY <1>1, <1>6, CommandGoes, CommandLearns, EndsTyped DEF FindFreeLocalPort, Labels, ProcType
  <2> QED BY <1>1, <1>6, <2>1 DEF FindFreeLocalPort, RestType
<1>7. ASSUME NEW t \in Terminals, StartKubectl(t) PROVE Goal
  <2>1. cmd[t].cluster \in Clusters /\ cmd[t].port \in Ports /\ cmd[t].kind \in {"deploy", "shell"}
    BY <1>7 DEF Structure, Stands, HasEnded, StartKubectl
  <2>2. CASE Ends(t, proc, "failed")
    BY <1>1, <1>7, <2>2, EndsTyped DEF StartKubectl, ProcType, RestType
  <2>3. CASE UNCHANGED faults /\ ~Ends(t, proc, "failed")
    <3>1. PICK p \in Pids :
            /\ proc' = [proc EXCEPT ![p] = [NoProcess EXCEPT
                 !.kind = "kubectl", !.port = cmd[t].port, !.by = cmd[t].kind, !.parent = t,
                 !.detached = (cmd[t].mode = "detached"), !.to.cluster = cmd[t].cluster]]
            /\ cmd' = [cmd EXCEPT ![t].pc = "wait", ![t].child = p]
      BY <1>7, <2>3 DEF StartKubectl
    <3>2. CmdType'
      BY <1>1, <3>1, CommandLearns DEF Labels
    <3>3. proc' = [proc EXCEPT ![p] = NewProcess("kubectl", cmd[t].port, cmd[t].kind, t, cmd[t].mode = "detached", cmd[t].cluster)]
      BY <3>1 DEF NewProcess
    <3>4. ProcType'
      BY <1>1, <2>1, <3>3, NewProcessesTyped DEF ProcType
    <3> QED BY <1>1, <1>7, <2>3, <3>2, <3>4 DEF StartKubectl, RestType
  <2> QED BY <1>7, <2>2, <2>3 DEF StartKubectl
<1>8. ASSUME NEW t \in Terminals, WaitTCPReady(t) PROVE Goal
  <2>1. cmd[t].child \in Pids
    BY <1>8 DEF Structure, Stands, WaitTCPReady
  <2>2. KilledAtTimeout(t) \in [Pids -> Process]
    BY <1>1, <2>1, TerminatedTyped DEF KilledAtTimeout, ProcType
  <2>3. CmdType' /\ ProcType'
    <3>1. CASE TCPReady(t)
      <4>1. CmdType'
        BY <1>1, <1>8, <2>1, <3>1, CommandGoes, CommandLearns DEF WaitTCPReady, Labels
      <4>2. ProcType'
        BY <1>1, <1>8, <2>1, <3>1, TerminatedTyped DEF WaitTCPReady, ProcType
      <4> QED BY <4>1, <4>2
    <3>2. CASE ~TCPReady(t)
      BY <1>1, <1>8, <2>2, <3>2, EndsTyped DEF WaitTCPReady
    <3> QED BY <3>1, <3>2
  <2> QED BY <1>1, <1>8, <2>3 DEF WaitTCPReady, RestType
<1>9. ASSUME NEW t \in Terminals, WriteEnvrc(t) PROVE Goal
  <2>1. CmdType' /\ ProcType'
    BY <1>1, <1>9, EndsTyped DEF WriteEnvrc, ProcType
  <2>2. cmd[t].pid \in {NoOne} \cup Pids
    BY <1>1 DEF CmdType, Command
  <2> QED BY <1>1, <1>9, <2>1, <2>2 DEF WriteEnvrc, RestType
<1>10. ASSUME NEW t \in Terminals, TryStartHAProxy(t) PROVE Goal
  <2>1. cmd[t].cluster \in Clusters /\ cmd[t].kind \in {"deploy", "shell"}
    BY <1>10 DEF Structure, Stands, HasEnded, TryStartHAProxy
  <2>2. CASE Goto(t, "serving") /\ UNCHANGED proc
    BY <1>1, <1>10, <2>2, CommandGoes DEF TryStartHAProxy, Labels, ProcType, RestType
  <2>3. ASSUME NEW p \in Pids, cmd' = [cmd EXCEPT ![t].pc = "serving", ![t].proxy = p],
               proc' = [proc EXCEPT ![p] = [NoProcess EXCEPT
                 !.kind = "haproxy", !.port = UIPort, !.by = cmd[t].kind, !.parent = t,
                 !.to.cluster = cmd[t].cluster]]
        PROVE  Goal
    <3>1. CmdType'
      BY <1>1, <2>3, CommandLearns DEF Labels
    <3>2. [NoProcess EXCEPT !.kind = "haproxy", !.port = UIPort, !.by = cmd[t].kind, !.parent = t,
                            !.to.cluster = cmd[t].cluster] \in Process
      BY <2>1, NoProcessTyped DEF NoProcess, Process
    <3>3. ProcType'
      BY <1>1, <2>3, <3>2 DEF ProcType
    <3> QED BY <1>1, <1>10, <3>1, <3>3 DEF TryStartHAProxy, RestType
  <2> QED BY <1>10, <2>2, <2>3 DEF TryStartHAProxy
<1>11. ASSUME NEW t \in Terminals, ExitSubshell(t) \/ Stop(t) PROVE Goal
  <2>1. cmd[t].child \in {NoOne} \cup Pids /\ cmd[t].proxy \in {NoOne} \cup Pids
    BY <1>1 DEF CmdType, Command
  <2>2. cmd[t].pc = "stopForward" => cmd[t].child \in Pids
    BY DEF Structure, Stands
  <2>3. CmdType' /\ ProcType'
    BY <1>1, <1>11, <2>1, <2>2, CommandGoes, CommandLearns, TerminatedTyped DEF ExitSubshell, Stop, Labels, ProcType
  <2> QED BY <1>1, <1>11, <2>3 DEF ExitSubshell, Stop, RestType
<1>12. ASSUME NEW t \in Terminals, WaitForHAProxy(t) \/ WaitForForward(t) PROVE Goal
  <2>1. cmd[t].child \in {NoOne} \cup Pids /\ cmd[t].proxy \in {NoOne} \cup Pids
    BY <1>1 DEF CmdType, Command
  <2>2. WaitedFor(cmd[t].child) \cup WaitedFor(cmd[t].proxy) \subseteq [Pids -> Process]
    BY <1>1, <2>1, DeadTyped DEF WaitedFor, Gone, ProcType
  <2>3. CmdType' /\ ProcType'
    BY <1>1, <1>12, <2>2, CommandGoes, CommandLearns, EndsTyped DEF WaitForHAProxy, WaitForForward, Labels, ProcType
  <2> QED BY <1>1, <1>12, <2>3 DEF WaitForHAProxy, WaitForForward, RestType
<1>13. ASSUME NEW t \in Terminals, Killed(t) PROVE Goal
  <2>1. CmdType' /\ ProcType'
    BY <1>1, <1>13, EndsTyped DEF Killed, ProcType
  <2> QED BY <1>1, <1>13, <2>1 DEF Killed, RestType
<1>14. ASSUME NEW p \in Pids, Listens(p) \/ Dies(p) PROVE Goal
  <2>1. ASSUME Listens(p)
        PROVE  [proc EXCEPT ![p].state = "listening", ![p].to.times = central[proc[p].to.cluster].times]
                 \in [Pids -> Process]
    <3>1. central[proc[p].to.cluster].times \in Nat /\ proc[p] \in Process
      BY <1>1, <2>1 DEF Listens, Structure, Served, RestType, ProcType
    <3>2. [proc[p] EXCEPT !.state = "listening", !.to.times = central[proc[p].to.cluster].times] \in Process
      BY <3>1 DEF Process
    <3> QED BY <1>1, <3>2 DEF ProcType
  <2>2. ProcType'
    BY <1>1, <1>14, <2>1, DeadTyped DEF Listens, Dies, ProcType
  <2> QED BY <1>1, <1>14, <2>2 DEF Listens, Dies, RestType, CmdType
<1>15. CASE OtherStarts
  <2>1. \E p \in Pids, o \in Process : proc' = [proc EXCEPT ![p] = o]
    BY <1>15, OtherTyped DEF OtherStarts
  <2>2. ProcType'
    BY <1>1, <2>1 DEF ProcType
  <2> QED BY <1>1, <1>15, <2>2 DEF OtherStarts, RestType, CmdType
<1>16. CASE UNCHANGED vars
  BY <1>1, <1>16 DEF vars, RestType, CmdType, ProcType
<1> QED
  BY <1>2, <1>3, <1>4, <1>5, <1>6, <1>7, <1>8, <1>9, <1>10, <1>11, <1>12, <1>13, <1>14, <1>15, <1>16
     DEF Next, RoxieStep, UserStep

----------------------------------------------------------------------------
(* Commands and their processes *)

\* The command of terminal t goes on; its fields but the listed ones stay.
Moves(t, from, to, changes) ==
    /\ cmd[t].pc = from /\ cmd'[t].pc = to
    /\ cmd'[t].kind = cmd[t].kind /\ cmd'[t].mode = cmd[t].mode /\ cmd'[t].cluster = cmd[t].cluster
    /\ "pid" \notin changes => cmd'[t].pid = cmd[t].pid
    /\ "port" \notin changes => cmd'[t].port = cmd[t].port
    /\ "child" \notin changes => cmd'[t].child = cmd[t].child
    /\ "proxy" \notin changes => cmd'[t].proxy = cmd[t].proxy

\* It goes on to another step.
LEMMA GotoMoves ==
    ASSUME cmd \in [Terminals -> Command], NEW t \in Terminals, NEW from, NEW to, cmd[t].pc = from, Goto(t, to)
    PROVE  Moves(t, from, to, {})
BY DEF Goto, Moves

\* And with a port or process.
LEMMA LearningMoves ==
    ASSUME cmd \in [Terminals -> Command], NEW t \in Terminals, NEW from, NEW to, cmd[t].pc = from, NEW x
    PROVE  /\ cmd' = [cmd EXCEPT ![t].pc = to, ![t].pid = x] => Moves(t, from, to, {"pid"}) /\ cmd'[t].pid = x
           /\ cmd' = [cmd EXCEPT ![t].pc = to, ![t].port = x] => Moves(t, from, to, {"port"}) /\ cmd'[t].port = x
           /\ cmd' = [cmd EXCEPT ![t].pc = to, ![t].child = x] => Moves(t, from, to, {"child"}) /\ cmd'[t].child = x
           /\ cmd' = [cmd EXCEPT ![t].pc = to, ![t].proxy = x] => Moves(t, from, to, {"proxy"}) /\ cmd'[t].proxy = x
<1>1. ASSUME cmd' = [cmd EXCEPT ![t].pc = to, ![t].pid = x] PROVE Moves(t, from, to, {"pid"}) /\ cmd'[t].pid = x
  BY <1>1 DEF Moves, Command
<1>2. ASSUME cmd' = [cmd EXCEPT ![t].pc = to, ![t].port = x] PROVE Moves(t, from, to, {"port"}) /\ cmd'[t].port = x
  BY <1>2 DEF Moves, Command
<1>3. ASSUME cmd' = [cmd EXCEPT ![t].pc = to, ![t].child = x] PROVE Moves(t, from, to, {"child"}) /\ cmd'[t].child = x
  BY <1>3 DEF Moves, Command
<1>4. ASSUME cmd' = [cmd EXCEPT ![t].pc = to, ![t].proxy = x] PROVE Moves(t, from, to, {"proxy"}) /\ cmd'[t].proxy = x
  BY <1>4 DEF Moves, Command
<1> QED BY <1>1, <1>2, <1>3, <1>4

\* What each step of roxie does to its command.
LEMMA CommandSteps ==
    ASSUME cmd \in [Terminals -> Command], NEW t \in Terminals
    PROVE  /\ StopDetachedPortForward(t) => Moves(t, "stop", "teardown", {"pid"})
           /\ DeleteCentralResources(t) =>
                \/ cmd[t].kind = "deploy" /\ Moves(t, "teardown", "central", {})
                \/ cmd[t].kind # "deploy" /\ \E to \in {"ended", "failed"} : Moves(t, "teardown", to, {})
           /\ DeployCentral(t) =>
                \/ Moves(t, "central", "failed", {})
                \/ cmd[t].mode = "exposed" /\ \E to \in {"envrc", "haproxy"} : Moves(t, "central", to, {})
                \/ cmd[t].mode # "exposed" /\ Moves(t, "central", "find", {})
           /\ FindFreeLocalPort(t) =>
                \/ Moves(t, "find", "failed", {})
                \/ Moves(t, "find", "start", {"port"}) /\ cmd'[t].port \in Ports
           /\ StartKubectl(t) =>
                \/ Moves(t, "start", "failed", {})
                \/ Moves(t, "start", "wait", {"child"}) /\ cmd'[t].child \in Pids
           /\ WaitTCPReady(t) =>
                \/ Moves(t, "wait", "failed", {})
                \/ cmd[t].mode = "attached" /\ Moves(t, "wait", "haproxy", {})
                \/ cmd[t].mode # "attached" /\ Moves(t, "wait", "envrc", {"pid"})
           /\ WriteEnvrc(t) => Moves(t, "envrc", "ended", {})
           /\ TryStartHAProxy(t) => Moves(t, "haproxy", "serving", {"proxy"})
           /\ ExitSubshell(t) => Moves(t, "serving", "waitProxy", {})
           /\ WaitForHAProxy(t) =>
                \/ cmd[t].kind = "shell" /\ cmd[t].child # NoOne /\ Moves(t, "waitProxy", "stopForward", {})
                \/ ~(cmd[t].kind = "shell" /\ cmd[t].child # NoOne) /\ Moves(t, "waitProxy", "ended", {})
           /\ Stop(t) => Moves(t, "stopForward", "waitForward", {})
           /\ WaitForForward(t) => Moves(t, "waitForward", "ended", {})
           /\ Killed(t) => Moves(t, cmd[t].pc, "failed", {})
<1> USE GotoMoves DEF Ends
<1>1. ASSUME StopDetachedPortForward(t) PROVE Moves(t, "stop", "teardown", {"pid"})
  <2>1. CASE Goto(t, "teardown")
    <3>1. Moves(t, "stop", "teardown", {})
      BY <1>1, <2>1 DEF StopDetachedPortForward
    <3> QED BY <3>1 DEF Moves
  <2>2. CASE cmd' = [cmd EXCEPT ![t].pc = "teardown", ![t].pid = NoOne]
    BY <1>1, <2>2, LearningMoves DEF StopDetachedPortForward
  <2> QED BY <1>1, <2>1, <2>2 DEF StopDetachedPortForward
<1>2. ASSUME DeleteCentralResources(t)
      PROVE  \/ cmd[t].kind = "deploy" /\ Moves(t, "teardown", "central", {})
             \/ cmd[t].kind # "deploy" /\ \E to \in {"ended", "failed"} : Moves(t, "teardown", to, {})
  <2>1. \/ cmd[t].kind = "deploy" /\ Goto(t, "central")
        \/ cmd[t].kind # "deploy" /\ (Goto(t, "ended") \/ Goto(t, "failed"))
    BY <1>2 DEF DeleteCentralResources
  <2> QED BY <1>2, <2>1 DEF DeleteCentralResources
<1>3. ASSUME DeployCentral(t)
      PROVE  \/ Moves(t, "central", "failed", {})
             \/ cmd[t].mode = "exposed" /\ \E to \in {"envrc", "haproxy"} : Moves(t, "central", to, {})
             \/ cmd[t].mode # "exposed" /\ Moves(t, "central", "find", {})
  <2>1. \/ Goto(t, "failed")
        \/ cmd[t].mode = "exposed" /\ (Goto(t, "envrc") \/ Goto(t, "haproxy"))
        \/ cmd[t].mode # "exposed" /\ Goto(t, "find")
    BY <1>3 DEF DeployCentral
  <2> QED BY <1>3, <2>1 DEF DeployCentral
<1>4. ASSUME FindFreeLocalPort(t)
      PROVE  \/ Moves(t, "find", "failed", {})
             \/ Moves(t, "find", "start", {"port"}) /\ cmd'[t].port \in Ports
  <2>1. \/ Goto(t, "failed")
        \/ \E port \in Ports : cmd' = [cmd EXCEPT ![t].pc = "start", ![t].port = port]
    BY <1>4 DEF FindFreeLocalPort
  <2>2. ASSUME NEW port \in Ports, cmd' = [cmd EXCEPT ![t].pc = "start", ![t].port = port]
        PROVE  Moves(t, "find", "start", {"port"}) /\ cmd'[t].port \in Ports
    <3>1. cmd[t].pc = "find"
      BY <1>4 DEF FindFreeLocalPort
    <3>2. Moves(t, "find", "start", {"port"}) /\ cmd'[t].port = port
      BY <2>2, <3>1 DEF Moves
    <3> QED BY <2>2, <3>2
  <2> QED BY <1>4, <2>1, <2>2 DEF FindFreeLocalPort
<1>5. ASSUME StartKubectl(t)
      PROVE  \/ Moves(t, "start", "failed", {})
             \/ Moves(t, "start", "wait", {"child"}) /\ cmd'[t].child \in Pids
  <2>1. \/ Goto(t, "failed")
        \/ \E p \in Pids : cmd' = [cmd EXCEPT ![t].pc = "wait", ![t].child = p]
    BY <1>5 DEF StartKubectl
  <2>2. ASSUME NEW p \in Pids, cmd' = [cmd EXCEPT ![t].pc = "wait", ![t].child = p]
        PROVE  Moves(t, "start", "wait", {"child"}) /\ cmd'[t].child \in Pids
    <3>1. cmd[t].pc = "start"
      BY <1>5 DEF StartKubectl
    <3>2. Moves(t, "start", "wait", {"child"}) /\ cmd'[t].child = p
      BY <2>2, <3>1 DEF Moves
    <3> QED BY <2>2, <3>2
  <2> QED BY <1>5, <2>1, <2>2 DEF StartKubectl
<1>6. ASSUME WaitTCPReady(t)
      PROVE  \/ Moves(t, "wait", "failed", {})
             \/ cmd[t].mode = "attached" /\ Moves(t, "wait", "haproxy", {})
             \/ cmd[t].mode # "attached" /\ Moves(t, "wait", "envrc", {"pid"})
  <2>1. \/ Goto(t, "failed")
        \/ cmd[t].mode = "attached" /\ Goto(t, "haproxy")
        \/ cmd[t].mode # "attached" /\ cmd' = [cmd EXCEPT ![t].pc = "envrc", ![t].pid = cmd[t].child]
    BY <1>6 DEF WaitTCPReady
  <2> QED BY <1>6, <2>1, LearningMoves DEF WaitTCPReady
<1>7. WriteEnvrc(t) => Moves(t, "envrc", "ended", {})
  BY DEF WriteEnvrc
<1>8. ASSUME TryStartHAProxy(t) PROVE Moves(t, "haproxy", "serving", {"proxy"})
  <2>1. CASE Goto(t, "serving")
    <3>1. Moves(t, "haproxy", "serving", {})
      BY <1>8, <2>1 DEF TryStartHAProxy
    <3> QED BY <3>1 DEF Moves
  <2>2. ASSUME NEW p \in Pids, cmd' = [cmd EXCEPT ![t].pc = "serving", ![t].proxy = p]
        PROVE  Moves(t, "haproxy", "serving", {"proxy"})
    BY <1>8, <2>2, LearningMoves DEF TryStartHAProxy
  <2> QED BY <1>8, <2>1, <2>2 DEF TryStartHAProxy
<1>9. ExitSubshell(t) => Moves(t, "serving", "waitProxy", {})
  BY DEF ExitSubshell
<1>10. ASSUME WaitForHAProxy(t)
       PROVE  \/ cmd[t].kind = "shell" /\ cmd[t].child # NoOne /\ Moves(t, "waitProxy", "stopForward", {})
              \/ ~(cmd[t].kind = "shell" /\ cmd[t].child # NoOne) /\ Moves(t, "waitProxy", "ended", {})
  BY <1>10 DEF WaitForHAProxy
<1>11. Stop(t) => Moves(t, "stopForward", "waitForward", {})
  BY DEF Stop
<1>12. WaitForForward(t) => Moves(t, "waitForward", "ended", {})
  BY DEF WaitForForward
<1>13. Killed(t) => Moves(t, cmd[t].pc, "failed", {})
  BY DEF Killed
<1> QED BY <1>1, <1>2, <1>3, <1>4, <1>5, <1>6, <1>7, <1>8, <1>9, <1>10, <1>11, <1>12, <1>13

\* A command of another terminal leaves this one's alone.
LEMMA OthersCommand ==
    ASSUME Structure, NEW t \in Terminals, NEW u \in Terminals, t # u, RoxieStep(t) \/ UserStep(t)
    PROVE  cmd'[u] = cmd[u]
<1>1. cmd \in [Terminals -> Command]
  BY DEF Structure, TypeOK
<1>2. CASE UserStep(t)
  BY <1>1, <1>2 DEF UserStep, StartDeploy, StartTeardown, StartShell, ExitSubshell, Killed, Goto, Ends
<1>3. CASE RoxieStep(t)
  BY <1>1, <1>3 DEF RoxieStep, StopDetachedPortForward, DeleteCentralResources, DeployCentral, FindFreeLocalPort,
     StartKubectl, WaitTCPReady, WriteEnvrc, TryStartHAProxy, WaitForHAProxy, Stop, WaitForForward, Goto, Ends
<1> QED BY <1>2, <1>3

\* A new command stands at its beginning.
LEMMA NewCommandStands ==
    ASSUME cmd \in [Terminals -> Command], NEW t \in Terminals, StartDeploy(t) \/ StartTeardown(t) \/ StartShell(t)
    PROVE  /\ cmd'[t].kind \in {"deploy", "teardown", "shell"} /\ cmd'[t].cluster \in Clusters
           /\ cmd'[t].mode \in {"attached", "detached", "exposed"}
           /\ cmd'[t].pc \in (IF cmd'[t].kind = "deploy" THEN {"stop", "central"}
                             ELSE IF cmd'[t].kind = "teardown" THEN {"stop", "ended"} ELSE {"find", "envrc", "haproxy"})
           /\ cmd'[t].pc \in {"envrc", "haproxy"} => cmd'[t].mode = "exposed"
           /\ cmd'[t].pc = "find" => cmd'[t].mode # "exposed" /\ central[cmd'[t].cluster].up
           /\ cmd'[t].pc = "stop" => cmd'[t].pid = env[t]
           /\ cmd'[t].child = NoOne /\ cmd'[t].proxy = NoOne
<1>1. CASE StartDeploy(t)
  BY <1>1 DEF StartDeploy, NewCommand
<1>2. CASE StartTeardown(t)
  BY <1>2 DEF StartTeardown, NewCommand
<1>3. CASE StartShell(t)
  BY <1>3 DEF StartShell, NewCommand
<1> QED BY <1>1, <1>2, <1>3

\* Where a command stands.
LEMMA StandsStep ==
    ASSUME Structure, [Next]_vars, NEW u \in Terminals
    PROVE  Stands(u)'
<1>1. cmd \in [Terminals -> Command] /\ Stands(u)
  BY DEF Structure, TypeOK
<1>2. cmd[u].mode \in {"attached", "detached", "exposed"}
  BY <1>1 DEF Command
<1>3. CASE cmd'[u] = cmd[u]
  BY <1>1, <1>3 DEF Stands, HasEnded
<1>4. CASE StartDeploy(u) \/ StartTeardown(u) \/ StartShell(u)
  BY <1>1, <1>4, NewCommandStands, NoOneElse DEF Stands, HasEnded
<1>5. CASE RoxieStep(u) \/ ExitSubshell(u)
  <2> USE <1>1, <1>2, CommandSteps DEF Stands, HasEnded, Moves
  <2>1. CASE StopDetachedPortForward(u)
    BY <2>1
  <2>2. CASE DeleteCentralResources(u)
    BY <2>2
  <2>3. CASE DeployCentral(u)
    BY <2>3
  <2>4. CASE FindFreeLocalPort(u)
    BY <2>4
  <2>5. CASE StartKubectl(u)
    BY <2>5
  <2>6. CASE WaitTCPReady(u)
    BY <2>6
  <2>7. CASE WriteEnvrc(u)
    BY <2>7
  <2>8. CASE TryStartHAProxy(u)
    BY <2>8
  <2>9. CASE ExitSubshell(u)
    BY <2>9
  <2>10. CASE WaitForHAProxy(u)
    BY <2>10
  <2>11. CASE Stop(u)
    BY <2>11
  <2>12. CASE WaitForForward(u)
    BY <2>12
  <2> QED BY <1>5, <2>1, <2>2, <2>3, <2>4, <2>5, <2>6, <2>7, <2>8, <2>9, <2>10, <2>11, <2>12 DEF RoxieStep
<1>6. CASE Killed(u)
  BY <1>1, <1>6, CommandSteps DEF Stands, HasEnded, Moves
<1>7. CASE (\E p \in Pids : Listens(p) \/ Dies(p)) \/ OtherStarts \/ UNCHANGED vars
  BY <1>3, <1>7 DEF Listens, Dies, OtherStarts, vars
<1>8. CASE \E t \in Terminals : t # u /\ (RoxieStep(t) \/ UserStep(t))
  BY <1>3, <1>8, OthersCommand
<1> QED BY <1>4, <1>5, <1>6, <1>7, <1>8 DEF Next, UserStep

\* Central is only put into a namespace, and its namespace stays.
LEMMA CentralStays ==
    ASSUME Structure, [Next]_vars
    PROVE  \A c \in Clusters : Installed(c)' /\ (NamespaceExists(c) => NamespaceExists(c)')
<1>1. /\ central \in [Clusters -> [times : Nat, up : BOOLEAN]]
      /\ \A c \in Clusters : Installed(c)
      /\ \A t \in Terminals : Stands(t)
  BY DEF Structure, TypeOK
<1> USE DEF Installed, NamespaceExists
<1>2. CASE UNCHANGED central
  BY <1>1, <1>2
<1>3. ASSUME NEW t \in Terminals, DeleteCentralResources(t) \/ DeployCentral(t)
      PROVE  \A c \in Clusters : Installed(c)' /\ (NamespaceExists(c) => NamespaceExists(c)')
  <2>1. cmd[t].cluster \in Clusters
    BY <1>1, <1>3 DEF DeleteCentralResources, DeployCentral, Stands, HasEnded
  <2> QED BY <1>1, <1>3, <2>1 DEF DeleteCentralResources, DeployCentral
<1> QED BY <1>2, <1>3 DEF Next, RoxieStep, UserStep, vars, StartDeploy, StartTeardown, StartShell, StopDetachedPortForward,
        FindFreeLocalPort, StartKubectl, WaitTCPReady, WriteEnvrc, TryStartHAProxy, ExitSubshell, Killed,
        WaitForHAProxy, Stop, WaitForForward, Listens, Dies, OtherStarts

\* A port-forward is only started to a Central.
LEMMA CentralStep ==
    ASSUME Structure, [Next]_vars, NEW u \in Terminals
    PROVE  HasCentral(u)'
<1>1. cmd \in [Terminals -> Command] /\ Stands(u) /\ HasCentral(u)
  BY DEF Structure, TypeOK
<1>2. CASE cmd'[u] = cmd[u]
  BY <1>1, <1>2, CentralStays DEF HasCentral, Stands, HasEnded
<1>3. CASE StartDeploy(u) \/ StartTeardown(u) \/ StartShell(u)
  <2>1. UNCHANGED central
    BY <1>3 DEF StartDeploy, StartTeardown, StartShell
  <2> QED BY <1>1, <1>3, <2>1, NewCommandStands DEF HasCentral, Structure, Installed, NamespaceExists
<1>4. CASE DeployCentral(u)
  <2>1. CASE cmd'[u].pc = "failed"
    BY <2>1 DEF HasCentral
  <2>2. CASE central' = [central EXCEPT ![cmd[u].cluster] = [times |-> @.times + 1, up |-> TRUE]]
    <3>1. cmd[u].cluster \in Clusters
      BY <1>1, <1>4 DEF DeployCentral, Stands, HasEnded
    <3>2. central'[cmd[u].cluster].times > 0
      BY <2>2, <3>1 DEF Structure, TypeOK
    <3>3. cmd'[u].cluster = cmd[u].cluster
      BY <1>1, <1>4, CommandSteps DEF Moves
    <3> QED BY <3>2, <3>3 DEF HasCentral, NamespaceExists
  <2>3. cmd'[u].pc = "failed" \/ central' = [central EXCEPT ![cmd[u].cluster] = [times |-> @.times + 1, up |-> TRUE]]
    <3>1. Goto(u, "failed") => cmd'[u].pc = "failed"
      BY <1>1, GotoMoves DEF Goto
    <3> QED BY <1>4, <3>1 DEF DeployCentral, Ends
  <2> QED BY <2>1, <2>2, <2>3
<1>5. CASE \/ StopDetachedPortForward(u) \/ DeleteCentralResources(u) \/ FindFreeLocalPort(u) \/ StartKubectl(u)
           \/ WaitTCPReady(u) \/ WriteEnvrc(u) \/ TryStartHAProxy(u) \/ ExitSubshell(u) \/ Killed(u)
           \/ WaitForHAProxy(u) \/ Stop(u) \/ WaitForForward(u)
  <2>1. cmd'[u].pc \in {"find", "start"} => cmd[u].pc = "find" /\ cmd'[u].cluster = cmd[u].cluster
    BY <1>1, <1>5, CommandSteps DEF Moves
  <2>2. cmd[u].pc = "find" => cmd[u].cluster \in Clusters
    BY <1>1 DEF Stands, HasEnded
  <2> QED BY <1>1, <2>1, <2>2, CentralStays DEF HasCentral
<1>6. CASE (\E p \in Pids : Listens(p) \/ Dies(p)) \/ OtherStarts \/ UNCHANGED vars
  BY <1>2, <1>6 DEF Listens, Dies, OtherStarts, vars
<1>7. CASE \E t \in Terminals : t # u /\ (RoxieStep(t) \/ UserStep(t))
  BY <1>2, <1>7, OthersCommand
<1> QED BY <1>3, <1>4, <1>5, <1>6, <1>7 DEF Next, RoxieStep, UserStep

----------------------------------------------------------------------------
(* What a step does to a process *)

\* A process that is not new, before and after a step: it stays what it was started as, does not come back to
\* life and keeps its port; or it is gone, or another program that no command has started.
Ages(a, b) ==
    \/ /\ b.kind = a.kind /\ b.by = a.by /\ b.detached = a.detached /\ b.to.cluster = a.to.cluster
       /\ b.state = a.state \/ b.state = "zombie" \/ (a.state = "starting" /\ b.state = "listening")
       /\ b.port = a.port \/ b.state = "zombie"
       /\ a.termed => b.termed
       /\ a.ready => b.ready
    \/ b.kind \in {"none", "other"} /\ b.parent = NoOne
\* Nor does it begin to listen.
Silent(a, b) == b.state = "listening" => a.state = "listening" /\ b.port = a.port /\ b.kind = a.kind
\* Its roxie stays the same.
Kept(a, b) == b.parent = a.parent /\ Ages(a, b)
\* It is left behind if the command of terminal t has ended.
Left(a, b, t) == (b.parent = a.parent \/ (a.parent = t /\ b.parent = NoOne /\ HasEnded(t)')) /\ Ages(a, b)

\* A process that nothing happens to, that dies, that is told to end, whose start succeeds.
LEMMA ProcessKept ==
    ASSUME NEW a \in Process,
           NEW b \in {a, [a EXCEPT !.state = "zombie", !.port = -1], [a EXCEPT !.termed = TRUE], [a EXCEPT !.ready = TRUE]}
    PROVE  Kept(a, b) /\ Silent(a, b)
<1>1. CASE b = a
  BY <1>1 DEF Kept, Silent, Ages
<1>2. CASE b = [a EXCEPT !.state = "zombie", !.port = -1]
  <2>1. /\ b.state = "zombie" /\ b.parent = a.parent /\ b.kind = a.kind /\ b.by = a.by /\ b.detached = a.detached
        /\ b.to = a.to /\ b.termed = a.termed /\ b.ready = a.ready
    BY <1>2 DEF Process
  <2> QED BY <2>1 DEF Kept, Silent, Ages
<1>3. CASE b \in {[a EXCEPT !.termed = TRUE], [a EXCEPT !.ready = TRUE]}
  <2>1. /\ b.state = a.state /\ b.port = a.port /\ b.parent = a.parent /\ b.kind = a.kind /\ b.by = a.by
        /\ b.detached = a.detached /\ b.to = a.to /\ (a.termed => b.termed) /\ (a.ready => b.ready)
    BY <1>3 DEF Process
  <2> QED BY <2>1 DEF Kept, Silent, Ages
<1> QED BY <1>1, <1>2, <1>3

\* A process that dies becomes a zombie of its roxie, or makes room.
LEMMA DeadKept ==
    ASSUME ProcType, NEW p \in Pids, NEW q \in Pids
    PROVE  LET b == Dead(proc, p)[q] IN Kept(proc[q], b) /\ Silent(proc[q], b)
<1> DEFINE b == Dead(proc, p)[q]
<1>1. proc[q] \in Process
  BY DEF ProcType
<1>2. CASE q = p /\ proc[p].parent = NoOne
  <2>1. b = NoProcess
    BY <1>2 DEF ProcType, Dead
  <2>2. Kept(proc[q], NoProcess) /\ Silent(proc[q], NoProcess)
    BY <1>1, <1>2 DEF Kept, Silent, Ages, NoProcess, Process
  <2> QED BY <2>1, <2>2
<1>3. CASE q = p /\ proc[p].parent # NoOne
  <2>1. b = [proc[q] EXCEPT !.state = "zombie", !.port = -1]
    BY <1>3 DEF ProcType, Dead
  <2> HIDE DEF b
  <2>2. Kept(proc[q], b) /\ Silent(proc[q], b)
    BY <1>1, <2>1, ProcessKept
  <2> QED BY <2>2 DEF b
<1>4. CASE q # p
  <2>1. b = proc[q]
    BY <1>4 DEF ProcType, Dead
  <2>2. Kept(proc[q], proc[q]) /\ Silent(proc[q], proc[q])
    BY <1>1, ProcessKept
  <2> QED BY <2>1, <2>2
<1> QED BY <1>2, <1>3, <1>4

\* One that is told to end, or whose start succeeds, goes on.
LEMMA TerminatedKept ==
    ASSUME ProcType, NEW p, NEW q \in Pids
    PROVE  /\ Kept(proc[q], proc[q]) /\ Silent(proc[q], proc[q])
           /\ Kept(proc[q], Terminated(proc, p)[q]) /\ Silent(proc[q], Terminated(proc, p)[q])
           /\ Kept(proc[q], [proc EXCEPT ![p].ready = TRUE][q]) /\ Silent(proc[q], [proc EXCEPT ![p].ready = TRUE][q])
<1>1. proc[q] \in Process
  BY DEF ProcType
<1>2. Terminated(proc, p)[q] \in {proc[q], [proc[q] EXCEPT !.termed = TRUE]}
  BY DEF ProcType, Terminated
<1>3. [proc EXCEPT ![p].ready = TRUE][q] \in {proc[q], [proc[q] EXCEPT !.ready = TRUE]}
  BY DEF ProcType
<1>4. \A b \in {proc[q], [proc[q] EXCEPT !.termed = TRUE], [proc[q] EXCEPT !.ready = TRUE]} :
        Kept(proc[q], b) /\ Silent(proc[q], b)
  BY <1>1, ProcessKept
<1> QED BY <1>2, <1>3, <1>4

\* Waiting for the end of a process.
LEMMA WaitedForKept ==
    ASSUME ProcType, NEW p \in Pids \cup {NoOne}, NEW P \in WaitedFor(p), NEW q \in Pids
    PROVE  Kept(proc[q], P[q]) /\ Silent(proc[q], P[q])
<1>1. CASE Gone(p)
  BY <1>1, TerminatedKept DEF WaitedFor
<1>2. CASE ~Gone(p)
  BY <1>2, DeadKept DEF WaitedFor, Gone
<1> QED BY <1>1, <1>2

\* The end of a command leaves its processes to themselves.
LEMMA EndsLeave ==
    ASSUME Structure, NEW t \in Terminals, NEW P \in [Pids -> Process], NEW how \in {"ended", "failed"}, Ends(t, P, how),
           NEW q \in Pids, (Kept(proc[q], P[q]) /\ Silent(proc[q], P[q])) \/ (proc[q].parent = t /\ P[q] = NoProcess)
    PROVE  Left(proc[q], proc'[q], t) /\ Silent(proc[q], proc'[q])
<1>1. HasEnded(t)'
  BY DEF Structure, TypeOK, Ends, Goto, HasEnded
<1>2. CASE P[q].parent # t
  <2>1. proc'[q] = P[q]
    BY <1>2 DEF Ends, Orphaned
  <2>2. Kept(proc[q], P[q]) /\ Silent(proc[q], P[q]) => Left(proc[q], P[q], t) /\ Silent(proc[q], P[q])
    BY DEF Kept, Left
  <2>3. proc[q].parent = t => Left(proc[q], NoProcess, t) /\ Silent(proc[q], NoProcess)
    BY <1>1, NoProcessIs DEF Left, Ages, Silent
  <2> QED BY <2>1, <2>2, <2>3
<1>3. CASE P[q].parent = t
  <2>1. P[q] # NoProcess
    BY <1>3, NoOneElse, NoProcessIs
  <2>2. Kept(proc[q], P[q]) /\ Silent(proc[q], P[q])
    BY <2>1
  <2>3. proc'[q] \in {NoProcess, [P[q] EXCEPT !.parent = NoOne]}
    BY <1>3 DEF Ends, Orphaned
  <2>4. CASE proc'[q] = NoProcess
    <3>1. proc[q].parent = t
      BY <1>3, <2>2 DEF Kept
    <3>2. Left(proc[q], NoProcess, t) /\ Silent(proc[q], NoProcess)
      BY <1>1, <3>1, NoProcessIs DEF Left, Ages, Silent
    <3> QED BY <2>4, <3>2
  <2>5. CASE proc'[q] = [P[q] EXCEPT !.parent = NoOne]
    <3> DEFINE a == P[q]
               b == proc'[q]
    <3>1. /\ b.parent = NoOne /\ b.kind = a.kind /\ b.by = a.by /\ b.detached = a.detached /\ b.to = a.to
          /\ b.port = a.port /\ b.state = a.state /\ b.termed = a.termed /\ b.ready = a.ready
      BY <2>5 DEF Process
    <3> HIDE DEF b
    <3>2. Ages(proc[q], b) /\ Silent(proc[q], b) /\ proc[q].parent = t /\ b.parent = NoOne
      BY <1>3, <2>2, <3>1 DEF Kept, Ages, Silent
    <3> QED BY <1>1, <3>2 DEF Left, b
  <2> QED BY <2>3, <2>4, <2>5
<1> QED BY <1>2, <1>3

\* Who is nobody's process: those that are none, or another program.
LEMMA Strangers ==
    ASSUME Structure, NEW q \in Pids, proc[q].kind \in {"none", "other"}
    PROVE  proc[q].parent = NoOne
<1>1. proc[q].parent \in Terminals \cup {NoOne}
  BY DEF Structure, TypeOK, Process
<1>2. proc[q].parent \notin Terminals
  BY DEF Structure, Ownership, BelongsTo
<1> QED BY <1>1, <1>2

\* A process that a command has just started.
Fresh(a, t, kind, port, detached) ==
    /\ a.kind = kind /\ a.state = "starting" /\ a.port = port /\ a.by = cmd[t].kind
    /\ a.parent = t /\ a.detached = detached /\ a.to.cluster = cmd[t].cluster

\* The command of terminal t starts the process q.
Starts(t, q) ==
    LET c == cmd[t]
    IN  /\ IsUnused(q)
        /\ \/ /\ c.pc = "start" /\ Moves(t, "start", "wait", {"child"}) /\ cmd'[t].child = q
              /\ Fresh(proc'[q], t, "kubectl", c.port, c.mode = "detached")
           \/ /\ c.pc = "haproxy" /\ Moves(t, "haproxy", "serving", {"proxy"}) /\ cmd'[t].proxy = q
              /\ Fresh(proc'[q], t, "haproxy", UIPort, FALSE)

\* The steps that start processes.
LEMMA StartSteps ==
    ASSUME Structure, NEW t \in Terminals, StartKubectl(t) \/ TryStartHAProxy(t)
    PROVE  \/ \E p \in Pids : Starts(t, p) /\ ~HasEnded(t)' /\ \A q \in Pids \ {p} : proc'[q] = proc[q]
           \/ Ends(t, proc, "failed")
           \/ Moves(t, "haproxy", "serving", {}) /\ UNCHANGED proc
<1>1. ProcType /\ cmd \in [Terminals -> Command]
  BY DEF Structure, TypeOK, ProcType
<1> DEFINE c == cmd[t]
<1>2. CASE StartKubectl(t) /\ ~Ends(t, proc, "failed")
  <2>1. PICK p \in Pids :
          /\ IsUnused(p)
          /\ proc' = [proc EXCEPT ![p] = [NoProcess EXCEPT
               !.kind = "kubectl", !.port = cmd[t].port, !.by = cmd[t].kind, !.parent = t,
               !.detached = (cmd[t].mode = "detached"), !.to.cluster = cmd[t].cluster]]
          /\ cmd' = [cmd EXCEPT ![t].pc = "wait", ![t].child = p]
    BY <1>2 DEF StartKubectl
  <2>2. /\ \A q \in Pids \ {p} : proc'[q] = proc[q]
        /\ Fresh(proc'[p], t, "kubectl", c.port, c.mode = "detached")
    BY <1>1, <2>1 DEF ProcType, NoProcess, Fresh
  <2>3. cmd[t].pc = "start"
    BY <1>2 DEF StartKubectl
  <2>4. Moves(t, "start", "wait", {"child"}) /\ cmd'[t].child = p
    <3>1. cmd' = [cmd EXCEPT ![t].pc = "wait", ![t].child = p]
      BY <2>1
    <3> QED BY <1>1, <2>3, <3>1 DEF Moves
  <2>5. ~HasEnded(t)'
    BY <2>4 DEF Moves, HasEnded
  <2> QED BY <2>1, <2>2, <2>3, <2>4, <2>5 DEF Starts
<1>3. CASE TryStartHAProxy(t) /\ UNCHANGED proc /\ Goto(t, "serving")
  <2>1. cmd[t].pc = "haproxy"
    BY <1>3 DEF TryStartHAProxy
  <2> QED BY <1>1, <1>3, <2>1, GotoMoves
<1>4. CASE TryStartHAProxy(t) /\ ~(UNCHANGED proc /\ Goto(t, "serving"))
  <2>1. PICK p \in Pids :
          /\ IsUnused(p)
          /\ proc' = [proc EXCEPT ![p] = [NoProcess EXCEPT
               !.kind = "haproxy", !.port = UIPort, !.by = cmd[t].kind, !.parent = t,
               !.to.cluster = cmd[t].cluster]]
          /\ cmd' = [cmd EXCEPT ![t].pc = "serving", ![t].proxy = p]
    BY <1>4 DEF TryStartHAProxy
  <2>2. /\ \A q \in Pids \ {p} : proc'[q] = proc[q]
        /\ Fresh(proc'[p], t, "haproxy", UIPort, FALSE)
    BY <1>1, <2>1 DEF ProcType, NoProcess, Fresh
  <2>3. cmd[t].pc = "haproxy"
    BY <1>4 DEF TryStartHAProxy
  <2>4. Moves(t, "haproxy", "serving", {"proxy"}) /\ cmd'[t].proxy = p
    <3>1. cmd' = [cmd EXCEPT ![t].pc = "serving", ![t].proxy = p]
      BY <2>1
    <3> QED BY <1>1, <2>3, <3>1 DEF Moves
  <2>5. ~HasEnded(t)'
    BY <2>4 DEF Moves, HasEnded
  <2> QED BY <2>1, <2>2, <2>3, <2>4, <2>5 DEF Starts
<1> QED BY <1>2, <1>3, <1>4

\* What a step of a command does to a process.
LEMMA CommandLeaves ==
    ASSUME Structure, NEW t \in Terminals, RoxieStep(t) \/ UserStep(t), NEW q \in Pids
    PROVE  (Left(proc[q], proc'[q], t) /\ Silent(proc[q], proc'[q])) \/ (Starts(t, q) /\ ~HasEnded(t)')
<1>1. ProcType /\ cmd \in [Terminals -> Command] /\ cmd[t] \in Command /\ proc[q] \in Process
  BY DEF Structure, TypeOK, ProcType
<1>2. cmd[t].child \in Pids \cup {NoOne} /\ cmd[t].proxy \in Pids \cup {NoOne} /\ cmd[t].pid \in Pids \cup {NoOne}
  BY <1>1 DEF Command
<1> DEFINE Goal == Left(proc[q], proc'[q], t) /\ Silent(proc[q], proc'[q])
<1> SUFFICES Goal \/ (Starts(t, q) /\ ~HasEnded(t)')
  OBVIOUS
<1>3. Kept(proc[q], proc[q]) /\ Silent(proc[q], proc[q])
  BY <1>1, TerminatedKept
<1>4. ASSUME Kept(proc[q], proc'[q]) /\ Silent(proc[q], proc'[q]) PROVE Goal
  BY <1>4 DEF Kept, Left
<1>5. ASSUME proc'[q] = proc[q] PROVE Goal
  BY <1>3, <1>4, <1>5
<1>6. ASSUME Ends(t, proc, "failed") \/ Ends(t, proc, "ended") PROVE Goal
  <2>1. proc \in [Pids -> Process]
    BY <1>1 DEF ProcType
  <2> QED BY <1>3, <1>6, <2>1, EndsLeave
<1> HIDE DEF Goal
<1>7. CASE StartDeploy(t) \/ StartTeardown(t) \/ StartShell(t) \/ DeleteCentralResources(t)
  BY <1>5, <1>7 DEF StartDeploy, StartTeardown, StartShell, DeleteCentralResources
<1>8. CASE StopDetachedPortForward(t)
  <2>1. proc'[q] = proc[q] \/ (cmd[t].pid \in Pids /\ proc' = Dead(proc, cmd[t].pid))
    BY <1>2, <1>8 DEF StopDetachedPortForward
  <2> QED BY <1>1, <1>4, <1>5, <2>1, DeadKept
<1>9. CASE DeployCentral(t) \/ FindFreeLocalPort(t) \/ Killed(t) \/ WriteEnvrc(t)
  BY <1>5, <1>6, <1>9 DEF DeployCentral, FindFreeLocalPort, Killed, WriteEnvrc
<1>10. CASE StartKubectl(t) \/ TryStartHAProxy(t)
  <2>1. CASE UNCHANGED proc \/ Ends(t, proc, "failed")
    BY <1>5, <1>6, <2>1
  <2>2. ASSUME NEW p \in Pids, Starts(t, p) /\ ~HasEnded(t)', \A r \in Pids \ {p} : proc'[r] = proc[r]
        PROVE  Goal \/ (Starts(t, q) /\ ~HasEnded(t)')
    BY <1>5, <2>2
  <2> QED BY <1>10, <2>1, <2>2, StartSteps
<1>11. CASE WaitTCPReady(t)
  <2>1. CASE TCPReady(t)
    <3>1. proc' = [proc EXCEPT ![cmd[t].child].ready = TRUE]
      BY <1>11, <2>1 DEF WaitTCPReady
    <3> QED BY <1>1, <1>4, <3>1, TerminatedKept
  <2>2. CASE ~TCPReady(t)
    <3>1. Ends(t, KilledAtTimeout(t), "failed")
      BY <1>11, <2>2 DEF WaitTCPReady
    <3>2. cmd[t].child \in Pids /\ proc[cmd[t].child].parent = t
      BY <1>11 DEF Structure, Stands, Ownership, Keeps, WaitTCPReady, HasEnded
    <3>3. KilledAtTimeout(t) \in [Pids -> Process]
      BY <1>1, <3>2, TerminatedTyped DEF KilledAtTimeout, ProcType
    <3>4. CASE cmd[t].mode = "attached"
      <4>1. KilledAtTimeout(t)[q] = IF q = cmd[t].child THEN NoProcess ELSE proc[q]
        BY <1>1, <3>4 DEF KilledAtTimeout, ProcType
      <4> QED BY <1>3, <3>1, <3>2, <3>3, <4>1, EndsLeave DEF Goal
    <3>5. CASE cmd[t].mode # "attached"
      <4>1. KilledAtTimeout(t) = Terminated(proc, cmd[t].child)
        BY <3>5 DEF KilledAtTimeout
      <4>2. Kept(proc[q], KilledAtTimeout(t)[q]) /\ Silent(proc[q], KilledAtTimeout(t)[q])
        BY <1>1, <4>1, TerminatedKept
      <4> QED BY <3>1, <3>3, <4>2, EndsLeave DEF Goal
    <3> QED BY <3>4, <3>5
  <2> QED BY <2>1, <2>2
<1>12. CASE ExitSubshell(t) \/ Stop(t)
  <2>1. proc'[q] = proc[q] \/ \E p \in Pids : proc' = Terminated(proc, p)
    <3>1. Stop(t) => cmd[t].child \in Pids
      BY DEF Structure, Stands, Stop
    <3> QED BY <1>2, <1>12, <3>1 DEF ExitSubshell, Stop
  <2> QED BY <1>1, <1>4, <1>5, <2>1, TerminatedKept
<1>13. CASE WaitForHAProxy(t) \/ WaitForForward(t)
  <2> PICK p \in Pids \cup {NoOne} : \E P \in WaitedFor(p) : proc' = P \/ Ends(t, P, "ended")
    BY <1>2, <1>13 DEF WaitForHAProxy, WaitForForward
  <2>1. PICK P \in WaitedFor(p) : proc' = P \/ Ends(t, P, "ended")
    OBVIOUS
  <2>2. Kept(proc[q], P[q]) /\ Silent(proc[q], P[q])
    BY <1>1, <2>1, WaitedForKept
  <2>3. P \in [Pids -> Process]
    BY <1>1, <2>1, DeadTyped DEF WaitedFor, Gone, ProcType
  <2>4. CASE proc' = P
    BY <1>4, <2>2, <2>4
  <2>5. CASE Ends(t, P, "ended")
    BY <2>2, <2>3, <2>5, EndsLeave DEF Goal
  <2> QED BY <2>1, <2>4, <2>5
<1> QED BY <1>7, <1>8, <1>9, <1>10, <1>11, <1>12, <1>13 DEF RoxieStep, UserStep

\* What processes do by themselves.
LEMMA ProcessSteps ==
    ASSUME Structure, (\E p \in Pids : Listens(p) \/ Dies(p)) \/ OtherStarts \/ UNCHANGED vars, NEW q \in Pids
    PROVE  /\ UNCHANGED cmd /\ Kept(proc[q], proc'[q])
           /\ \/ Silent(proc[q], proc'[q])
              \/ Listens(q) /\ proc[q].state = "starting" /\ proc'[q].kind = proc[q].kind /\ proc'[q].port = proc[q].port
              \/ OtherStarts
<1>1. ProcType /\ proc[q] \in Process
  BY DEF Structure, TypeOK, ProcType
<1>2. CASE proc'[q] = proc[q]
  <2>1. Kept(proc[q], proc[q]) /\ Silent(proc[q], proc[q])
    BY <1>1, TerminatedKept
  <2>2. UNCHANGED cmd
    BY DEF Listens, Dies, OtherStarts, vars
  <2> QED BY <1>2, <2>1, <2>2
<1>3. CASE OtherStarts /\ proc'[q] # proc[q]
  <2>1. PICK p \in Pids, port \in {-1, UIPort} \cup Ports : IsUnused(p) /\ proc' = [proc EXCEPT ![p] = OtherProgram(port)]
    BY <1>3 DEF OtherStarts
  <2>2. proc[q].kind = "none" /\ proc'[q] = OtherProgram(port)
    BY <1>1, <1>3, <2>1 DEF IsUnused, ProcType
  <2>3. proc[q].parent = NoOne
    BY <2>2, Strangers
  <2>4. proc'[q].kind = "other" /\ proc'[q].parent = NoOne
    BY <2>2, OtherTyped
  <2> QED BY <1>3, <2>3, <2>4 DEF OtherStarts, Kept, Ages
<1>4. ASSUME NEW p \in Pids, proc' = Dead(proc, p), Listens(p) \/ Dies(p)
      PROVE  UNCHANGED cmd /\ Kept(proc[q], proc'[q]) /\ Silent(proc[q], proc'[q])
  BY <1>1, <1>4, DeadKept DEF Listens, Dies
<1>5. ASSUME NEW p \in Pids, Listens(p), q # p,
             proc' = [proc EXCEPT ![p].state = "listening", ![p].to.times = central[proc[p].to.cluster].times]
      PROVE  proc'[q] = proc[q]
  BY <1>1, <1>5 DEF ProcType
<1>6. ASSUME Listens(q),
             proc' = [proc EXCEPT ![q].state = "listening", ![q].to.times = central[proc[q].to.cluster].times]
      PROVE  /\ UNCHANGED cmd /\ Kept(proc[q], proc'[q])
             /\ proc[q].state = "starting" /\ proc'[q].kind = proc[q].kind /\ proc'[q].port = proc[q].port
  <2> DEFINE a == proc[q]
             b == [a EXCEPT !.state = "listening", !.to.times = central[a.to.cluster].times]
  <2>1. proc'[q] = b
    BY <1>1, <1>6 DEF ProcType
  <2>2. /\ b.state = "listening" /\ b.parent = a.parent /\ b.kind = a.kind /\ b.by = a.by /\ b.detached = a.detached
        /\ b.to.cluster = a.to.cluster /\ b.termed = a.termed /\ b.ready = a.ready /\ b.port = a.port
    BY <1>1 DEF Process
  <2>3. a.state = "starting" /\ UNCHANGED cmd
    BY <1>6 DEF Listens
  <2> HIDE DEF b
  <2>4. Kept(a, b)
    BY <2>2, <2>3 DEF Kept, Ages
  <2> QED BY <2>1, <2>2, <2>3, <2>4
<1> QED BY <1>2, <1>3, <1>4, <1>5, <1>6 DEF Listens, Dies, vars

----------------------------------------------------------------------------
(* The commands and their processes stay together *)

\* A command that runs has its processes, and no others.
LEMMA Owns ==
    ASSUME Structure, NEW t \in Terminals, NEW q \in Pids, proc[q].parent = t
    PROVE  /\ ~HasEnded(t) /\ q \in {cmd[t].child, cmd[t].proxy}
           /\ proc[q].kind \in {"kubectl", "haproxy"}
           /\ proc[q].kind = "kubectl" <=> q = cmd[t].child
           /\ proc[q].kind = "haproxy" <=> q = cmd[t].proxy
           /\ proc[q].kind = "kubectl" =>
                proc[q].by = cmd[t].kind /\ proc[q].detached = (cmd[t].mode = "detached")
BY DEF Structure, Ownership, BelongsTo, Keeps

\* Either a command goes on with the processes it has, or it has ended, or it has none.
LEMMA CommandsOwn ==
    ASSUME Structure, NEW t \in Terminals, RoxieStep(t) \/ UserStep(t)
    PROVE  \/ HasEnded(t)'
           \/ /\ ~HasEnded(t) /\ cmd'[t].kind = cmd[t].kind /\ cmd'[t].mode = cmd[t].mode
              /\ cmd'[t].child = cmd[t].child /\ cmd'[t].proxy = cmd[t].proxy
           \/ HasEnded(t) /\ cmd'[t].child = NoOne /\ cmd'[t].proxy = NoOne
           \/ \E p \in Pids : Starts(t, p) /\ \A q \in Pids \ {p} : proc'[q] = proc[q]
<1>1. cmd \in [Terminals -> Command]
  BY DEF Structure, TypeOK
<1>2. CASE StartDeploy(t) \/ StartTeardown(t) \/ StartShell(t)
  BY <1>1, <1>2, NewCommandStands DEF StartDeploy, StartTeardown, StartShell, MayStart
<1>3. CASE StartKubectl(t) \/ TryStartHAProxy(t)
  <2>1. Ends(t, proc, "failed") => HasEnded(t)'
    BY <1>1 DEF Ends, Goto, HasEnded
  <2> QED BY <1>3, <2>1, StartSteps DEF Moves, HasEnded
<1>4. CASE StopDetachedPortForward(t) \/ DeleteCentralResources(t) \/ DeployCentral(t)
  BY <1>1, <1>4, CommandSteps DEF Moves, HasEnded
<1>5. CASE FindFreeLocalPort(t) \/ WaitTCPReady(t) \/ WriteEnvrc(t)
  BY <1>1, <1>5, CommandSteps DEF Moves, HasEnded
<1>6. CASE ExitSubshell(t) \/ WaitForHAProxy(t) \/ Stop(t) \/ WaitForForward(t) \/ Killed(t)
  BY <1>1, <1>6, CommandSteps DEF Moves, HasEnded
<1> QED BY <1>2, <1>3, <1>4, <1>5, <1>6 DEF RoxieStep, UserStep

\* A command that ends leaves all its processes.
LEMMA NoneLeft ==
    ASSUME Structure, NEW t \in Terminals, RoxieStep(t) \/ UserStep(t), HasEnded(t)', NEW q \in Pids
    PROVE  proc'[q].parent # t
<1>1. /\ cmd \in [Terminals -> Command] /\ Stands(t) /\ NoOne \notin Terminals /\ NoOne \notin Pids
      /\ proc \in [Pids -> Process]
  BY NoOneElse DEF Structure, TypeOK
<1>2. ASSUME NEW P, proc' = Orphaned(P, t) PROVE proc'[q].parent # t
  <2>1. CASE P[q].parent # t
    BY <1>2, <2>1 DEF Orphaned
  <2>2. CASE P[q].parent = t /\ proc'[q] = NoProcess
    BY <1>1, <2>2, NoProcessIs
  <2>3. CASE P[q].parent = t /\ proc'[q] = [P[q] EXCEPT !.parent = NoOne]
    BY <1>1, <2>3
  <2> QED BY <1>2, <2>1, <2>2, <2>3 DEF Orphaned
<1>3. CASE StartDeploy(t) \/ StartTeardown(t) \/ StartShell(t)
  BY <1>3, Owns DEF StartDeploy, StartTeardown, StartShell, MayStart
<1>4. CASE DeleteCentralResources(t)
  BY <1>1, <1>4, Owns DEF DeleteCentralResources, Stands
<1>5. CASE DeployCentral(t) \/ FindFreeLocalPort(t) \/ WriteEnvrc(t) \/ Killed(t) \/ WaitForForward(t)
  <2>1. DeployCentral(t) => Ends(t, proc, "failed")
    <3>1. \A label : Goto(t, label) => cmd'[t].pc = label
      BY <1>1 DEF Goto
    <3>2. ~(\E label \in {"envrc", "haproxy", "find"} : Goto(t, label))
      BY <3>1 DEF HasEnded
    <3> QED BY <3>2 DEF DeployCentral
  <2>2. FindFreeLocalPort(t) => Ends(t, proc, "failed")
    <3>1. \A port : cmd' = [cmd EXCEPT ![t].pc = "start", ![t].port = port] => cmd'[t].pc = "start"
      BY <1>1
    <3> QED BY <3>1 DEF FindFreeLocalPort, HasEnded
  <2> QED BY <1>2, <1>5, <2>1, <2>2 DEF WriteEnvrc, Killed, WaitForForward, Ends
<1>6. CASE StartKubectl(t) \/ TryStartHAProxy(t)
  BY <1>2, <1>6, StartSteps DEF Moves, HasEnded, Ends
<1>7. CASE WaitTCPReady(t)
  <2>1. ~(\/ cmd[t].mode = "attached" /\ Moves(t, "wait", "haproxy", {})
          \/ cmd[t].mode # "attached" /\ Moves(t, "wait", "envrc", {"pid"}))
    BY DEF Moves, HasEnded
  <2>2. ~TCPReady(t)
    <3>1. Goto(t, "haproxy") => cmd'[t].pc = "haproxy"
      BY <1>1 DEF Goto
    <3>2. cmd' = [cmd EXCEPT ![t].pc = "envrc", ![t].pid = cmd[t].child] => cmd'[t].pc = "envrc"
      BY <1>1
    <3> QED BY <1>7, <3>1, <3>2 DEF WaitTCPReady, HasEnded
  <2> QED BY <1>2, <1>7, <2>2 DEF WaitTCPReady, Ends
<1>8. CASE WaitForHAProxy(t)
  <2>1. Goto(t, "stopForward") => ~HasEnded(t)'
    BY <1>1 DEF Goto, HasEnded
  <2> QED BY <1>2, <1>8, <2>1 DEF WaitForHAProxy, Ends
<1>9. ~(StopDetachedPortForward(t) \/ ExitSubshell(t) \/ Stop(t))
  BY <1>1, CommandSteps DEF Moves, HasEnded
<1> QED BY <1>3, <1>4, <1>5, <1>6, <1>7, <1>8, <1>9 DEF RoxieStep, UserStep

\* Every process of a command stays its own, and it keeps them.
LEMMA OwnershipStep ==
    ASSUME Structure, [Next]_vars
    PROVE  Ownership'
<1>1. /\ \A q \in Pids : proc[q].parent \in Terminals \cup {NoOne}
      /\ \A u \in Terminals : Keeps(u)
      /\ NoOne \notin Pids /\ NoOne \notin Terminals
  BY NoOneElse DEF Structure, TypeOK, Process, Ownership
\* As long as a process stays with the command, and the command as it is.
<1>2. ASSUME NEW q \in Pids, NEW u \in Terminals, proc'[q].parent = u, Ages(proc[q], proc'[q]),
             proc'[q].parent = proc[q].parent, ~HasEnded(u)',
             cmd'[u].kind = cmd[u].kind, cmd'[u].mode = cmd[u].mode, cmd'[u].child = cmd[u].child, cmd'[u].proxy = cmd[u].proxy
      PROVE  BelongsTo(q, u)'
  <2>1. proc'[q].kind = proc[q].kind /\ proc'[q].by = proc[q].by /\ proc'[q].detached = proc[q].detached
    BY <1>1, <1>2 DEF Ages
  <2>2. BelongsTo(q, u)
    BY <1>2 DEF Structure, Ownership
  <2> QED BY <1>2, <2>1, <2>2 DEF BelongsTo
<1>3. ASSUME NEW q \in Pids, NEW u \in Terminals, proc[q].parent = u, Ages(proc[q], proc'[q]),
             proc'[q].parent = proc[q].parent
      PROVE  proc'[q].parent = u /\ proc'[q].kind = proc[q].kind
  BY <1>1, <1>3 DEF Ages
<1>4. CASE (\E p \in Pids : Listens(p) \/ Dies(p)) \/ OtherStarts \/ UNCHANGED vars
  <2>1. UNCHANGED cmd /\ \A q \in Pids : Kept(proc[q], proc'[q])
    <3>1. UNCHANGED cmd
      BY <1>4 DEF Listens, Dies, OtherStarts, vars
    <3> QED BY <1>4, <3>1, ProcessSteps
  <2>2. ASSUME NEW q \in Pids, NEW u \in Terminals, proc'[q].parent = u PROVE BelongsTo(q, u)'
    <3>1. ~HasEnded(u)'
      BY <2>1, <2>2, Owns DEF Kept, HasEnded
    <3> QED BY <1>2, <2>1, <2>2, <3>1 DEF Kept
  <2>3. ASSUME NEW u \in Terminals PROVE Keeps(u)'
    BY <1>1, <1>3, <2>1 DEF Keeps, HasEnded, Kept
  <2> QED BY <2>2, <2>3 DEF Ownership
<1>5. ASSUME NEW t \in Terminals, RoxieStep(t) \/ UserStep(t) PROVE Ownership'
  <2>1. \A q \in Pids : Left(proc[q], proc'[q], t) \/ (Starts(t, q) /\ ~HasEnded(t)')
    BY <1>5, CommandLeaves
  <2>2. \A u \in Terminals \ {t} : cmd'[u] = cmd[u]
    BY <1>5, OthersCommand
  \* The others' processes.
  <2>3. ASSUME NEW q \in Pids, NEW u \in Terminals \ {t}, proc'[q].parent = u PROVE BelongsTo(q, u)'
    <3>1. ~Starts(t, q)
      BY <2>3 DEF Starts, Fresh
    <3>2. Ages(proc[q], proc'[q]) /\ proc'[q].parent = proc[q].parent
      BY <1>1, <2>1, <2>3, <3>1 DEF Left
    <3>3. ~HasEnded(u)'
      BY <2>2, <2>3, <3>2, Owns DEF HasEnded
    <3> QED BY <1>2, <2>2, <2>3, <3>2, <3>3
  <2>4. ASSUME NEW q \in Pids, NEW u \in Terminals, proc[q].parent = u, u # t \/ ~HasEnded(t)'
        PROVE  proc'[q].parent = u /\ proc'[q].kind = proc[q].kind
    <3>1. ~Starts(t, q)
      BY <1>1, <2>4, Owns DEF Starts, IsUnused
    <3> QED BY <1>3, <2>1, <2>4, <3>1 DEF Left
  <2>5. ASSUME NEW u \in Terminals \ {t} PROVE Keeps(u)'
    BY <1>1, <2>2, <2>4, <2>5 DEF Keeps, HasEnded
  \* Its own.
  <2>6. ASSUME NEW q \in Pids, proc'[q].parent = t, ~Starts(t, q)
        PROVE  Ages(proc[q], proc'[q]) /\ proc[q].parent = t
    BY <1>1, <2>1, <2>6 DEF Left
  <2>7. CASE HasEnded(t)'
    <3>1. \A q \in Pids : proc'[q].parent # t
      BY <1>5, <2>7, NoneLeft
    <3> QED BY <2>3, <2>5, <2>7, <3>1 DEF Ownership, Keeps
  <2>8. CASE /\ ~HasEnded(t) /\ cmd'[t].kind = cmd[t].kind /\ cmd'[t].mode = cmd[t].mode
             /\ cmd'[t].child = cmd[t].child /\ cmd'[t].proxy = cmd[t].proxy /\ ~HasEnded(t)'
    <3>1. ASSUME NEW q \in Pids, proc'[q].parent = t PROVE BelongsTo(q, t)'
      <4>1. ~Starts(t, q)
        <5>1. cmd[t].pc = "start" => cmd[t].child = NoOne
          BY DEF Structure, Stands
        <5>2. cmd[t].pc = "haproxy" => cmd[t].proxy = NoOne
          BY DEF Structure, Stands, HasEnded
        <5> QED BY <1>1, <2>8, <5>1, <5>2 DEF Starts
      <4> QED BY <1>2, <2>6, <2>8, <3>1, <4>1
    <3>2. Keeps(t)'
      BY <1>1, <2>4, <2>8 DEF Keeps
    <3> QED BY <2>3, <2>5, <3>1, <3>2 DEF Ownership
  <2>9. CASE HasEnded(t) /\ cmd'[t].child = NoOne /\ cmd'[t].proxy = NoOne
    <3>1. ASSUME NEW q \in Pids, proc'[q].parent = t PROVE FALSE
      <4>1. ~Starts(t, q)
        BY <2>9 DEF Starts, HasEnded
      <4> QED BY <2>6, <2>9, <3>1, <4>1, Owns
    <3> QED BY <1>1, <2>3, <2>5, <2>9, <3>1 DEF Ownership, Keeps
  <2>10. CASE \E p \in Pids : Starts(t, p) /\ \A q \in Pids \ {p} : proc'[q] = proc[q]
    <3>1. PICK p \in Pids : Starts(t, p) /\ \A q \in Pids \ {p} : proc'[q] = proc[q]
      BY <2>10
    <3>2. ~HasEnded(t) /\ ~HasEnded(t)' /\ cmd'[t].kind = cmd[t].kind /\ cmd'[t].mode = cmd[t].mode
      BY <3>1 DEF Starts, Moves, HasEnded
    <3>3. proc'[p].parent = t /\ BelongsTo(p, t)'
      BY <3>1, <3>2 DEF Starts, Fresh, BelongsTo
    <3>4. ASSUME NEW q \in Pids \ {p}, proc'[q].parent = t
          PROVE  cmd[t].pc = "haproxy" /\ q = cmd[t].child /\ proc[q].kind = "kubectl" /\ proc[q].parent = t
      <4>1. proc[q].parent = t
        BY <3>1, <3>4
      <4>2. cmd[t].pc = "start" => cmd[t].child = NoOne /\ cmd[t].proxy = NoOne
        BY DEF Structure, Stands, HasEnded
      <4>3. cmd[t].pc = "haproxy" => cmd[t].proxy = NoOne
        BY DEF Structure, Stands, HasEnded
      <4>4. cmd[t].pc \in {"start", "haproxy"}
        BY <3>1 DEF Starts
      <4> QED BY <1>1, <4>1, <4>2, <4>3, <4>4, Owns
    <3>5. cmd[t].pc = "haproxy" => cmd'[t].child = cmd[t].child /\ cmd'[t].proxy = p
      BY <3>1 DEF Starts, Moves
    <3>6. ASSUME NEW q \in Pids, proc'[q].parent = t PROVE BelongsTo(q, t)'
      <4>1. CASE q = p
        BY <3>3, <4>1
      <4>2. CASE q # p
        <5>1. BelongsTo(q, t) /\ proc'[q] = proc[q]
          BY <3>1, <3>4, <3>6, <4>2 DEF Structure, Ownership
        <5> QED BY <3>2, <3>4, <3>5, <3>6, <4>2, <5>1 DEF BelongsTo
      <4> QED BY <4>1, <4>2
    <3>7. Keeps(t)'
      <4>1. CASE cmd[t].pc = "start"
        <5>1. cmd'[t].child = p /\ cmd'[t].proxy = cmd[t].proxy /\ proc'[p].kind = "kubectl"
          BY <3>1, <4>1 DEF Starts, Moves, Fresh
        <5>2. cmd[t].proxy = NoOne
          BY <4>1 DEF Structure, Stands, HasEnded
        <5> QED BY <1>1, <3>3, <5>1, <5>2 DEF Keeps
      <4>2. CASE cmd[t].pc = "haproxy"
        <5>1. proc'[p].kind = "haproxy" /\ IsUnused(p)
          BY <3>1, <4>2 DEF Starts, Fresh
        <5>2. cmd[t].child \in Pids => proc[cmd[t].child].parent = t /\ proc[cmd[t].child].kind = "kubectl"
          BY <1>1, <3>2 DEF Keeps
        <5>3. cmd[t].child \in Pids => proc'[cmd[t].child] = proc[cmd[t].child]
          BY <3>1, <5>1, <5>2 DEF IsUnused
        <5> QED BY <3>3, <3>5, <4>2, <5>1, <5>2, <5>3 DEF Keeps
      <4> QED BY <3>1, <4>1, <4>2 DEF Starts
    <3> QED BY <2>3, <2>5, <3>6, <3>7 DEF Ownership
  <2> QED BY <1>5, <2>7, <2>8, <2>9, <2>10, CommandsOwn
<1> QED BY <1>4, <1>5 DEF Next

\* What a process can serve.
LEMMA ServedStep ==
    ASSUME Structure, [Next]_vars, NEW q \in Pids
    PROVE  Served(q)'
<1>1. Served(q) /\ \A c \in Clusters : NamespaceExists(c) => NamespaceExists(c)'
  BY CentralStays DEF Structure
<1>2. ASSUME Ages(proc[q], proc'[q]) PROVE Served(q)'
  BY <1>1, <1>2 DEF Ages, Served
<1>3. CASE (\E p \in Pids : Listens(p) \/ Dies(p)) \/ OtherStarts \/ UNCHANGED vars
  BY <1>2, <1>3, ProcessSteps DEF Kept
<1>4. ASSUME NEW t \in Terminals, RoxieStep(t) \/ UserStep(t) PROVE Served(q)'
  <2>1. ASSUME Starts(t, q) PROVE Served(q)'
    <3>1. cmd[t].cluster \in Clusters /\ (cmd[t].pc = "start" => NamespaceExists(cmd[t].cluster))
      BY <2>1 DEF Structure, Stands, HasEnded, HasCentral, Starts
    <3>2. proc'[q].to.cluster = cmd[t].cluster /\ (proc'[q].kind = "kubectl" => cmd[t].pc = "start")
      BY <2>1 DEF Starts, Fresh
    <3>3. proc'[q].kind = "haproxy" => proc'[q].port = UIPort
      BY <2>1 DEF Starts, Fresh
    <3> QED BY <1>1, <3>1, <3>2, <3>3 DEF Served
  <2> QED BY <1>2, <1>4, <2>1, CommandLeaves DEF Left
<1> QED BY <1>3, <1>4 DEF Next

\* Each step preserves what the ownership of processes rests on.
LEMMA StructureStep == Structure /\ [Next]_vars => Structure'
BY TypeStep, CentralStays, StandsStep, CentralStep, ServedStep, OwnershipStep DEF Structure

----------------------------------------------------------------------------
(* What is left behind *)

\* A command goes on from a start that has succeeded, and stops its port-forward after its HAProxy has gone.
LEMMA ProgressStep ==
    ASSUME Structure, Structure', [Next]_vars, NEW u \in Terminals, Progress(u)
    PROVE  Progress(u)'
<1>1. /\ cmd \in [Terminals -> Command] /\ proc \in [Pids -> Process]
      /\ Stands(u) /\ Stands(u)' /\ Keeps(u) /\ Keeps(u)' /\ NoOne \notin Pids /\ NoOne \notin Terminals
      /\ cmd[u].child \in {NoOne} \cup Pids /\ cmd[u].proxy \in {NoOne} \cup Pids
  BY NoOneElse DEF Structure, TypeOK, Ownership, Command
\* The processes of a command stay ready, and zombies.
<1>2. ASSUME NEW q \in Pids, Ages(proc[q], proc'[q]), proc'[q].parent = u
      PROVE  (proc[q].ready => proc'[q].ready) /\ (proc[q].state = "zombie" => proc'[q].state = "zombie")
  BY <1>1, <1>2 DEF Ages
<1>3. ASSUME \A q \in Pids : proc'[q].parent = u => Ages(proc[q], proc'[q]), ~HasEnded(u), ~HasEnded(u)'
      PROVE  /\ cmd'[u].child = cmd[u].child /\ cmd[u].child \in Pids /\ proc[cmd[u].child].ready => proc'[cmd[u].child].ready
             /\ cmd'[u].proxy = cmd[u].proxy /\ Gone(cmd[u].proxy) => Gone(cmd[u].proxy)'
  BY <1>1, <1>2, <1>3 DEF Keeps, Gone
<1>4. CASE cmd'[u] = cmd[u] /\ \A q \in Pids : proc'[q].parent = u => Ages(proc[q], proc'[q])
  BY <1>1, <1>3, <1>4 DEF Progress, HasEnded
<1>5. CASE (\E p \in Pids : Listens(p) \/ Dies(p)) \/ OtherStarts \/ UNCHANGED vars
  <2>1. UNCHANGED cmd
    BY <1>5 DEF Listens, Dies, OtherStarts, vars
  <2> QED BY <1>4, <1>5, <2>1, ProcessSteps DEF Kept
<1>6. ASSUME NEW t \in Terminals, t # u, RoxieStep(t) \/ UserStep(t) PROVE Progress(u)'
  <2>1. \A q \in Pids : proc'[q].parent = u => ~Starts(t, q)
    BY <1>6 DEF Starts, Fresh
  <2> QED BY <1>4, <1>6, <2>1, OthersCommand, CommandLeaves DEF Left
<1>7. CASE StartDeploy(u) \/ StartTeardown(u) \/ StartShell(u)
  BY <1>1, <1>7, NewCommandStands DEF Progress
<1>8. CASE HasEnded(u)'
  BY <1>8 DEF Progress, HasEnded
<1>9. CASE (RoxieStep(u) \/ ExitSubshell(u)) /\ ~HasEnded(u)'
  <2>1. ~HasEnded(u)
    BY <1>9 DEF HasEnded, RoxieStep, StopDetachedPortForward, DeleteCentralResources, DeployCentral,
        FindFreeLocalPort, StartKubectl, WaitTCPReady, WriteEnvrc, TryStartHAProxy, ExitSubshell, WaitForHAProxy,
        Stop, WaitForForward
  <2>2. \A q \in Pids : Ages(proc[q], proc'[q]) \/ Starts(u, q)
    BY <1>9, CommandLeaves DEF Left, UserStep
  <2>3. ASSUME cmd[u].pc \notin {"start", "haproxy"}
        PROVE  /\ cmd'[u].child = cmd[u].child /\ cmd[u].child \in Pids /\ proc[cmd[u].child].ready => proc'[cmd[u].child].ready
               /\ cmd'[u].proxy = cmd[u].proxy /\ Gone(cmd[u].proxy) => Gone(cmd[u].proxy)'
    BY <1>3, <1>9, <2>1, <2>2, <2>3 DEF Starts
  <2>4. CASE StopDetachedPortForward(u) \/ DeleteCentralResources(u) \/ DeployCentral(u) \/ FindFreeLocalPort(u) \/ StartKubectl(u)
    <3>1. cmd'[u].pc \in {"teardown", "central", "find", "start", "wait", "ended", "failed"} 
          \/ (cmd'[u].pc \in {"envrc", "haproxy"} /\ cmd'[u].child = cmd[u].child /\ cmd[u].pc = "central")
      BY <1>1, <2>4, CommandSteps DEF Moves
    <3> QED BY <1>1, <3>1 DEF Progress, Stands
  <2>5. CASE WaitTCPReady(u)
    <3>1. cmd'[u].child = cmd[u].child /\ cmd[u].child \in Pids /\ cmd[u].pc = "wait" /\ cmd'[u].pc \in {"envrc", "haproxy"}
      BY <1>1, <1>9, <2>5, CommandSteps DEF Moves, Stands, HasEnded
    <3>2. TCPReady(u)
      <4>1. Goto(u, "failed") => cmd'[u].pc = "failed"
        BY <1>1 DEF Goto
      <4> QED BY <2>5, <3>1, <4>1 DEF WaitTCPReady, Ends
    <3>3. proc' = [proc EXCEPT ![cmd[u].child].ready = TRUE]
      BY <2>5, <3>2 DEF WaitTCPReady
    <3>4. proc'[cmd[u].child].ready
      BY <1>1, <3>1, <3>3 DEF Process
    <3> QED BY <3>1, <3>4 DEF Progress
  <2>6. CASE TryStartHAProxy(u)
    <3>1. cmd[u].pc = "haproxy" /\ cmd'[u].pc = "serving" /\ cmd'[u].child = cmd[u].child
      BY <1>1, <2>6, CommandSteps DEF Moves
    <3>2. CASE cmd[u].child = NoOne
      BY <1>1, <3>1, <3>2 DEF Progress
    <3>3. CASE cmd[u].child \in Pids
      <4>1. proc[cmd[u].child].ready /\ proc[cmd[u].child].kind = "kubectl" /\ proc[cmd[u].child].parent = u
        BY <1>1, <2>1, <3>1, <3>3 DEF Progress, Keeps
      <4>2. ~Starts(u, cmd[u].child)
        BY <4>1 DEF Starts, IsUnused
      <4>3. proc'[cmd[u].child].parent = u
        BY <1>1, <1>9, <3>1, <3>3 DEF Keeps
      <4> QED BY <1>2, <2>2, <3>1, <3>3, <4>1, <4>2, <4>3 DEF Progress
    <3> QED BY <1>1, <3>2, <3>3
  <2>7. CASE ExitSubshell(u) \/ Stop(u)
    BY <1>1, <2>3, <2>7, CommandSteps DEF Moves, Progress
  <2>8. CASE WaitForHAProxy(u)
    <3>1. cmd[u].pc = "waitProxy" /\ cmd'[u].pc = "stopForward" /\ cmd'[u].child = cmd[u].child /\ cmd'[u].proxy = cmd[u].proxy
      BY <1>1, <1>9, <2>8, CommandSteps DEF Moves, HasEnded
    <3>2. PICK P \in WaitedFor(cmd[u].proxy) : proc' = P
      <4>1. ~Goto(u, "ended")
        <5>1. Goto(u, "ended") => cmd'[u].pc = "ended"
          BY <1>1 DEF Goto
        <5> QED BY <3>1, <5>1
      <4> QED BY <2>8, <4>1 DEF WaitForHAProxy, Ends
    <3>3. Gone(cmd[u].proxy)'
      <4>1. CASE Gone(cmd[u].proxy)
        BY <2>3, <3>1, <4>1
      <4>2. CASE ~Gone(cmd[u].proxy)
        <5>1. cmd[u].proxy \in Pids /\ proc[cmd[u].proxy].parent = u /\ proc' = Dead(proc, cmd[u].proxy)
          BY <1>1, <2>1, <3>2, <4>2 DEF Gone, WaitedFor, Keeps
        <5>2. proc'[cmd[u].proxy] = [proc[cmd[u].proxy] EXCEPT !.state = "zombie", !.port = -1]
          BY <1>1, <5>1 DEF Dead
        <5>3. proc[cmd[u].proxy] \in Process
          BY <1>1, <5>1
        <5>4. proc'[cmd[u].proxy].state = "zombie"
          BY <5>2, <5>3 DEF Process
        <5> QED BY <3>1, <5>4 DEF Gone
      <4> QED BY <4>1, <4>2
    <3> QED BY <1>1, <2>3, <3>1, <3>3 DEF Progress
  <2>9. ~WriteEnvrc(u) /\ ~WaitForForward(u)
    BY <1>1, <1>9, CommandSteps DEF Moves, HasEnded
  <2> QED BY <1>9, <2>4, <2>5, <2>6, <2>7, <2>8, <2>9 DEF RoxieStep
<1>10. Killed(u) => HasEnded(u)'
  BY <1>1, CommandSteps DEF Moves, HasEnded
<1> QED BY <1>5, <1>6, <1>7, <1>8, <1>9, <1>10 DEF Next, UserStep

\* No process that belongs to nobody is one that a shell or a subshell or a failed start should have ended.
Harmless(q) == kills = 0 /\ proc[q].parent = NoOne =>
    /\ ~(IsRunning(q, "kubectl") /\ proc[q].by = "shell" /\ ~proc[q].detached)
    /\ ~IsRunning(q, "haproxy")
    /\ IsRunning(q, "kubectl") /\ ~proc[q].ready => proc[q].detached /\ proc[q].termed

\* What is left behind, process by process.
LEMMA HarmlessParts == ShellLeavesNothing /\ FailedStartLeavesNothing <=> \A q \in Pids : Harmless(q)
BY DEF ShellLeavesNothing, FailedStartLeavesNothing, Harmless, IsOrphan

\* What is left of a process at the end of its command.
LEMMA AtTheEnd ==
    ASSUME NEW t \in Terminals, NEW P \in [Pids -> Process], NEW how, Ends(t, P, how), NEW q \in Pids
    PROVE  /\ P[q].state = "zombie" /\ P[q].parent = t => proc'[q] = NoProcess
           /\ P[q] = NoProcess => proc'[q] = NoProcess
           /\ P[q].parent = t => \/ proc'[q] = NoProcess
                                 \/ /\ proc'[q].kind = P[q].kind /\ proc'[q].by = P[q].by
                                    /\ proc'[q].detached = P[q].detached /\ proc'[q].termed = P[q].termed
                                    /\ proc'[q].ready = P[q].ready
<1>1. P[q] \in Process /\ NoProcess.parent # t
  BY NoOneElse, NoProcessIs
<1>2. proc'[q] = IF P[q].parent # t THEN P[q]
                 ELSE IF P[q].state = "zombie" THEN NoProcess ELSE [P[q] EXCEPT !.parent = NoOne]
  BY DEF Ends, Orphaned
<1>3. CASE P[q].parent = t /\ P[q].state # "zombie"
  <2>1. proc'[q] = [P[q] EXCEPT !.parent = NoOne]
    BY <1>2, <1>3
  <2> QED BY <1>1, <1>3, <2>1 DEF Process
<1> QED BY <1>1, <1>2, <1>3

\* A process whose end has been waited for is a zombie.
LEMMA WaitedForGone ==
    ASSUME ProcType, NEW p \in Pids, proc[p].parent # NoOne, NEW P \in WaitedFor(p)
    PROVE  P[p].state = "zombie" /\ P[p].parent = proc[p].parent
<1>1. CASE Gone(p)
  BY <1>1, NoOneElse DEF WaitedFor, Gone
<1>2. CASE ~Gone(p)
  <2>1. P[p] = [proc[p] EXCEPT !.state = "zombie", !.port = -1] /\ proc[p] \in Process
    BY <1>2 DEF WaitedFor, Dead, ProcType
  <2> QED BY <2>1 DEF Process
<1> QED BY <1>1, <1>2

\* A command that ends, and is not killed, leaves only what it should.
LEMMA EndsHarmless ==
    ASSUME Structure, NEW t \in Terminals, Progress(t), RoxieStep(t) \/ UserStep(t), ~Killed(t), HasEnded(t)',
           NEW q \in Pids, proc[q].parent = t
    PROVE  Harmless(q)'
<1>1. /\ cmd \in [Terminals -> Command] /\ ProcType /\ proc \in [Pids -> Process] /\ Stands(t) /\ t # NoOne
      /\ NoOne \notin Pids /\ cmd[t].mode \in {"attached", "detached", "exposed"}
  BY NoOneElse DEF Structure, TypeOK, Command, ProcType
<1>2. /\ ~HasEnded(t) /\ q \in {cmd[t].child, cmd[t].proxy}
      /\ proc[q].kind \in {"kubectl", "haproxy"}
      /\ proc[q].kind = "kubectl" <=> q = cmd[t].child
      /\ proc[q].kind = "haproxy" <=> q = cmd[t].proxy
      /\ proc[q].kind = "kubectl" => proc[q].by = cmd[t].kind /\ proc[q].detached = (cmd[t].mode = "detached")
  BY Owns
<1>3. proc'[q] = NoProcess => Harmless(q)'
  BY NoProcessIs DEF Harmless, IsRunning
<1>4. CASE \/ StartDeploy(t) \/ StartTeardown(t) \/ StartShell(t) \/ DeleteCentralResources(t) \/ DeployCentral(t)
           \/ FindFreeLocalPort(t) \/ StartKubectl(t)
  <2>1. cmd[t].pc \in {"teardown", "central", "find", "start"}
    BY <1>2, <1>4 DEF StartDeploy, StartTeardown, StartShell, MayStart, DeleteCentralResources, DeployCentral,
        FindFreeLocalPort, StartKubectl
  <2>2. cmd[t].child = NoOne /\ cmd[t].proxy = NoOne
    BY <1>1, <1>2, <2>1 DEF Stands
  <2> QED BY <1>1, <1>2, <2>2
<1>5. CASE WaitTCPReady(t)
  <2>1. cmd[t].pc = "wait" /\ cmd[t].proxy = NoOne /\ q = cmd[t].child /\ cmd[t].mode # "exposed"
    BY <1>1, <1>2, <1>5 DEF WaitTCPReady, Stands
  <2>2. Ends(t, KilledAtTimeout(t), "failed")
    <3>1. Goto(t, "haproxy") => cmd'[t].pc = "haproxy"
      BY <1>1 DEF Goto
    <3>2. cmd' = [cmd EXCEPT ![t].pc = "envrc", ![t].pid = cmd[t].child] => cmd'[t].pc = "envrc"
      BY <1>1
    <3> QED BY <1>5, <3>1, <3>2 DEF WaitTCPReady, HasEnded
  <2>3. KilledAtTimeout(t) \in [Pids -> Process]
    BY <1>1, <2>1, TerminatedTyped DEF KilledAtTimeout, ProcType
  <2>4. CASE cmd[t].mode = "attached"
    <3>1. KilledAtTimeout(t)[q] = NoProcess
      BY <1>1, <2>1, <2>4 DEF KilledAtTimeout
    <3>2. proc'[q] = NoProcess
      BY <2>2, <2>3, <3>1, AtTheEnd
    <3> QED BY <1>3, <3>2
  <2>5. CASE cmd[t].mode = "detached"
    <3>1. KilledAtTimeout(t)[q] = [proc[q] EXCEPT !.termed = TRUE] /\ proc[q] \in Process
      BY <1>1, <2>1, <2>5 DEF KilledAtTimeout, Terminated
    <3> DEFINE b == KilledAtTimeout(t)[q]
    <3>2. b.kind = "kubectl" /\ b.detached = TRUE /\ b.termed = TRUE /\ b.parent = t
      BY <1>2, <2>1, <2>5, <3>1 DEF Process
    <3>3. proc'[q] = NoProcess \/ (proc'[q].kind = "kubectl" /\ proc'[q].detached = TRUE /\ proc'[q].termed = TRUE)
      BY <2>2, <2>3, <3>2, AtTheEnd
    <3> QED BY <1>3, <3>3 DEF Harmless, IsRunning
  <2> QED BY <1>1, <2>1, <2>4, <2>5
<1>6. CASE WriteEnvrc(t)
  <2>1. cmd[t].pc = "envrc" /\ cmd[t].proxy = NoOne /\ q = cmd[t].child /\ cmd[t].mode = "detached"
    BY <1>1, <1>2, <1>6 DEF WriteEnvrc, Stands
  <2>2. proc[q].detached /\ proc[q].ready
    BY <1>1, <1>2, <2>1 DEF Progress
  <2>3. Ends(t, proc, "ended")
    BY <1>6 DEF WriteEnvrc
  <2>4. proc'[q] = NoProcess \/ (proc'[q].kind = "kubectl" /\ proc'[q].detached /\ proc'[q].ready)
    BY <1>1, <1>2, <2>1, <2>2, <2>3, AtTheEnd
  <2> QED BY <1>3, <2>4 DEF Harmless, IsRunning
<1>7. CASE WaitForHAProxy(t)
  <2>1. cmd[t].pc = "waitProxy" /\ (cmd[t].kind = "deploy" \/ cmd[t].child = NoOne)
    <3>1. Goto(t, "stopForward") => cmd'[t].pc = "stopForward"
      BY <1>1 DEF Goto
    <3> QED BY <1>1, <1>7, <3>1 DEF WaitForHAProxy, Stands, HasEnded
  <2>2. PICK P \in WaitedFor(cmd[t].proxy) : Ends(t, P, "ended")
    BY <1>7, <2>1 DEF WaitForHAProxy
  <2>3. cmd[t].proxy \in Pids \cup {NoOne}
    BY <1>1 DEF Command
  <2>4. P \in [Pids -> Process]
    BY <1>1, <2>2, <2>3, DeadTyped DEF WaitedFor, Gone
  <2>5. CASE q = cmd[t].proxy
    <3>1. P[q].state = "zombie" /\ P[q].parent = t
      BY <1>1, <2>2, <2>5, WaitedForGone
    <3> QED BY <1>3, <2>2, <2>4, <3>1, AtTheEnd
  <2>6. CASE q = cmd[t].child
    <3>1. proc[q].kind = "kubectl" /\ proc[q].by = "deploy" /\ proc[q].ready
      BY <1>1, <1>2, <2>1, <2>6 DEF Progress
    <3>2. Kept(proc[q], P[q])
      BY <1>1, <2>2, <2>3, WaitedForKept
    <3>3. P[q].parent = t /\ P[q].kind = "kubectl" /\ P[q].by = "deploy" /\ P[q].ready
      BY <1>1, <3>1, <3>2 DEF Kept, Ages
    <3>4. proc'[q] = NoProcess \/ (proc'[q].kind = "kubectl" /\ proc'[q].by = "deploy" /\ proc'[q].ready)
      BY <2>2, <2>4, <3>3, AtTheEnd
    <3> QED BY <1>3, <3>4 DEF Harmless, IsRunning
  <2> QED BY <1>2, <2>5, <2>6
<1>8. CASE WaitForForward(t)
  <2>1. cmd[t].pc = "waitForward" /\ cmd[t].child \in Pids /\ Gone(cmd[t].proxy)
    BY <1>1, <1>8 DEF WaitForForward, Stands, Progress
  <2>2. PICK P \in WaitedFor(cmd[t].child) : Ends(t, P, "ended")
    BY <1>8 DEF WaitForForward
  <2>3. P \in [Pids -> Process]
    BY <1>1, <2>1, <2>2, DeadTyped DEF WaitedFor, Gone
  <2>4. P[q].state = "zombie" /\ P[q].parent = t
    <3>1. CASE q = cmd[t].child
      BY <1>1, <2>2, <3>1, WaitedForGone
    <3>2. CASE q = cmd[t].proxy
      <4>1. proc[q].state = "zombie" /\ proc[q].kind = "haproxy"
        BY <1>1, <1>2, <2>1, <3>2 DEF Gone
      <4>2. Kept(proc[q], P[q])
        BY <1>1, <2>1, <2>2, WaitedForKept
      <4> QED BY <1>1, <4>1, <4>2 DEF Kept, Ages
    <3> QED BY <1>2, <3>1, <3>2
  <2> QED BY <1>3, <2>2, <2>3, <2>4, AtTheEnd
<1>9. ~(StopDetachedPortForward(t) \/ ExitSubshell(t) \/ Stop(t) \/ TryStartHAProxy(t))
  BY <1>1, CommandSteps DEF Moves, HasEnded
<1> QED BY <1>4, <1>5, <1>6, <1>7, <1>8, <1>9 DEF RoxieStep, UserStep

\* Nothing is left behind that was not before.
LEMMA TidyStep ==
    ASSUME Structure, Structure', Tidy, [Next]_vars
    PROVE  Tidy'
<1>1. kills \in Nat /\ kills' \in {kills, kills + 1} /\ (kills' = kills \/ \E t \in Terminals : Killed(t))
  <2>1. kills \in Nat
    BY Budgets DEF Structure, TypeOK
  <2> QED BY <2>1 DEF Next, RoxieStep, UserStep, vars, StartDeploy, StartTeardown, StartShell, StopDetachedPortForward,
        DeleteCentralResources, DeployCentral, FindFreeLocalPort, StartKubectl, WaitTCPReady, WriteEnvrc,
        TryStartHAProxy, ExitSubshell, Killed, WaitForHAProxy, Stop, WaitForForward, Listens, Dies, OtherStarts
<1>2. \A u \in Terminals : Progress(u)'
  BY ProgressStep DEF Tidy
<1>3. ASSUME NEW q \in Pids PROVE Harmless(q)'
  <2> SUFFICES ASSUME kills' = 0 PROVE Harmless(q)'
    BY DEF Harmless
  <2>1. kills = 0 /\ \A t \in Terminals : ~Killed(t)
    BY <1>1 DEF Killed
  <2>2. Harmless(q)
    BY HarmlessParts DEF Tidy
  <2>3. ASSUME Ages(proc[q], proc'[q]), proc[q].parent = NoOne PROVE Harmless(q)'
    BY <2>1, <2>2, <2>3 DEF Ages, Harmless, IsRunning
  <2>4. ASSUME proc'[q].parent # NoOne PROVE Harmless(q)'
    BY <2>4 DEF Harmless
  <2>5. CASE (\E p \in Pids : Listens(p) \/ Dies(p)) \/ OtherStarts \/ UNCHANGED vars
    BY <2>3, <2>4, <2>5, ProcessSteps DEF Kept
  <2>6. ASSUME NEW t \in Terminals, RoxieStep(t) \/ UserStep(t) PROVE Harmless(q)'
    <3>1. Starts(t, q) => proc'[q].parent # NoOne
      BY NoOneElse DEF Starts, Fresh
    <3>2. CASE Left(proc[q], proc'[q], t)
      <4>1. CASE proc[q].parent = t /\ HasEnded(t)'
        BY <2>1, <2>6, <4>1, EndsHarmless DEF Tidy
      <4>2. CASE proc'[q].parent = proc[q].parent
        BY <2>3, <2>4, <3>2, <4>2 DEF Left
      <4> QED BY <3>2, <4>1, <4>2 DEF Left
    <3> QED BY <2>4, <2>6, <3>1, <3>2, CommandLeaves
  <2> QED BY <2>5, <2>6 DEF Next
<1> QED
  <2>1. (\A q \in Pids : Harmless(q))' <=> (ShellLeavesNothing /\ FailedStartLeavesNothing)'
    BY DEF ShellLeavesNothing, FailedStartLeavesNothing, Harmless, IsOrphan
  <2> QED BY <1>2, <1>3, <2>1 DEF Tidy

----------------------------------------------------------------------------
(* One command at a time *)

\* A command becomes busy only by starting.
LEMMA BusyStep ==
    ASSUME Structure, [Next]_vars, NEW u \in Terminals, Busy(u)'
    PROVE  Busy(u) \/ ((StartDeploy(u) \/ StartTeardown(u) \/ StartShell(u)) /\ MayStart(u))
<1>1. cmd \in [Terminals -> Command]
  BY DEF Structure, TypeOK
<1>2. CASE cmd'[u] = cmd[u]
  BY <1>2 DEF Busy
<1>3. CASE StartDeploy(u) \/ StartTeardown(u) \/ StartShell(u)
  BY <1>3 DEF StartDeploy, StartTeardown, StartShell
<1>4. CASE RoxieStep(u)
  BY <1>1, <1>4, CommandSteps DEF RoxieStep, Moves, Busy
<1>5. CASE ExitSubshell(u) \/ Killed(u)
  BY <1>1, <1>5, CommandSteps DEF Moves, Busy
<1>6. CASE (\E p \in Pids : Listens(p) \/ Dies(p)) \/ OtherStarts \/ UNCHANGED vars
  BY <1>2, <1>6 DEF Listens, Dies, OtherStarts, vars
<1>7. CASE \E t \in Terminals : t # u /\ (RoxieStep(t) \/ UserStep(t))
  BY <1>2, <1>7, OthersCommand
<1> QED BY <1>3, <1>4, <1>5, <1>6, <1>7 DEF Next, UserStep

\* As long as roxies do not run together, only one command may start processes.
LEMMA OneAtATimeStep ==
    ASSUME Structure, OneAtATime, [Next]_vars
    PROVE  OneAtATime'
<1> SUFFICES ASSUME ~Together, NEW t \in Terminals, NEW u \in Terminals, Busy(t)', Busy(u)', t # u PROVE FALSE
  BY DEF OneAtATime
<1>1. ~Busy(t) \/ ~Busy(u)
  BY DEF OneAtATime
<1>2. ASSUME NEW a \in {t, u}, NEW b \in {t, u}, a # b, MayStart(a), StartDeploy(a) \/ StartTeardown(a) \/ StartShell(a)
      PROVE  FALSE
  <2>1. ~Busy(b)
    BY <1>2 DEF MayStart, Busy, HasEnded
  <2>2. cmd'[b] = cmd[b]
    BY <1>2, OthersCommand DEF UserStep
  <2> QED BY <2>1, <2>2 DEF Busy
<1> QED BY <1>1, <1>2, BusyStep

\* Nobody begins to listen on the port of a command, except the port-forward that it waits for, unless another
\* program starts.
LEMMA ListenersStep ==
    ASSUME Structure, OneAtATime, [Next]_vars, ~OtherStarts, ~Together, \A p \in Pids : Listens1(p),
           NEW t \in Terminals, Busy(t), NEW port \in Ports, NEW q \in Listeners(port)'
    PROVE  q \in Listeners(port) \/ (cmd[t].pc = "wait" /\ q = cmd[t].child)
<1>1. q \in Pids /\ proc'[q].state = "listening" /\ proc'[q].port = port
  BY DEF Listeners
<1>2. Silent(proc[q], proc'[q]) => q \in Listeners(port)
  BY <1>1 DEF Silent, Listeners
<1>3. CASE Listens(q) /\ proc[q].state = "starting" /\ proc'[q].kind = proc[q].kind /\ proc'[q].port = proc[q].port
  <2>1. proc[q].kind = "kubectl"
    BY <1>1, <1>3, NoProcessTyped DEF Listens, Structure, Served
  <2>2. proc[q].parent \in Terminals /\ cmd[proc[q].parent].pc = "wait"
    BY <1>1, <1>3, <2>1 DEF Listens, Listens1
  <2>3. proc[q].parent = t
    BY <2>2 DEF OneAtATime, Busy
  <2> QED BY <1>1, <2>1, <2>2, <2>3, Owns
<1>4. ASSUME NEW u \in Terminals, RoxieStep(u) \/ UserStep(u) PROVE Silent(proc[q], proc'[q])
  BY <1>1, <1>4, CommandLeaves DEF Starts, Fresh
<1> QED BY <1>1, <1>2, <1>3, <1>4, ProcessSteps DEF Next

\* The endpoint stays the command's own.
LEMMA UndisturbedStep ==
    ASSUME Structure, Structure', OneAtATime, Undisturbed, [Next]_vars
    PROVE  Undisturbed'
<1> SUFFICES ASSUME ~Together, kills' = 0, others' = 0
             PROVE  /\ \A t \in Terminals : PortIsFree(t)'
                    /\ \A p \in Pids : Listens1(p)'
                    /\ EndpointIsMine'
  BY DEF Undisturbed
<1>0. others = 0 /\ ~OtherStarts
  <2>1. others \in Nat
    BY Budgets DEF Structure, TypeOK
  <2>2. others' = others \/ (OtherStarts /\ others' = others + 1)
    BY DEF Next, RoxieStep, UserStep, vars, StartDeploy, StartTeardown, StartShell, StopDetachedPortForward,
        DeleteCentralResources, DeployCentral, FindFreeLocalPort, StartKubectl, WaitTCPReady, WriteEnvrc,
        TryStartHAProxy, ExitSubshell, Killed, WaitForHAProxy, Stop, WaitForForward, Listens, Dies, OtherStarts
  <2>3. OtherStarts => others' = others + 1
    BY DEF OtherStarts
  <2> QED BY <2>1, <2>2, <2>3
<1>1. kills = 0 /\ \A t \in Terminals : ~Killed(t)
  <2>1. kills \in Nat
    BY Budgets DEF Structure, TypeOK
  <2>2. kills' \in {kills, kills + 1} /\ \A t \in Terminals : Killed(t) => kills' = kills + 1
    BY DEF Next, RoxieStep, UserStep, vars, StartDeploy, StartTeardown, StartShell, StopDetachedPortForward,
        DeleteCentralResources, DeployCentral, FindFreeLocalPort, StartKubectl, WaitTCPReady, WriteEnvrc,
        TryStartHAProxy, ExitSubshell, Killed, WaitForHAProxy, Stop, WaitForForward, Listens, Dies, OtherStarts
  <2> QED BY <2>1, <2>2
<1>2. /\ \A t \in Terminals : PortIsFree(t)
      /\ \A p \in Pids : Listens1(p)
      /\ EndpointIsMine
  BY <1>0, <1>1 DEF Undisturbed
<1>3. cmd \in [Terminals -> Command] /\ proc \in [Pids -> Process]
  BY DEF Structure, TypeOK
\* The port that t has found.
<1> DEFINE Mine(t) == /\ cmd[t].pc = "start" => Listeners(cmd[t].port) = {}
                      /\ cmd[t].pc = "wait" => Listeners(cmd[t].port) \subseteq {cmd[t].child}
                      /\ cmd[t].pc \in {"haproxy", "envrc"} /\ cmd[t].mode # "exposed"
                           => Listeners(cmd[t].port) \subseteq {cmd[t].child}
<1>4. ASSUME NEW t \in Terminals PROVE Mine(t)'
  <2> DEFINE Has == cmd[t].pc \in {"start", "wait"} \/ (cmd[t].pc \in {"haproxy", "envrc"} /\ cmd[t].mode # "exposed")
  <2>1. Has => cmd[t].port \in Ports /\ Busy(t)
    <3>1. cmd[t].mode \in {"attached", "detached", "exposed"}
      BY <1>3 DEF Command
    <3> QED BY <3>1 DEF Structure, Stands, Busy
  <2>2. Has => Listeners(cmd[t].port)' \subseteq
               Listeners(cmd[t].port) \cup (IF cmd[t].pc = "wait" THEN {cmd[t].child} ELSE {}) \/ cmd'[t].port # cmd[t].port
    BY <1>0, <1>2, <2>1, ListenersStep
  <2>3. CASE cmd'[t] = cmd[t]
    BY <1>2, <2>2, <2>3 DEF PortIsFree, EndpointIsMine
  <2>4. CASE StartDeploy(t) \/ StartTeardown(t) \/ StartShell(t)
    BY <1>3, <2>4, NewCommandStands
  <2>5. CASE FindFreeLocalPort(t)
    <3>1. CASE cmd'[t].pc = "failed"
      BY <3>1
    <3>2. ASSUME NEW port \in Ports, FreePort(port), cmd' = [cmd EXCEPT ![t].pc = "start", ![t].port = port], UNCHANGED proc
          PROVE  Mine(t)'
      <4>1. cmd'[t].pc = "start" /\ cmd'[t].port = port
        BY <1>3, <3>2 DEF Command
      <4> QED BY <3>2, <4>1 DEF FreePort, Listeners
    <3>3. Ends(t, proc, "failed") => cmd'[t].pc = "failed"
      BY <1>3 DEF Ends, Goto
    <3> QED BY <2>5, <3>1, <3>2, <3>3 DEF FindFreeLocalPort
  <2>6. CASE StartKubectl(t) \/ WaitTCPReady(t)
    <3>1. cmd'[t].pc = "failed" \/ (cmd'[t].port = cmd[t].port /\ Has
             /\ (cmd[t].pc = "start" \/ (cmd[t].pc = "wait" /\ cmd'[t].child = cmd[t].child)))
      BY <1>3, <2>6, CommandSteps DEF Moves
    <3>2. cmd[t].pc = "start" => cmd'[t].pc \in {"failed", "wait"}
      BY <1>3, <2>6, CommandSteps DEF Moves
    <3>3. cmd[t].pc = "wait" => cmd'[t].pc \in {"failed", "haproxy", "envrc"}
      BY <1>3, <2>6, CommandSteps DEF Moves
    <3> QED BY <1>2, <2>2, <3>1, <3>2, <3>3 DEF PortIsFree
  <2>7. CASE DeployCentral(t)
    BY <1>3, <2>7, CommandSteps DEF Moves
  <2>8. CASE \/ StopDetachedPortForward(t) \/ DeleteCentralResources(t) \/ WriteEnvrc(t) \/ TryStartHAProxy(t)
             \/ ExitSubshell(t) \/ WaitForHAProxy(t) \/ Stop(t) \/ WaitForForward(t)
    BY <1>3, <2>8, CommandSteps DEF Moves
  <2>9. CASE (\E p \in Pids : Listens(p) \/ Dies(p)) \/ OtherStarts \/ UNCHANGED vars
    <3>1. UNCHANGED cmd
      BY <2>9 DEF Listens, Dies, OtherStarts, vars
    <3> QED BY <2>3, <3>1
  <2>10. CASE \E u \in Terminals : t # u /\ (RoxieStep(u) \/ UserStep(u))
    BY <2>3, <2>10, OthersCommand
  <2> QED BY <1>1, <2>4, <2>5, <2>6, <2>7, <2>8, <2>9, <2>10 DEF Next, RoxieStep, UserStep
\* Who may still begin to listen.
<1>5. ASSUME NEW q \in Pids PROVE Listens1(q)'
  <2> SUFFICES ASSUME proc'[q].kind = "kubectl", proc'[q].state = "starting", ~proc'[q].termed
               PROVE  proc'[q].parent \in Terminals /\ cmd'[proc'[q].parent].pc = "wait"
    BY DEF Listens1
  <2>1. ASSUME Ages(proc[q], proc'[q])
        PROVE  /\ proc[q].kind = "kubectl" /\ proc[q].state = "starting"
               /\ proc[q].parent \in Terminals /\ cmd[proc[q].parent].pc = "wait"
    BY <1>2, <2>1 DEF Ages, Listens1
  <2>2. CASE (\E p \in Pids : Listens(p) \/ Dies(p)) \/ OtherStarts \/ UNCHANGED vars
    BY <2>1, <2>2, ProcessSteps DEF Kept
  <2>3. ASSUME NEW t \in Terminals, RoxieStep(t) \/ UserStep(t)
        PROVE  proc'[q].parent \in Terminals /\ cmd'[proc'[q].parent].pc = "wait"
    <3>1. CASE Starts(t, q)
      BY <3>1 DEF Starts, Fresh, Moves
    <3>2. CASE Left(proc[q], proc'[q], t) /\ proc[q].parent # t
      BY <2>1, <2>3, <3>2, OthersCommand DEF Left
    <3>3. CASE Left(proc[q], proc'[q], t) /\ proc[q].parent = t
      <4>1. q = cmd[t].child /\ proc[q].state = "starting" /\ cmd[t].pc = "wait"
        BY <2>1, <3>3, Owns DEF Left
      <4>2. WaitTCPReady(t)
        BY <1>1, <2>3, <4>1 DEF RoxieStep, UserStep, StartDeploy, StartTeardown, StartShell, MayStart, HasEnded,
           StopDetachedPortForward, DeleteCentralResources, DeployCentral, FindFreeLocalPort, StartKubectl,
           WriteEnvrc, TryStartHAProxy, ExitSubshell, WaitForHAProxy, Stop, WaitForForward
      <4>3. ~TCPReady(t)
        <5>1. q \notin Listeners(cmd[t].port)
          BY <4>1 DEF Listeners
        <5> QED BY <1>2, <4>1, <5>1 DEF TCPReady, PortIsFree
      <4>4. Ends(t, KilledAtTimeout(t), "failed")
        BY <4>2, <4>3 DEF WaitTCPReady
      <4>5. KilledAtTimeout(t) \in [Pids -> Process]
        BY <1>3, <4>1, TerminatedTyped DEF KilledAtTimeout, ProcType
      <4>6. CASE cmd[t].mode = "attached"
        <5>1. KilledAtTimeout(t)[q] = NoProcess
          BY <1>3, <4>1, <4>6 DEF KilledAtTimeout
        <5>2. proc'[q] = NoProcess
          BY <4>4, <4>5, <5>1, AtTheEnd
        <5> QED BY <5>2, NoProcessIs
      <4>7. CASE cmd[t].mode # "attached"
        <5>1. KilledAtTimeout(t)[q] = [proc[q] EXCEPT !.termed = TRUE] /\ proc[q] \in Process
          BY <1>3, <4>1, <4>7 DEF KilledAtTimeout, Terminated
        <5> DEFINE b == KilledAtTimeout(t)[q]
        <5>2. b.termed = TRUE /\ b.parent = t
          BY <3>3, <5>1 DEF Process
        <5>3. proc'[q] = NoProcess \/ proc'[q].termed = TRUE
          BY <4>4, <4>5, <5>2, AtTheEnd
        <5> QED BY <5>3, NoProcessIs
      <4> QED BY <4>6, <4>7
    <3> QED BY <2>3, <3>1, <3>2, <3>3, CommandLeaves
  <2> QED BY <2>2, <2>3 DEF Next
<1> QED BY <1>4, <1>5 DEF PortIsFree, EndpointIsMine

\* No port-forward runs that the environment of the terminal names.
Clear(t) == env[t] # NoOne => ~IsRunning(env[t], "kubectl")

\* What the environment of a terminal names stays stopped during its teardown.
LEMMA StoppedStep ==
    ASSUME Structure, OneAtATime, Stopped, [Next]_vars
    PROVE  Stopped'
<1> SUFFICES ASSUME ~Together, NEW t \in Terminals
             PROVE  /\ cmd'[t].pc = "stop" => cmd'[t].pid = env'[t]
                    /\ cmd'[t].pc = "teardown" => Clear(t)'
  BY DEF Stopped, Clear
<1>1. /\ cmd \in [Terminals -> Command] /\ proc \in [Pids -> Process] /\ ProcType
      /\ env[t] \in {NoOne} \cup Pids /\ cmd[t].pid \in {NoOne} \cup Pids
  BY DEF Structure, TypeOK, Command, ProcType
<1>2. /\ cmd[t].pc = "stop" => cmd[t].pid = env[t]
      /\ cmd[t].pc = "teardown" => Clear(t)
  BY DEF Stopped, Clear
<1>3. env'[t] = env[t] \/ WriteEnvrc(t)
  BY <1>1 DEF Next, RoxieStep, UserStep, vars, StartDeploy, StartTeardown, StartShell, StopDetachedPortForward,
     DeleteCentralResources, DeployCentral, FindFreeLocalPort, StartKubectl, WaitTCPReady, WriteEnvrc, Structure, TypeOK,
     TryStartHAProxy, ExitSubshell, Killed, WaitForHAProxy, Stop, WaitForForward, Listens, Dies, OtherStarts
<1>4. CASE StartDeploy(t) \/ StartTeardown(t) \/ StartShell(t)
  <2>1. env' = env /\ cmd'[t].pc # "teardown" /\ (cmd'[t].pc = "stop" => cmd'[t].pid = env[t])
    BY <1>1, <1>4, NewCommandStands DEF StartDeploy, StartTeardown, StartShell
  <2> QED BY <2>1
<1>5. CASE StopDetachedPortForward(t)
  <2>1. cmd'[t].pc = "teardown" /\ cmd[t].pid = env[t] /\ env' = env
    BY <1>1, <1>2, <1>5, CommandSteps DEF Moves, StopDetachedPortForward
  <2>2. ASSUME env[t] \in Pids PROVE ~(proc'[env[t]].kind = "kubectl" /\ proc'[env[t]].state # "zombie")
    <3>1. CASE IsUnused(env[t]) /\ UNCHANGED proc
      BY <3>1 DEF IsUnused
    <3>2. CASE proc' = Dead(proc, env[t])
      <4>1. proc[env[t]] \in Process
        BY <1>1, <2>2
      <4>2. proc'[env[t]] \in {NoProcess, [proc[env[t]] EXCEPT !.state = "zombie", !.port = -1]}
        BY <1>1, <2>2, <3>2 DEF Dead
      <4>3. proc'[env[t]] = NoProcess \/ proc'[env[t]].state = "zombie"
        BY <4>1, <4>2 DEF Process
      <4> QED BY <4>3, NoProcessIs
    <3> QED BY <1>5, <2>1, <2>2, <3>1, <3>2, NoOneElse DEF StopDetachedPortForward
  <2> QED BY <1>1, <2>1, <2>2 DEF Clear, IsRunning
<1>6. CASE \/ DeleteCentralResources(t) \/ DeployCentral(t) \/ FindFreeLocalPort(t) \/ StartKubectl(t) \/ WaitTCPReady(t)
           \/ WriteEnvrc(t) \/ TryStartHAProxy(t) \/ ExitSubshell(t) \/ Killed(t) \/ WaitForHAProxy(t) \/ Stop(t)
           \/ WaitForForward(t)
  BY <1>1, <1>6, CommandSteps DEF Moves
<1>7. ASSUME cmd'[t] = cmd[t], env'[t] = env[t], \A q \in Pids : Ages(proc[q], proc'[q]) \/ \E u \in Terminals : Starts(u, q) /\ u # t
      PROVE  /\ cmd'[t].pc = "stop" => cmd'[t].pid = env'[t]
             /\ cmd'[t].pc = "teardown" => Clear(t)'
  <2> SUFFICES ASSUME cmd[t].pc = "teardown", env[t] \in Pids
               PROVE  ~(proc'[env[t]].kind = "kubectl" /\ proc'[env[t]].state # "zombie")
    BY <1>1, <1>2, <1>7 DEF Clear, IsRunning
  <2>1. Ages(proc[env[t]], proc'[env[t]])
    BY <1>7 DEF OneAtATime, Busy, Starts
  <2> QED BY <1>2, <2>1, NoOneElse DEF Ages, Clear, IsRunning
<1>8. CASE (\E p \in Pids : Listens(p) \/ Dies(p)) \/ OtherStarts \/ UNCHANGED vars
  <2>1. UNCHANGED <<cmd, env>>
    BY <1>8 DEF Listens, Dies, OtherStarts, vars
  <2>2. \A q \in Pids : Ages(proc[q], proc'[q])
    BY <1>8, ProcessSteps DEF Kept
  <2> QED BY <1>7, <2>1, <2>2
<1>9. ASSUME NEW u \in Terminals, t # u, RoxieStep(u) \/ UserStep(u)
      PROVE  /\ cmd'[t].pc = "stop" => cmd'[t].pid = env'[t]
             /\ cmd'[t].pc = "teardown" => Clear(t)'
  <2>1. cmd'[t] = cmd[t]
    BY <1>9, OthersCommand
  <2>2. \A q \in Pids : Ages(proc[q], proc'[q]) \/ (Starts(u, q) /\ u # t)
    BY <1>9, CommandLeaves DEF Left
  <2>3. CASE env'[t] = env[t]
    BY <1>7, <1>9, <2>1, <2>2, <2>3
  <2>4. WriteEnvrc(t) => cmd'[t] # cmd[t]
    BY <1>1, CommandSteps DEF Moves
  <2> QED BY <1>3, <2>1, <2>3, <2>4
<1> QED BY <1>4, <1>5, <1>6, <1>8, <1>9 DEF Next, RoxieStep, UserStep

----------------------------------------------------------------------------
(* The theorems *)

\* Initially there are no commands, and no processes of any.
LEMMA InitInv == Init => IndInv
<1> SUFFICES ASSUME Init PROVE IndInv
  OBVIOUS
<1>1. /\ \A t \in Terminals : HasEnded(t) /\ cmd[t].pc = "ended" /\ cmd[t].child = NoOne /\ env[t] = NoOne
      /\ \A c \in Clusters : ~central[c].up
      /\ kills = 0
  BY DEF Init, HasEnded
<1>2. ASSUME NEW q \in Pids
      PROVE  proc[q].kind \in {"none", "other"} /\ proc[q].parent = NoOne
  <2>1. proc[q] \in {NoProcess, OtherProgram(1)}
    BY DEF Init
  <2> QED BY <2>1, NoProcessIs, OtherTyped, PreferredPort
<1>3. Structure
  <2>1. \A t \in Terminals : Stands(t) /\ HasCentral(t) /\ Keeps(t)
    BY <1>1 DEF Stands, HasCentral, Keeps
  <2>2. \A q \in Pids : Served(q)
    BY <1>2 DEF Served
  <2>3. \A q \in Pids, t \in Terminals : proc[q].parent # t
    BY <1>2, NoOneElse
  <2> QED BY <1>1, <2>1, <2>2, <2>3, Initially DEF Structure, Installed, Ownership
<1>4. Tidy
  <2>1. \A q \in Pids : Harmless(q)
    BY <1>2 DEF Harmless, IsRunning
  <2> QED BY <1>1, <2>1, HarmlessParts DEF Tidy, Progress
<1>5. OneAtATime /\ Stopped
  BY <1>1 DEF OneAtATime, Busy, Stopped
<1>6. Undisturbed
  BY <1>1, <1>2 DEF Undisturbed, PortIsFree, Listens1, EndpointIsMine
<1> QED BY <1>3, <1>4, <1>5, <1>6 DEF IndInv

\* Each step preserves the invariant, one part after the other.
LEMMA StepInv == IndInv /\ [Next]_vars => IndInv'
BY StructureStep, TidyStep, OneAtATimeStep, UndisturbedStep, StoppedStep DEF IndInv

\* The inductive invariant: who owns which process, how far each command has come, and what it leaves.
THEOREM Invariance == Spec => []IndInv
BY InitInv, StepInv, PTL DEF Spec

\* Type correctness.
THEOREM TypeCorrectness == Spec => []TypeOK
<1>1. IndInv => TypeOK
  BY DEF IndInv, Structure
<1> QED BY <1>1, Invariance, PTL

\* A shell leaves neither its port-forward nor a subshell its HAProxy, even if they do not react to SIGTERM.
THEOREM ShellLeavesNothingCorrect == Spec => []ShellLeavesNothing
<1>1. IndInv => ShellLeavesNothing
  BY DEF IndInv, Tidy
<1> QED BY <1>1, Invariance, PTL

\* Of the port-forwards whose start was given up only detached ones can be left running, after a SIGTERM:
\* an attached one has been killed, also if it did not react to signals.
THEOREM FailedStartLeavesNothingCorrect == Spec => []FailedStartLeavesNothing
<1>1. IndInv => FailedStartLeavesNothing
  BY DEF IndInv, Tidy
<1> QED BY <1>1, Invariance, PTL

\* One command at a time, however many there are: no port-forward of an earlier command, left running or
\* forgotten, and no program that was there before is taken for the one that a command has just started, as long
\* as no command has been killed and no other program has started since.
THEOREM StaleForwardsAreAvoidedCorrect ==
    ASSUME ~Together
    PROVE  Spec => []StaleForwardsAreAvoided
<1>1. IndInv => StaleForwardsAreAvoided
  BY DEF IndInv, Undisturbed, StaleForwardsAreAvoided
<1> QED BY <1>1, Invariance, PTL

\* One command at a time, no call failing: a teardown has stopped the port-forward that its terminal's
\* environment names, or there is none to its Central, because Central has never been there.
THEOREM TeardownFreesPortCorrect ==
    ASSUME ~Together, MaxFaults = 0
    PROVE  Spec => TeardownFreesPort
<1>1. ASSUME IndInv, [Next]_vars, NEW t \in Terminals, cmd'[t] # cmd[t], cmd'[t].kind = "teardown", cmd'[t].pc = "ended",
             env[t] # NoOne
      PROVE  ~(IsRunning(env[t], "kubectl") /\ proc[env[t]].to.cluster = cmd[t].cluster)'
  <2>1. /\ cmd \in [Terminals -> Command] /\ env[t] \in Pids /\ faults = 0 /\ faults' = 0 /\ Stands(t)
        /\ Structure /\ Structure'
    <3>1. faults' \in 0..MaxFaults /\ Structure'
      BY <1>1, StepInv DEF IndInv, Structure, TypeOK
    <3> QED BY <1>1, <3>1 DEF IndInv, Structure, TypeOK
  <2>2. RoxieStep(t) \/ UserStep(t)
    <3>1. ~((\E p \in Pids : Listens(p) \/ Dies(p)) \/ OtherStarts \/ UNCHANGED vars)
      BY <1>1 DEF Listens, Dies, OtherStarts, vars
    <3> QED BY <1>1, <2>1, <3>1, OthersCommand DEF Next
  <2>3. CASE StartTeardown(t)
    <3>1. PICK c \in Clusters :
            /\ ~NamespaceExists(c)
            /\ cmd' = [cmd EXCEPT ![t] = NewCommand(t, "teardown", "attached", c, "ended")]
      <4>1. PICK c \in Clusters, found \in BOOLEAN :
              /\ IF NamespaceExists(c) /\ ~found THEN Fault ELSE found = NamespaceExists(c) /\ UNCHANGED faults
              /\ cmd' = [cmd EXCEPT ![t] = NewCommand(t, "teardown", "attached", c, IF found THEN "stop" ELSE "ended")]
        BY <2>3 DEF StartTeardown
      <4>2. found => cmd'[t].pc = "stop"
        BY <2>1, <4>1 DEF NewCommand
      <4>3. ~found /\ ~Fault
        BY <1>1, <2>1, <4>2 DEF Fault
      <4> QED BY <4>1, <4>3
    <3>2. cmd'[t].cluster = c /\ UNCHANGED <<proc, env, central>>
      BY <2>1, <2>3, <3>1 DEF NewCommand, StartTeardown
    <3>3. ~(IsRunning(env[t], "kubectl") /\ proc[env[t]].to.cluster = c)
      BY <2>1, <3>1 DEF Structure, Served, IsRunning
    <3> QED BY <3>2, <3>3 DEF IsRunning
  <2>4. CASE DeleteCentralResources(t)
    <3>1. ~IsRunning(env[t], "kubectl")
      BY <1>1, <2>4 DEF IndInv, Stopped, DeleteCentralResources
    <3>2. UNCHANGED <<proc, env>>
      BY <2>4 DEF DeleteCentralResources
    <3> QED BY <3>1, <3>2 DEF IsRunning
  <2>5. CASE StartDeploy(t) \/ StartShell(t)
    <3>1. cmd'[t].kind \in {"deploy", "shell"}
      <4>1. CASE StartDeploy(t)
        BY <2>1, <4>1 DEF StartDeploy, NewCommand
      <4>2. CASE StartShell(t)
        BY <2>1, <4>2 DEF StartShell, NewCommand
      <4> QED BY <2>5, <4>1, <4>2
    <3> QED BY <1>1, <3>1
  <2>6. CASE \/ StopDetachedPortForward(t) \/ DeployCentral(t) \/ FindFreeLocalPort(t) \/ StartKubectl(t) \/ WaitTCPReady(t)
             \/ WriteEnvrc(t) \/ TryStartHAProxy(t) \/ ExitSubshell(t) \/ Killed(t) \/ WaitForHAProxy(t) \/ Stop(t)
             \/ WaitForForward(t)
    BY <1>1, <2>1, <2>6, CommandSteps DEF Moves, Stands
  <2> QED BY <2>2, <2>3, <2>4, <2>5, <2>6 DEF RoxieStep, UserStep
<1>2. IndInv /\ [Next]_vars =>
        [\A t \in Terminals :
           cmd'[t] # cmd[t] /\ cmd'[t].kind = "teardown" /\ cmd'[t].pc = "ended" /\ env[t] # NoOne
             => ~(IsRunning(env[t], "kubectl") /\ proc[env[t]].to.cluster = cmd[t].cluster)']_vars
  BY <1>1
<1> QED BY <1>2, Invariance, PTL DEF Spec, TeardownFreesPort
====
