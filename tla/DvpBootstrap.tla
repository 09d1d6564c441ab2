----------------------------- MODULE DvpBootstrap -----------------------------
(***************************************************************************)
(* Bootstrap and Remove of the DVP provider (internal/provisioning/dvp):   *)
(* machines are provisioned, dhctl is run in a container on the setup node *)
(* to install the first master, the setup node is deleted, the other nodes *)
(* join, modules are enabled.  Either command may fail at any call or be   *)
(* killed, and is run again on what is left: the container and the join    *)
(* scripts run on the machines and outlive the process that started them.  *)
(*                                                                         *)
(* The fleet is modelled in VmFleet and the modules in ModuleEnable; here  *)
(* each is one step.  Machines, docker, dhctl and the test cluster are     *)
(* external.                                                               *)
(***************************************************************************)
EXTENDS Naturals, Sequences, FiniteSets

CONSTANTS
    Joiners,        \* the masters but the first, and the workers
    MaxAttempts,    \* joinRetryCount
    MaxMishaps,      \* bound: failing calls, failing remote commands, kills
    MaxBootstraps, MaxRemoves   \* bounds: commands

ASSUME BootstrapAssumption ==
    /\ IsFiniteSet(Joiners) /\ MaxAttempts \in Nat \ {0}
    /\ MaxMishaps \in Nat /\ MaxBootstraps \in Nat /\ MaxRemoves \in Nat
    /\ "setup" \notin Joiners /\ "master" \notin Joiners

Nodes == {"setup", "master"} \cup Joiners

VARIABLES
    place, result,       \* where the command is, and what it will return
    outcome,          \* the last command and what it returned
    conns, cleanups,  \* open SSH connections and tunnels; the cleanup stack
    jpc, tries,     \* the goroutines of joinNodes
    vms, disks,       \* machines and their system disks
    container,        \* the dhctl container on the setup node
    attached,         \* is the docker run of this process the one that made it?
    pulls,            \* docker run commands before the container: "mine", "orphan"
    master,           \* the first master: no kubeconfig, a kubeconfig, healthy
    cluster,          \* how many clusters there have been
    registered,       \* Node objects of the joiners
    joined,           \* the cluster a joiner's kubelet belongs to, or 0
    orphans,          \* join scripts whose session is gone
    overHalf,         \* history: dhctl was started over a kubeconfig
    outlived,         \* history: a docker run went on pulling without its session
    late,             \* history: nodes that a script without a session has joined
    mishaps, bootstraps, removes

procVars == <<place, result, outcome, conns, cleanups, jpc, tries>>
vmVars == <<vms, disks>>
dockerVars == <<container, attached, pulls>>
clusterVars == <<master, cluster, registered, joined, orphans>>
past == <<overHalf, outlived, late>>
counts == <<mishaps, bootstraps, removes>>
bootVars == <<procVars, vmVars, dockerVars, clusterVars, past, counts>>

BootInit ==
    /\ place = "off" /\ result = "ok" /\ outcome = <<"none", "ok">>
    /\ conns = {} /\ cleanups = <<>>
    /\ jpc = [n \in Joiners |-> "none"] /\ tries = [n \in Joiners |-> 0]
    /\ vms = {} /\ disks = {}
    /\ container = "none" /\ attached = FALSE /\ pulls = {}
    /\ master = "clean" /\ cluster = 1
    /\ registered = {} /\ joined = [n \in Joiners |-> 0] /\ orphans = [n \in Joiners |-> 0]
    /\ overHalf = FALSE /\ outlived = FALSE /\ late = {}
    /\ mishaps = 0 /\ bootstraps = 0 /\ removes = 0

-----------------------------------------------------------------------------
(* Connections.                                                            *)

Open(c) == conns' = conns \cup {c}
Close(c) == conns' = conns \ {c}
CloseBoth == conns' = conns \ {"setup", "probe"}
Push(c) == cleanups' = Append(cleanups, c)
Goto(p) == place' = p
Mishap == mishaps < MaxMishaps /\ mishaps' = mishaps + 1 /\ UNCHANGED <<bootstraps, removes>>

\* A return with an error; the deferred cleanups come next.
Return(err) == place' = "unwind" /\ result' = err

\* A docker run whose session ends goes on without it, or dies with it.
DropSession ==
    /\ attached' = FALSE
    /\ \/ "mine" \in pulls /\ pulls' = {"orphan"} /\ outlived' = TRUE
       \/ pulls' = pulls \ {"mine"} /\ UNCHANGED outlived
    /\ UNCHANGED <<overHalf, late>>

\* cleanupStack.run: last in, first out.
Unwind ==
    /\ place = "unwind"
    /\ IF cleanups # <<>>
       THEN /\ Close(cleanups[Len(cleanups)])
            /\ cleanups' = SubSeq(cleanups, 1, Len(cleanups) - 1)
            /\ UNCHANGED <<place, outcome>>
       ELSE /\ place' = "off" /\ outcome' = <<outcome[1], result>>
            /\ UNCHANGED <<conns, cleanups>>
    /\ UNCHANGED <<result, jpc, tries, vmVars, dockerVars, clusterVars, past, counts>>

\* Mutant: an early return without closeExec.
RequestFailsOpen ==
    /\ place \notin {"off", "unwind", "join", "delSetup"} /\ Mishap
    /\ Return("failed")
    /\ DropSession
    /\ UNCHANGED <<conns, outcome, cleanups, jpc, tries, vmVars, container, clusterVars>>

\* A call fails, or a wait times out.  dhctlBootstrap and the docker wait close
\* their connection to the setup node on every way out, deckhouseAlreadyInstalled
\* the one to the first master.
RequestFails ==
    /\ place \notin {"off", "unwind", "join", "delSetup"} /\ Mishap
    /\ CloseBoth
    /\ Return("failed")
    /\ DropSession
    /\ UNCHANGED <<outcome, cleanups, jpc, tries, vmVars, container, clusterVars>>

-----------------------------------------------------------------------------
(* provision.                                                              *)

Bootstrap ==
    /\ place = "off" /\ bootstraps < MaxBootstraps
    /\ Goto("connect") /\ outcome' = <<"bootstrap", "running">>
    /\ bootstraps' = bootstraps + 1
    /\ UNCHANGED <<result, conns, cleanups, jpc, tries, vmVars, dockerVars, clusterVars,
                   past, mishaps, removes>>

proc == <<result, outcome, jpc, tries>>

\* The base cluster is connected to and checked, the namespace made.
ConnectBase ==
    /\ place \in {"connect", "rmConnect"}
    /\ Open("base") /\ Push("base")
    /\ Goto(IF place = "connect" THEN "provision" ELSE "rmVms")
    /\ UNCHANGED <<proc, vmVars, dockerVars, clusterVars, past, counts>>

Provision ==
    /\ place = "provision"
    /\ vms' = Nodes /\ disks' = Nodes
    /\ Goto("docker")
    /\ UNCHANGED <<proc, conns, cleanups, dockerVars, clusterVars, past, counts>>

ProvisionFails ==
    /\ place = "provision" /\ Mishap
    /\ disks' \in {disks \cup D : D \in SUBSET Nodes}
    /\ vms' \in {vms \cup (D \cap disks') : D \in SUBSET Nodes}
    /\ Return("failed")
    /\ UNCHANGED <<outcome, jpc, tries, conns, cleanups, dockerVars, clusterVars, past>>

\* VMExecutor for the setup node, once for the docker wait and once for dhctl.
OpenSetup ==
    /\ place \in {"docker", "dhctl"}
    /\ Open("setup")
    /\ Goto(IF place = "docker" THEN "dockerInfo" ELSE "inspect")
    /\ UNCHANGED <<proc, cleanups, vmVars, dockerVars, clusterVars, past, counts>>

DockerReady ==
    /\ place = "dockerInfo"
    /\ Close("setup") /\ Goto("dhctl")
    /\ UNCHANGED <<proc, cleanups, vmVars, dockerVars, clusterVars, past, counts>>

-----------------------------------------------------------------------------
(* ensureDhctlBootstrapped.                                                *)

dhctlRest == <<proc, cleanups, vmVars, clusterVars, past, counts>>

\* Mutant: a container of a previous run is not looked for.
InspectNot ==
    /\ place = "inspect"
    /\ Goto("probe")
    /\ UNCHANGED <<conns, dockerVars, dhctlRest>>

Inspect ==
    /\ place = "inspect"
    /\ Goto(IF container = "running" THEN "dockerWait" ELSE "probe")
    /\ UNCHANGED <<conns, dockerVars, dhctlRest>>

DockerWait ==
    /\ place = "dockerWait" /\ container # "running"
    /\ Goto("probe")
    /\ UNCHANGED <<conns, dockerVars, dhctlRest>>

\* deckhouseAlreadyInstalled: is there a kubeconfig on the first master?
Probe ==
    /\ place = "probe"
    /\ IF master = "clean" THEN Goto("rm") /\ UNCHANGED conns ELSE Goto("health") /\ Open("probe")
    /\ UNCHANGED <<dockerVars, dhctlRest>>

\* With a kubeconfig it must be healthy; dhctl is not run over it.
Health ==
    /\ place = "health" /\ master = "ready"
    /\ CloseBoth /\ Goto("delSetup")
    /\ UNCHANGED <<dockerVars, dhctlRest>>

HalfBootstrapped ==
    /\ place = "health" /\ master = "half"
    /\ CloseBoth /\ Return("failed")
    /\ UNCHANGED <<outcome, jpc, tries, cleanups, vmVars, dockerVars, clusterVars, past, counts>>

\* Mutant: the container of the failed run keeps its name.
RemoveLeftoverNot ==
    /\ place = "rm"
    /\ Goto("run")
    /\ UNCHANGED <<conns, dockerVars, dhctlRest>>

\* docker rm -f; an error is only logged.
RemoveLeftover ==
    /\ place = "rm"
    /\ Goto("run")
    /\ \/ container' = "none" /\ UNCHANGED counts
       \/ Mishap /\ UNCHANGED container
    /\ UNCHANGED <<proc, conns, cleanups, vmVars, attached, pulls, clusterVars, past>>

DockerRun ==
    /\ place = "run"
    /\ Goto("running") /\ pulls' = pulls \cup {"mine"}
    /\ UNCHANGED <<conns, container, attached, dhctlRest>>

\* docker run has returned: dhctl has ended, or the name was taken.
DhctlReturns ==
    /\ place = "running" /\ "mine" \notin pulls
    /\ attached => container = "exited"
    /\ attached' = FALSE
    /\ Close("setup")
    /\ IF attached /\ master = "ready"
       THEN Goto("delSetup") /\ UNCHANGED result
       ELSE Return("failed")
    /\ UNCHANGED <<outcome, jpc, tries, cleanups, vmVars, container, pulls, clusterVars,
                   past, counts>>

-----------------------------------------------------------------------------
(* The setup node.                                                         *)

\* The image has been pulled; the name of the container is unique.
Pulled(w) ==
    /\ w \in pulls /\ "setup" \in vms
    /\ pulls' = pulls \ {w}
    /\ \/ /\ container = "none"
          /\ container' = "running" /\ attached' = (w = "mine")
          /\ overHalf' = (overHalf \/ master # "clean")
       \/ /\ container # "none"
          /\ UNCHANGED <<container, attached, overHalf>>
    /\ UNCHANGED <<procVars, vmVars, clusterVars, outlived, late, counts>>

Dhctl == container = "running" /\ {"setup", "master"} \subseteq vms

DhctlInstalls ==
    /\ Dhctl /\ master # "ready"
    /\ master' = IF master = "clean" THEN "half" ELSE "ready"
    /\ UNCHANGED <<procVars, vmVars, dockerVars, cluster, registered, joined, orphans, past, counts>>

DhctlExits ==
    /\ Dhctl
    /\ \/ master = "ready" /\ UNCHANGED counts
       \/ master # "ready" /\ Mishap
    /\ container' = "exited"
    /\ UNCHANGED <<procVars, vmVars, attached, pulls, clusterVars, past>>

-----------------------------------------------------------------------------
(* Machines that are deleted.                                              *)

\* What runs on the machine ends with it.
HaltNode(n) ==
    /\ vms' = vms \ {n}
    /\ container' = IF n = "setup" /\ container = "running" THEN "exited" ELSE container
    /\ pulls' = IF n = "setup" THEN {} ELSE pulls
    /\ orphans' = [j \in Joiners |-> IF j = n THEN 0 ELSE orphans[j]]

\* The test cluster's own state is on the disk of the first master.
WipeNode(n) ==
    /\ disks' = disks \ {n}
    /\ container' = IF n = "setup" THEN "none" ELSE container
    /\ master' = IF n = "master" THEN "clean" ELSE master
    /\ cluster' = IF n = "master" THEN cluster + 1 ELSE cluster
    /\ registered' = IF n = "master" THEN {} ELSE registered
    /\ joined' = [j \in Joiners |-> IF j = n THEN 0 ELSE joined[j]]

-----------------------------------------------------------------------------
(* installDeckhouse, after dhctl.                                          *)

\* deleteSetupNode: the machine, then its disk; errors are swallowed.
DeleteSetup ==
    /\ place = "delSetup" /\ Goto("masterConn")
    /\ \/ /\ vms' = vms \ {"setup"} /\ disks' = disks \ {"setup"}
          /\ container' = "none" /\ pulls' = {}
          /\ UNCHANGED counts
       \/ /\ Mishap
          /\ \/ UNCHANGED <<vmVars, container, pulls>>
             \/ /\ vms' = vms \ {"setup"} /\ UNCHANGED disks
                /\ container' = IF container = "running" THEN "exited" ELSE container
                /\ pulls' = {}
    /\ UNCHANGED <<proc, conns, cleanups, attached, clusterVars, past>>

ConnectMaster ==
    /\ place = "masterConn"
    /\ Open("master") /\ Push("master")
    /\ Goto("install")
    /\ UNCHANGED <<proc, vmVars, dockerVars, clusterVars, past, counts>>

\* Node group, bootstrap secrets, health of the control plane.
Install ==
    /\ place = "install" /\ master = "ready"
    /\ Goto("list")
    /\ UNCHANGED <<proc, conns, cleanups, vmVars, dockerVars, clusterVars, past, counts>>

\* Mutant: nodes that are registered are joined again.
ListNodesAll ==
    /\ place = "list" /\ Goto("join")
    /\ jpc' = [n \in Joiners |-> "connect"] /\ tries' = [n \in Joiners |-> 1]
    /\ UNCHANGED <<result, outcome, conns, cleanups, vmVars, dockerVars, clusterVars, past, counts>>

\* Registered nodes are not joined again.
ListNodes ==
    /\ place = "list" /\ Goto("join")
    /\ jpc' = [n \in Joiners |-> IF n \in registered THEN "ok" ELSE "connect"]
    /\ tries' = [n \in Joiners |-> 1]
    /\ UNCHANGED <<result, outcome, conns, cleanups, vmVars, dockerVars, clusterVars, past, counts>>

joinRest == <<place, result, outcome, cleanups, vmVars, dockerVars, master, cluster, overHalf, outlived>>

JoinConnect(n) ==
    /\ place = "join" /\ jpc[n] = "connect"
    /\ Open(n) /\ jpc' = [jpc EXCEPT ![n] = "exec"]
    /\ UNCHANGED <<joinRest, tries, registered, joined, orphans, late, counts>>

JoinExec(n) ==
    /\ place = "join" /\ jpc[n] = "exec"
    /\ jpc' = [jpc EXCEPT ![n] = "script"]
    /\ UNCHANGED <<joinRest, conns, tries, registered, joined, orphans, late, counts>>

\* The script makes the node a member of the cluster.
ScriptJoins(n) ==
    /\ (place = "join" /\ jpc[n] = "script") \/ orphans[n] > 0
    /\ n \in vms /\ "master" \in vms /\ master = "ready"
    /\ registered' = registered \cup {n} /\ joined' = [joined EXCEPT ![n] = cluster]
    /\ late' = IF orphans[n] > 0 THEN late \cup {n} ELSE late
    /\ UNCHANGED <<joinRest, jpc, conns, tries, orphans, counts>>

JoinOk(n) ==
    /\ place = "join" /\ jpc[n] = "script" /\ joined[n] = cluster
    /\ jpc' = [jpc EXCEPT ![n] = "ok"] /\ Close(n)
    /\ UNCHANGED <<joinRest, tries, registered, joined, orphans, late, counts>>

\* The script has failed with a marker of a transient error in its output.
JoinRetry(n) ==
    /\ place = "join" /\ jpc[n] = "script" /\ tries[n] < MaxAttempts /\ Mishap
    /\ jpc' = [jpc EXCEPT ![n] = "exec"] /\ tries' = [tries EXCEPT ![n] = @ + 1]
    /\ UNCHANGED <<joinRest, conns, registered, joined, orphans, late>>

\* A script whose session is lost may go on.
GiveUp(n) ==
    /\ jpc[n] \in {"connect", "exec", "script"}
    /\ orphans' \in {orphans} \cup
          (IF jpc[n] = "script" THEN {[orphans EXCEPT ![n] = 1]} ELSE {})
    /\ jpc' = [jpc EXCEPT ![n] = "failed"] /\ Close(n)
    /\ UNCHANGED <<joinRest, tries, registered, joined, late>>

JoinFails(n) == place = "join" /\ Mishap /\ GiveUp(n)

JoinCancelled(n) ==
    /\ place = "join" /\ \E j \in Joiners : jpc[j] = "failed"
    /\ GiveUp(n) /\ UNCHANGED counts

OrphanEnds(n) ==
    /\ orphans[n] > 0
    /\ orphans' = [orphans EXCEPT ![n] = 0]
    /\ UNCHANGED <<joinRest, jpc, conns, tries, registered, joined, late, counts>>

Joined ==
    /\ place = "join" /\ \A n \in Joiners : jpc[n] \in {"ok", "failed"}
    /\ IF \E n \in Joiners : jpc[n] = "failed"
       THEN Return("failed")
       ELSE Goto("ready") /\ UNCHANGED result
    /\ UNCHANGED <<outcome, conns, cleanups, jpc, tries, vmVars, dockerVars, clusterVars, past, counts>>

ReadyNodes == {n \in registered : joined[n] = cluster /\ n \in vms} \cup
              (IF master = "ready" THEN {"master"} ELSE {})

\* Mutant: the first master is not counted among the wanted nodes.
EnoughNodesOff == Cardinality(ReadyNodes) >= Cardinality(Joiners)

EnoughNodes == Cardinality(ReadyNodes) >= Cardinality(Joiners) + 1

\* waitNodesReady counts; it ends by its timeout otherwise.
NodesReady ==
    /\ place = "ready"
    /\ IF EnoughNodes THEN Goto("modules") /\ UNCHANGED result ELSE Return("failed")
    /\ UNCHANGED <<outcome, conns, cleanups, jpc, tries, vmVars, dockerVars, clusterVars, past, counts>>

EnableModules ==
    /\ place = "modules"
    /\ Return("ok")
    /\ UNCHANGED <<outcome, conns, cleanups, jpc, tries, vmVars, dockerVars, clusterVars, past, counts>>

-----------------------------------------------------------------------------
(* Remove, and the end of a process.                                       *)

Remove ==
    /\ place = "off" /\ removes < MaxRemoves
    /\ Goto("rmConnect") /\ outcome' = <<"remove", "running">>
    /\ removes' = removes + 1
    /\ UNCHANGED <<result, conns, cleanups, jpc, tries, vmVars, dockerVars, clusterVars,
                   past, mishaps, bootstraps>>

\* Teardown: all machines, then all disks.
TeardownVm(n) ==
    /\ place = "rmVms" /\ n \in vms
    /\ HaltNode(n)
    /\ UNCHANGED <<procVars, disks, attached, master, cluster, registered, joined, past, counts>>

TeardownDisk(n) ==
    /\ place = "rmVms" /\ vms = {} /\ n \in disks
    /\ WipeNode(n)
    /\ UNCHANGED <<procVars, vms, attached, pulls, orphans, past, counts>>

\* The namespace is deleted last.
Removed ==
    /\ place = "rmVms" /\ vms = {} /\ disks = {}
    /\ Return("ok")
    /\ UNCHANGED <<outcome, conns, cleanups, jpc, tries, vmVars, dockerVars, clusterVars, past, counts>>

\* The job is cancelled: no deferred function runs.
Killed ==
    /\ place # "off" /\ Mishap
    /\ place' = "off" /\ outcome' = <<outcome[1], "killed">>
    /\ conns' = {} /\ cleanups' = <<>>
    /\ jpc' = [n \in Joiners |-> "none"]
    /\ orphans' \in {orphans, [n \in Joiners |-> IF jpc[n] = "script" THEN 1 ELSE orphans[n]]}
    /\ DropSession
    /\ UNCHANGED <<result, tries, vmVars, container, master, cluster, registered, joined>>

Over == place = "off" /\ bootstraps = MaxBootstraps /\ UNCHANGED bootVars

Dhctls == OpenSetup \/ DockerReady \/ Inspect \/ DockerWait \/ Probe \/ Health \/ HalfBootstrapped
          \/ RemoveLeftover \/ DockerRun \/ DhctlReturns
Installs == DeleteSetup \/ ConnectMaster \/ Install \/ ListNodes \/ Joined \/ NodesReady \/ EnableModules
Joining(n) == JoinConnect(n) \/ JoinExec(n) \/ JoinOk(n) \/ JoinRetry(n) \/ JoinFails(n) \/ JoinCancelled(n)

Process ==
    \/ Unwind \/ ConnectBase \/ Provision \/ ProvisionFails \/ Dhctls \/ Installs \/ RequestFails
    \/ Removed \/ \E n \in Nodes : TeardownVm(n) \/ TeardownDisk(n)

Remote ==
    \/ \E w \in {"mine", "orphan"} : Pulled(w)
    \/ DhctlInstalls \/ DhctlExits

BootNext ==
    \/ Bootstrap \/ Remove \/ Killed \/ Process \/ Remote \/ Over
    \/ \E n \in Joiners : Joining(n) \/ ScriptJoins(n) \/ OrphanEnds(n)

BootSpec == BootInit /\ [][BootNext]_bootVars

\* The process goes on, and so do docker, dhctl and the join scripts; whoever
\* runs Bootstrap runs it again when it has not succeeded.
BootFairSpec ==
    /\ BootSpec /\ WF_bootVars(Process) /\ WF_bootVars(Remote)
    /\ \A n \in Joiners : WF_bootVars(Joining(n)) /\ WF_bootVars(ScriptJoins(n))
    /\ WF_bootVars(outcome # <<"bootstrap", "ok">> /\ Bootstrap)

-----------------------------------------------------------------------------
(* Properties.                                                             *)

\* Whatever fails, a command that has returned has closed every connection and
\* tunnel it opened (cleanupStack, and the explicit closeExec calls).
NothingLeaks == place = "off" => conns = {} /\ cleanups = <<>>

\* "dhctl must not run over a half-bootstrapped master" (dhctl_test.go): across
\* kills and re-runs dhctl starts only on a master without a kubeconfig, unless an
\* earlier docker run was still pulling its image when its session ended.  And the
\* setup node serves it to the end ("Its only job is to run dhctl bootstrap; once
\* the first master is up it is dead weight"): Bootstrap gives it up only when the
\* first master is installed, be it by this run or by one before it.
DhctlRunsUndisturbed ==
    /\ overHalf => outlived
    /\ place \in {"delSetup", "masterConn", "install", "list", "join", "ready", "modules"} =>
          master = "ready" /\ (container = "running" => outlived)

\* Bootstrap succeeds only when every node of the definition is a Ready member of
\* the cluster of the present first master.
BootstrapDelivers ==
    outcome = <<"bootstrap", "ok">> /\ place = "off" =>
        /\ master = "ready" /\ Joiners \subseteq registered
        /\ \A n \in Joiners : joined[n] = cluster

\* Every command returns, and Bootstrap that is run again after each failure
\* succeeds at last, unless dhctl was interrupted half-way and the machines have to
\* be recreated, or was started twice.
RerunsConverge ==
    /\ (place # "off") ~> (place = "off")
    /\ \/ <>(outcome = <<"bootstrap", "ok">>) \/ <>(outcome[1] = "remove")
       \/ <>[](master = "half") \/ <>outlived

\* "re-running the bashible bootstrap script on a joined node is not guaranteed to
\* be safe" (joinNodes): it happens only when joinNode tries a node again, or when
\* a script that lost its session has joined the node meanwhile.
JoinsFreshNodes ==
    [][\A n \in Joiners : jpc[n] = "exec" /\ jpc'[n] = "script" /\ joined[n] = cluster =>
           tries[n] > 1 \/ n \in late]_bootVars

===============================================================================
