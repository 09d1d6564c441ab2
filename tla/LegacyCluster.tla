---------------------------- MODULE LegacyCluster ----------------------------
(***************************************************************************)
(* The legacy cluster lifecycle, pkg/cluster: a test process gets itself a *)
(* cluster (CreateOrConnectToTestCluster), uses it and cleans up           *)
(* (CleanupTestClusterResources).  By TEST_CLUSTER_CREATE_MODE the cluster *)
(* is built on machines of a base cluster, possibly resumed from a state   *)
(* file, is one that exists and is guarded by a ConfigMap lock, or comes   *)
(* from Deckhouse Commander.                                               *)
(*                                                                         *)
(* Processes run side by side and one after the other, on one host; a call *)
(* may fail, a context may end, and a process may be killed.               *)
(***************************************************************************)
EXTENDS LegacyVms

CONSTANTS
    Envs,       \* settings: kind, policy, cleanup, modules, create, alone
    MaxFaults   \* bound: calls that fail, contexts that end, kills

VARIABLES
    env,        \* the settings of this behaviour
    proc,       \* where each process is in its program
    held,       \* the connections and remote files a process has
    cluster,    \* the cluster a run has built on its machines
    state,      \* run in cluster-state.json, 0: no file
    config,     \* run that wrote config.yml, 0: no file
    lock,       \* holder of each cluster's lock, 0: no ConfigMap
    commander,  \* clusters in Commander
    runs,       \* runs so far
    faults,
    past        \* what has happened, for the properties

files == <<state, config>>
vars == <<vmVars, env, proc, held, cluster, files, lock, commander, runs, faults, past>>

---------------------------------------------------------------------------
(* Programs: what a run does, in order.                                    *)

\* Steps 2 to 18 of CreateTestCluster, and the wait for the modules after it.
CreateTestCluster ==
    <<"base", "conflicts", "images", "machines", "running", "gather", "save", "setup", "docker",
      "prepare", "upload", "connYAML", "dhctl", "connect", "nodeGroup", "join", "joined",
      "modules", "ready">>

\* TEST_CLUSTER_RESUME: connect to what the state file names.
Resume == <<"base", "saved", "connect", "ready">>

UseExistingCluster == <<"connect", "lock", "health">>
UseExistingClusterJump == UseExistingCluster \o <<"base">>
connectViaProvider == <<"connect", "lock", "health">>
UseCommanderCluster == <<"find", "created", "connect", "lock", "health">>

CleanupTestCluster == <<"close", "removeSetup", "removeAll", "closeBase">>
CleanupExistingCluster == <<"unlock", "close">>
CleanupCommanderCluster == <<"unlock", "close", "delete">>

CreateOrConnectToTestCluster ==
    [create |-> CreateTestCluster, resume |-> Resume,
     existing |-> UseExistingCluster, jump |-> UseExistingClusterJump,
     provider |-> connectViaProvider, commander |-> UseCommanderCluster]

CleanupTestClusterResources ==
    [create |-> CleanupTestCluster, resume |-> CleanupTestCluster,
     existing |-> CleanupExistingCluster, jump |-> CleanupExistingCluster,
     provider |-> CleanupExistingCluster, commander |-> CleanupCommanderCluster]

Kinds == DOMAIN CreateOrConnectToTestCluster

\* TEST_CLUSTER_CREATE_MODE names one of them; a run resumes by the file it finds.
ASSUME EnvsAssumption == \A e \in Envs : e.kind \in Kinds \ {"resume"} /\ e.modules \in BOOLEAN

Program ==
    [k \in Kinds |-> CreateOrConnectToTestCluster[k] \o <<"use">> \o CleanupTestClusterResources[k]]
Place == [k \in Kinds |-> [s \in Range(Program[k]) |-> CHOOSE i \in DOMAIN Program[k] : Program[k][i] = s]]

---------------------------------------------------------------------------
Idle(p) == proc[p].pc = 0
Stage(p) == IF Idle(p) THEN "idle" ELSE Program[proc[p].kind][proc[p].pc]
Kind(p) == proc[p].kind
Id(p) == proc[p].id
Run(p) == proc[p].run
Cleaning(p) == ~ Idle(p) /\ proc[p].pc > Place[Kind(p)]["use"]

Locking == {"existing", "jump", "provider", "commander"}
\* A Commander cluster is named for its run; the others are one and the same.
ClusterOf(p) == IF Kind(p) = "commander" THEN Run(p) ELSE 0

NoCluster == [config |-> 0, booted |-> FALSE, joined |-> {}, modules |-> FALSE]
NoProc == [kind |-> "create", pc |-> 0, run |-> 0, id |-> 0, sub |-> "get",
           failing |-> FALSE, ended |-> "none", at |-> "idle"]

Init ==
    /\ VmInit
    /\ env \in Envs /\ policy = env.policy
    /\ proc = [p \in Procs |-> NoProc]
    /\ held = [p \in Procs |-> {}]
    /\ cluster = [r \in Runs |-> NoCluster]
    /\ state = 0 /\ config = 0
    /\ lock = [c \in 0 .. MaxRuns |-> 0]
    /\ commander = {}
    /\ runs = 0 /\ faults = 0
    /\ past = [disturbed |-> {}, beside |-> {}, delivered |-> {}, cleaned |-> {},
               lockLost |-> {}, clean |-> {}, resumed |-> {}, kept |-> {}, twice |-> FALSE]

Note(f, r) == past' = [past EXCEPT ![f] = @ \cup {r}]
Fault(p) == faults < MaxFaults /\ faults' = faults + 1 /\ Note("disturbed", Run(p))
NoFault == UNCHANGED <<faults, past>>

Advance(p) == proc' = [proc EXCEPT ![p].pc = @ + 1, ![p].sub = "get"]
Opens(p, S) == held' = [held EXCEPT ![p] = @ \cup S]
Closes(p, S) == held' = [held EXCEPT ![p] = @ \ S]

\* Mutant: the tunnel to the base cluster is forgotten on every error path.
LeftOpenTunnel(p) == IF Stage(p) = "ready" THEN held[p] ELSE held[p] \cap {"baseTunnel", "connYAML"}

\* What the error path of a step does not close: from the connection to the new cluster
\* on nobody stops the tunnel to the base cluster, and the wait for the modules comes
\* after CreateTestCluster has returned.
LeftOpen(p) ==
    IF Stage(p) = "ready" THEN held[p]
    ELSE IF Kind(p) = "create" /\ proc[p].pc >= Place["create"]["connect"] THEN held[p] \cap {"baseTunnel", "connYAML"}
    ELSE {}

Ends(p, how) ==
    proc' = [proc EXCEPT ![p] = [NoProc EXCEPT !.kind = Kind(p), !.run = Run(p), !.id = Id(p),
                                               !.ended = how, !.at = Stage(p)]]

\* Mutant: a failing health check does not release the lock.
FailsLocked(p) == Ends(p, "failed") /\ held' = [held EXCEPT ![p] = LeftOpen(p)]

\* The run fails: the lock it has is released, the connections are closed, and Expect
\* ends the suite without resources to clean up.
Fails(p) ==
    IF Kind(p) \in Locking /\ proc[p].pc > Place[Kind(p)]["lock"]
    THEN /\ proc' = [proc EXCEPT ![p].pc = Place[Kind(p)]["unlock"], ![p].sub = "get", ![p].failing = TRUE]
         /\ UNCHANGED held
    ELSE /\ Ends(p, "failed")
         /\ held' = [held EXCEPT ![p] = LeftOpen(p)]

---------------------------------------------------------------------------
(* A run begins.  With TEST_CLUSTER_RESUME a state file that can be read   *)
(* names the run to go on with.  Where env.alone, runs do not overlap.     *)

Start(p) ==
    /\ Idle(p) /\ runs < MaxRuns
    /\ env.alone => \A q \in Procs : Idle(q)
    /\ runs' = runs + 1
    /\ \E k \in IF env.kind # "create" THEN {env.kind}
                ELSE {"create"} \cup {r \in {"resume"} : state # 0} :
         proc' = [proc EXCEPT ![p] = [NoProc EXCEPT !.kind = k, !.pc = 1, !.run = runs + 1,
                                                    !.id = IF k = "resume" THEN state ELSE runs + 1]]
    /\ held' = [held EXCEPT ![p] = {}]
    /\ LET others == {q \in Procs : ~ Idle(q)}
       IN  past' = [past EXCEPT !.beside = IF others = {} THEN @
                                           ELSE @ \cup {runs + 1} \cup {Run(q) : q \in others}]
    /\ UNCHANGED <<vmVars, env, cluster, files, lock, commander, faults>>

---------------------------------------------------------------------------
(* Steps that only this run sees: connections, and its cluster.            *)

Own == UNCHANGED <<vmVars, env, files, lock, commander, runs>>
Builds(p, f, v) == cluster' = [cluster EXCEPT ![Id(p)][f] = v]
Up(p, n) == vms[Name(Id(p), n)] = "running"

\* What a step needs of the machines, the files and the cluster.
Can(p) ==
    CASE Stage(p) \in {"running", "gather"} -> Running(Id(p))
      [] Stage(p) \in {"setup", "docker"} -> Up(p, Setup)
      [] Stage(p) \in {"upload", "connYAML"} -> config # 0
      [] Stage(p) = "dhctl"   -> Up(p, Setup) /\ Up(p, Head(Masters))
      [] Stage(p) = "connect" /\ Kind(p) \in {"create", "resume"}
                              -> cluster[Id(p)].booted /\ Up(p, Head(Masters))
      [] Stage(p) = "join"    -> \A n \in Range(Workers) : Up(p, n)
      [] Stage(p) = "joined"  -> cluster[Id(p)].joined = Range(Workers)
      [] Stage(p) = "ready"   -> env.modules => cluster[Id(p)].modules
      [] Stage(p) = "find"    -> env.create
      [] OTHER -> TRUE

\* It will never be: the step fails without any call failing.
Hopeless(p) ==
    IF Stage(p) = "running"
    THEN \E n \in Nodes : ~ Up(p, n) /\ images[ImageOf[n]] = "absent"
    ELSE ~ Can(p)

Opening(p, s, S) ==
    /\ Stage(p) = s /\ Can(p)
    /\ Opens(p, S)
    /\ Advance(p) /\ NoFault /\ Own /\ UNCHANGED cluster

Looking(p, s) == Opening(p, s, {})

\* SSH to the cluster, a tunnel to its API, its kubeconfig: the base cluster, and the
\* first master of the test cluster through it.
ConnectToCluster(p) ==
    Opening(p, "base", {"base", "baseTunnel"}) \/ Opening(p, "connect", {"test", "testTunnel"})

\* Steps 7 to 9: SSH answers on the setup node, and Docker runs there.
ConnectSetup(p) == Opening(p, "setup", {"setup"})
WaitForDockerReady(p) == Looking(p, "docker")

\* The file with the passphrase that dhctl needs, on the setup node.
StageConnYAML(p) == Opening(p, "connYAML", {"connYAML"})

WaitVMsRunning(p) == Looking(p, "running")
GatherVMInfo(p) == Looking(p, "gather")
CreateStaticNodeGroup(p) == Looking(p, "nodeGroup")
WaitForAllNodesReady(p) == Looking(p, "joined")
checkClusterHealthWithRetries(p) == Looking(p, "health")
FindInCommander(p) == Looking(p, "find")

\* dhctl installs Deckhouse on the first master; the passphrase and the local file go.
BootstrapCluster(p) ==
    /\ Stage(p) = "dhctl" /\ Can(p)
    /\ Builds(p, "booted", TRUE)
    /\ config' = 0
    /\ Closes(p, {"connYAML"})
    /\ Advance(p) /\ NoFault
    /\ UNCHANGED <<vmVars, env, state, lock, commander, runs>>

\* Every node is joined by a goroutine of its own, which tries again when the answer
\* asks for it; those that succeed have joined although another one fails.
addNodesInPart(p) == \E S \in SUBSET Range(Workers) : Builds(p, "joined", S)

AddNodesToCluster(p) ==
    /\ Stage(p) = "join" /\ Can(p)
    /\ Builds(p, "joined", Range(Workers))
    /\ Advance(p) /\ NoFault /\ Own /\ UNCHANGED held

EnableAndConfigureModules(p) ==
    /\ Stage(p) = "modules"
    /\ Builds(p, "modules", env.modules)
    /\ Advance(p) /\ NoFault /\ Own /\ UNCHANGED held

\* Mutant: a resumed run is taken to be ready.
WaitForTestClusterReadyNow(p) ==
    /\ Stage(p) = "ready" /\ (Kind(p) = "create" => Can(p))
    /\ IF Kind(p) = "create" THEN Note("delivered", Id(p)) ELSE UNCHANGED past
    /\ Advance(p) /\ Own /\ UNCHANGED <<held, cluster, faults>>

WaitForTestClusterReady(p) ==
    /\ Stage(p) = "ready" /\ Can(p)
    /\ IF Kind(p) = "create" THEN Note("delivered", Id(p)) ELSE UNCHANGED past
    /\ Advance(p) /\ Own /\ UNCHANGED <<held, cluster, faults>>

\* The tests.
Use(p) ==
    /\ Stage(p) = "use"
    /\ Note("cleaned", Id(p))
    /\ Advance(p) /\ Own /\ UNCHANGED <<held, cluster, faults>>

---------------------------------------------------------------------------
(* Steps through the files in /tmp/e2e, which processes share.             *)

saveClusterState(p) ==
    /\ Stage(p) = "save"
    /\ state' = Id(p)
    /\ Advance(p) /\ NoFault
    /\ UNCHANGED <<vmVars, env, held, cluster, config, lock, commander, runs>>

\* The second time nobody looks at the error: a file that is gone by then is a nil pointer.
loadClusterState(p) ==
    /\ Stage(p) = "saved"
    /\ IF state = 0 THEN Ends(p, "panic") /\ UNCHANGED past
       ELSE proc' = [proc EXCEPT ![p].pc = @ + 1, ![p].id = state] /\ Note("resumed", state)
    /\ Own /\ UNCHANGED <<held, cluster, faults>>

PrepareBootstrapConfig(p) ==
    /\ Stage(p) = "prepare"
    /\ config' = Id(p)
    /\ Advance(p) /\ NoFault
    /\ UNCHANGED <<vmVars, env, held, cluster, state, lock, commander, runs>>

UploadBootstrapFiles(p) ==
    /\ Stage(p) = "upload" /\ Can(p)
    /\ Builds(p, "config", config)
    /\ Advance(p) /\ NoFault /\ Own /\ UNCHANGED held

---------------------------------------------------------------------------
(* Machines.                                                               *)

Machines == UNCHANGED <<env, cluster, files, lock, commander, runs>>

\* CreateVirtualMachines up to the first goroutines.
CheckConflicts(p) ==
    /\ Stage(p) = "conflicts"
    /\ IF checkResourceConflicts = {}
       THEN /\ ensureVirtualMachineClassForClusterVMs
            /\ Begin(p, "get") /\ Advance(p) /\ UNCHANGED held
       ELSE Fails(p) /\ UNCHANGED <<class, work>>
    /\ UNCHANGED <<policy, images, disks, vms, rm>> /\ NoFault /\ Machines

Goroutine(p) ==
    /\ \E n \in Nodes : \/ Stage(p) = "images" /\ createCVI(p, n)
                        \/ Stage(p) = "machines" /\ createVM(p, n, Id(p))
    /\ UNCHANGED <<proc, held>> /\ NoFault /\ Machines

\* wg.Wait: the first error, or the next group.
CreateVirtualMachines(p) ==
    /\ Stage(p) \in {"images", "machines"} /\ Joined(p)
    /\ IF Failed(p) THEN Fails(p) /\ Begin(p, "done")
       ELSE /\ Begin(p, IF Stage(p) = "images" THEN "disk" ELSE "done")
            /\ Advance(p) /\ UNCHANGED held
    /\ UNCHANGED <<policy, objects, rm>> /\ NoFault /\ Machines

\* CleanupTestCluster: the connections to the test cluster and the setup node, then
\* the setup machine, whatever TEST_CLUSTER_CLEANUP says.
CloseTestCluster(p) ==
    /\ Stage(p) = "close" /\ Kind(p) \in {"create", "resume"}
    /\ Closes(p, {"test", "testTunnel", "setup"})
    /\ RemoveVMs(p, <<Name(Id(p), Setup)>>)
    /\ Advance(p) /\ NoFault
    /\ UNCHANGED <<policy, objects, work>> /\ Machines

RemoveMachine(p) ==
    /\ RemoveVM(p)
    /\ UNCHANGED <<proc, held>> /\ NoFault /\ Machines

\* The other machines with TEST_CLUSTER_CLEANUP=true.  A resumed run has no client to
\* remove them with, and panics.
RemoveAllVMs(p) ==
    /\ Stage(p) = "removeSetup" /\ ~ Removing(p)
    /\ IF env.cleanup = "true" /\ Kind(p) = "resume" THEN Ends(p, "panic") ELSE Advance(p)
    /\ IF env.cleanup = "true" /\ Kind(p) = "create" THEN RemoveVMs(p, vmNames(Id(p))) ELSE UNCHANGED rm
    /\ Closes(p, {"connYAML"})
    /\ UNCHANGED <<policy, objects, work>> /\ NoFault /\ Machines

\* The end of CleanupTestCluster.
CloseBase(p) ==
    \/ /\ Stage(p) = "removeAll" /\ ~ Removing(p)
       /\ Advance(p) /\ NoFault /\ Own /\ UNCHANGED <<held, cluster>>
    \/ /\ Stage(p) = "closeBase"
       /\ Closes(p, {"base", "baseTunnel"})
       /\ Ends(p, "done")
       /\ IF Kind(p) = "create" /\ Run(p) \notin past.disturbed THEN Note("clean", Run(p)) ELSE UNCHANGED past
       /\ Own /\ UNCHANGED <<cluster, faults>>

---------------------------------------------------------------------------
(* The ConfigMap lock.                                                     *)

Holder(p) == lock[ClusterOf(p)]
Lock(p, r) == lock' = [lock EXCEPT ![ClusterOf(p)] = r]
Sub(p, l) == proc' = [proc EXCEPT ![p].sub = l]
Locks == UNCHANGED <<vmVars, env, cluster, files, commander, runs>>

\* Mutant: the answer to Create is taken for granted.
AcquireClusterLockBlind(p) ==
    /\ Stage(p) = "lock"
    /\ \/ /\ proc[p].sub = "get"
          /\ IF Holder(p) # 0 THEN Fails(p) ELSE Sub(p, "create") /\ UNCHANGED held
          /\ UNCHANGED lock
       \/ /\ proc[p].sub = "create"
          /\ Lock(p, IF Holder(p) = 0 THEN Run(p) ELSE Holder(p))
          /\ Advance(p) /\ UNCHANGED held
    /\ NoFault /\ Locks

\* Get, and Create when there is none: a lock that is found, its own included, and one
\* that is made in between, are errors that are not retried.
AcquireClusterLock(p) ==
    /\ Stage(p) = "lock"
    /\ \/ /\ proc[p].sub = "get"
          /\ IF Holder(p) # 0 THEN Fails(p) ELSE Sub(p, "create") /\ UNCHANGED held
          /\ UNCHANGED lock
       \/ /\ proc[p].sub = "create"
          /\ IF Holder(p) = 0 THEN Lock(p, Run(p)) /\ Advance(p) /\ UNCHANGED held
             ELSE Fails(p) /\ UNCHANGED lock
    /\ NoFault /\ Locks

\* A call fails, done or not, and is tried again from the Get, or it is the last one.
AcquireFails(p) ==
    /\ Stage(p) = "lock"
    /\ faults < MaxFaults /\ faults' = faults + 1
    /\ \/ /\ proc[p].sub = "create" /\ Holder(p) = 0 /\ Lock(p, Run(p))
          /\ past' = [past EXCEPT !.disturbed = @ \cup {Run(p)}, !.lockLost = @ \cup {Run(p)}]
       \/ UNCHANGED lock /\ Note("disturbed", Run(p))
    /\ \/ Sub(p, "get") /\ UNCHANGED held
       \/ Fails(p)
    /\ Locks

AfterUnlock(p) ==
    IF proc[p].failing THEN Ends(p, "failed") /\ held' = [held EXCEPT ![p] = {}]
    ELSE Advance(p) /\ UNCHANGED held

\* Delete by name, whoever holds it; none is as good.
ReleaseClusterLock(p) ==
    /\ Stage(p) = "unlock" /\ proc[p].sub # "dead"
    /\ Lock(p, 0)
    /\ past' = [past EXCEPT !.twice = @ \/ (proc[p].sub = "again" /\ Holder(p) \notin {0, Run(p)})]
    /\ AfterUnlock(p)
    /\ Locks /\ UNCHANGED faults

\* It is done and the answer is lost, and it is tried again; or it is not done at all,
\* which it cannot be once the context of the run is over.
ReleaseFails(p) ==
    /\ Stage(p) = "unlock"
    /\ \/ /\ proc[p].sub = "get" /\ Fault(p)
          /\ Lock(p, 0) /\ Sub(p, "again") /\ UNCHANGED held
       \/ /\ faults' = IF proc[p].sub = "dead" THEN faults ELSE faults + 1
          /\ faults' <= MaxFaults
          /\ past' = [past EXCEPT !.disturbed = @ \cup {Run(p)}, !.lockLost = @ \cup {Run(p)}]
          /\ AfterUnlock(p) /\ UNCHANGED lock
    /\ Locks

\* CleanupExistingCluster closes what it knows of: not the jump host's connections.
CloseExisting(p) ==
    /\ Stage(p) = "close" /\ Kind(p) \in Locking
    /\ Closes(p, {"test", "testTunnel"})
    /\ IF Kind(p) = "commander" THEN Advance(p) ELSE Ends(p, "done")
    /\ NoFault /\ Own /\ UNCHANGED cluster

---------------------------------------------------------------------------
(* Commander.                                                              *)

\* From a template, and it becomes ready.
createCommanderCluster(p) ==
    /\ Stage(p) = "created"
    /\ commander' = commander \cup {Run(p)}
    /\ Advance(p) /\ NoFault
    /\ UNCHANGED <<vmVars, env, held, cluster, files, lock, runs>>

\* Unless TEST_CLUSTER_CLEANUP=false.
DeleteCommanderCluster(p) ==
    /\ Stage(p) = "delete"
    /\ commander' = IF env.cleanup = "false" THEN commander ELSE commander \ {Run(p)}
    /\ Ends(p, "done") /\ NoFault
    /\ UNCHANGED <<vmVars, env, held, cluster, files, lock, runs>>

---------------------------------------------------------------------------
(* Faults.                                                                 *)

Steps == UNION {Range(CreateOrConnectToTestCluster[k]) : k \in Kinds}

\* A step has no chance, and is given up.
GivesUp(p) ==
    /\ Hopeless(p) /\ Fails(p)
    /\ NoFault /\ Own /\ UNCHANGED cluster

\* A call of a step fails for good, or a wait is over too early; what it was to do may
\* have been done in part.  With the context of the run over, a lock cannot be released.
StepFails(p) ==
    /\ Stage(p) \in Steps \ {"images", "machines", "save", "saved", "lock"}
    /\ Fault(p)
    /\ \/ Fails(p)
       \/ /\ Kind(p) \in Locking /\ proc[p].pc > Place[Kind(p)]["lock"]
          /\ proc' = [proc EXCEPT ![p].pc = Place[Kind(p)]["unlock"], ![p].sub = "dead", ![p].failing = TRUE]
          /\ UNCHANGED held
    /\ \/ UNCHANGED <<cluster, commander>>
       \/ Stage(p) = "dhctl" /\ Builds(p, "booted", TRUE) /\ UNCHANGED commander
       \/ Stage(p) = "join" /\ addNodesInPart(p) /\ UNCHANGED commander
       \/ Stage(p) = "created" /\ commander' = commander \cup {Run(p)} /\ UNCHANGED cluster
    /\ UNCHANGED <<vmVars, env, files, lock, runs>>

\* removeRemoteConnYAML fails, which nobody is told of: the file stays on the setup node,
\* whether dhctl is run or not.
ConnYAMLStays(p) ==
    /\ Stage(p) \in {"connYAML", "dhctl"} /\ Can(p)
    /\ faults < MaxFaults /\ faults' = faults + 1
    /\ past' = [past EXCEPT !.disturbed = @ \cup {Run(p)}, !.kept = @ \cup {Run(p)}]
    /\ \/ /\ Ends(p, "failed") /\ held' = [held EXCEPT ![p] = {"connYAML"}]
          /\ UNCHANGED <<cluster, config>>
       \/ /\ Stage(p) = "dhctl"
          /\ Builds(p, "booted", TRUE) /\ config' = 0
          /\ Advance(p) /\ UNCHANGED held
    /\ UNCHANGED <<vmVars, env, state, lock, commander, runs>>

\* A state file that cannot be written is only warned of.
SaveFails(p) ==
    /\ Stage(p) = "save" /\ Fault(p)
    /\ Advance(p) /\ Own /\ UNCHANGED <<held, cluster>>

MachineFails(p) ==
    /\ Fault(p)
    /\ \/ Stage(p) \in {"images", "machines"} /\ \E n \in Nodes : GoroutineFails(p, n, Id(p))
       \/ RemoveVMFails(p)
    /\ UNCHANGED <<proc, held>> /\ Machines

\* No client for the base cluster: no machine is removed.  Commander does not delete.
CleanupFails(p) ==
    /\ Fault(p)
    /\ \/ /\ Stage(p) = "close" /\ Kind(p) \in {"create", "resume"}
          /\ Closes(p, {"test", "testTunnel", "setup"})
          /\ proc' = [proc EXCEPT ![p].pc = Place[Kind(p)]["closeBase"]]
       \/ Stage(p) = "delete" /\ Ends(p, "done") /\ UNCHANGED held
    /\ Own /\ UNCHANGED cluster

\* The process is killed; a state file being written is cut short.
Kill(p) ==
    /\ ~ Idle(p) /\ Fault(p)
    /\ Ends(p, "killed")
    /\ held' = [held EXCEPT ![p] = {}]
    /\ work' = [work EXCEPT ![p] = NoWork]
    /\ rm' = [rm EXCEPT ![p] = NoRm]
    /\ state' = IF Stage(p) = "save" THEN 0 ELSE state
    /\ UNCHANGED <<policy, objects, env, cluster, config, lock, commander, runs>>

---------------------------------------------------------------------------
World == Virtualization /\ UNCHANGED <<env, proc, held, cluster, files, lock, commander, runs, faults, past>>

Create(p) ==
    \/ ConnectToCluster(p) \/ ConnectSetup(p) \/ WaitForDockerReady(p) \/ StageConnYAML(p)
    \/ WaitVMsRunning(p) \/ GatherVMInfo(p) \/ CreateStaticNodeGroup(p) \/ WaitForAllNodesReady(p)
    \/ checkClusterHealthWithRetries(p) \/ FindInCommander(p)
    \/ CheckConflicts(p) \/ Goroutine(p) \/ CreateVirtualMachines(p)
    \/ saveClusterState(p) \/ loadClusterState(p) \/ PrepareBootstrapConfig(p) \/ UploadBootstrapFiles(p)
    \/ BootstrapCluster(p) \/ AddNodesToCluster(p) \/ EnableAndConfigureModules(p)
    \/ WaitForTestClusterReady(p) \/ AcquireClusterLock(p) \/ createCommanderCluster(p)
    \/ GivesUp(p)

Cleanup(p) ==
    \/ CloseTestCluster(p) \/ RemoveMachine(p) \/ RemoveAllVMs(p) \/ CloseBase(p)
    \/ ReleaseClusterLock(p) \/ CloseExisting(p) \/ DeleteCommanderCluster(p)

Faults(p) ==
    \/ StepFails(p) \/ ConnYAMLStays(p) \/ SaveFails(p) \/ MachineFails(p) \/ AcquireFails(p) \/ ReleaseFails(p)
    \/ CleanupFails(p) \/ Kill(p)

Next == (\E p \in Procs : Start(p) \/ Create(p) \/ Use(p) \/ Cleanup(p) \/ Faults(p)) \/ World

Spec == Init /\ [][Next]_vars

---------------------------------------------------------------------------
(* Properties.                                                             *)

\* Two runs never use one cluster: AcquireClusterLock's Get and Create are two calls, and
\* ReleaseClusterLock deletes by name.  The exception: a release whose answer was
\* lost is tried again, and takes a lock away that another run has made meanwhile.
Using(p) == /\ ~ Idle(p) /\ Kind(p) \in Locking
            /\ proc[p].pc > Place[Kind(p)]["lock"] /\ proc[p].pc <= Place[Kind(p)]["use"]
OneUserAtATime ==
    past.twice \/ \A p, q \in Procs : Using(p) /\ Using(q) /\ ClusterOf(p) = ClusterOf(q) => p = q

\* A run that has come to its end by itself, well or not, has left no lock: UseExistingCluster,
\* connectViaProvider and UseCommanderCluster release it on each error path after
\* AcquireClusterLock.  It stays when the answer to its creation was lost (the retry takes
\* the run's own lock for another's), when the release failed, and when the context
\* that failed the run fails the release too.
LockIsReleased ==
    \A p \in Procs :
        /\ Idle(p) /\ Kind(p) \in Locking /\ proc[p].ended \in {"done", "failed"}
        /\ Holder(p) = Run(p) /\ Run(p) # 0
        => Run(p) \in past.lockLost

\* The tests get the whole cluster: its machines run, it was installed from the run's own
\* config.yml, all nodes have joined and the modules are enabled (CreateTestCluster,
\* WaitForTestClusterReady).  Exceptions: runs side by side share config.yml; a resumed
\* run takes a cluster that was being removed, and without modules to wait for one
\* that was never finished.
Complete(r) ==
    /\ cluster[r].booted
    /\ cluster[r].config = r \/ r \in past.beside
    /\ cluster[r].joined = Range(Workers)
    /\ cluster[r].modules = env.modules
    /\ \A n \in Nodes \ {Setup} : vms[Name(r, n)] = "running"
DeliveredIsComplete ==
    [][\A p \in Procs :
         Stage(p) = "ready" /\ proc'[p].pc > proc[p].pc =>
            \/ Complete(Id(p))
            \/ /\ Kind(p) = "resume"
               /\ Id(p) \in past.cleaned \/ (~ env.modules /\ Id(p) \notin past.delivered)]_vars

\* With no call failing CreateTestCluster succeeds, although all its nodes create the
\* images at once.  With IMAGE_PULL_POLICY=Always it may stop at an image, its own
\* included; beside another run it may lose the image or config.yml to the other's end.
HealthyCreateSucceeds ==
    \A p \in Procs :
        proc[p].ended = "failed" /\ Kind(p) = "create" /\ Run(p) \notin past.disturbed =>
            \/ policy = "Always" /\ proc[p].at \in {"conflicts", "images"}
            \/ Run(p) \in past.beside /\ proc[p].at \in {"images", "running", "upload", "connYAML"}

\* With TEST_CLUSTER_CLEANUP=true a run that was not disturbed, and that no other one was
\* resumed from, leaves no machine and no disk, and the last of several no image: RemoveVM
\* deletes an image when the list it takes after its disk is gone shows no user, so that of
\* runs that clean up side by side the last one does.
CleanupRemovesAll ==
    env.cleanup = "true" =>
        /\ \A r \in past.clean \ past.resumed, n \in Nodes :
             vms[Name(r, n)] = "absent" /\ disks[Name(r, n)] = "absent"
        /\ past.clean = 1 .. runs /\ (\A p \in Procs : Idle(p)) => \A i \in Images : images[i] = "absent"

\* What a run that has ended by itself still has open: nothing, but for the tunnel to the
\* base cluster when CreateTestCluster fails from step 14 on, all of it when the modules
\* do not become ready, the connections through SSH_JUMP_HOST, the base connections of
\* a resumed run that panics, and a connection file whose removal failed.
NothingLeftOpen ==
    \A p \in Procs :
        LET at == proc[p].at IN
        Idle(p) /\ at # "ready" =>
            held[p] \ {f \in {"connYAML"} : Run(p) \in past.kept} \subseteq
                CASE proc[p].ended = "failed" /\ Kind(p) = "create"
                       /\ at \in Range(SubSeq(CreateTestCluster, Place["create"]["connect"], Len(CreateTestCluster)))
                                                              -> {"baseTunnel"}
                  [] proc[p].ended = "done" /\ Kind(p) = "jump" -> {"base", "baseTunnel"}
                  [] proc[p].ended = "panic"                  -> {"base", "baseTunnel"}
                  [] OTHER -> {}

\* Every variable keeps its type.
TypeOK ==
    /\ env \in Envs
    /\ \A p \in Procs : proc[p].kind \in Kinds /\ proc[p].pc \in 0 .. Len(Program[proc[p].kind])
    /\ state \in 0 .. runs /\ config \in 0 .. runs /\ commander \subseteq Runs
    /\ runs \in 0 .. MaxRuns /\ faults \in 0 .. MaxFaults
    /\ \A c \in DOMAIN lock : lock[c] \in 0 .. runs
==============================================================================
