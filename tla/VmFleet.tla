------------------------------- MODULE VmFleet -------------------------------
(***************************************************************************)
(* The virtual machines of a test cluster on the DVP base cluster          *)
(* (internal/provisioning/dvp/vm): Provision, DeleteNode and Teardown.  A  *)
(* command is a sequence of stages; a stage is an errgroup of at most      *)
(* Limit goroutines, each making a few calls to the API server one after   *)
(* the other.  A command may fail or be killed anywhere, and another one   *)
(* is run on what it left.                                                 *)
(*                                                                         *)
(* The objects and their controllers are external: a created object gets   *)
(* ready, a deleted one disappears, both at some later time; a disk does   *)
(* not disappear under a machine that has been started with it.            *)
(***************************************************************************)
EXTENDS Naturals, Sequences, FiniteSets

CONSTANTS
    Nodes,        \* host names of the VM nodes of the cluster definition
    SetupNode,    \* the one that DeleteNode is called for
    Foreign,      \* machines in the namespace without the managed-by label
    Images,       \* ClusterVirtualImages of the nodes
    Limit,        \* maxConcurrentOps
    MaxFaults,    \* bound: failing calls and crashes
    MaxCommands   \* bound: commands

ASSUME FleetAssumption ==
    /\ SetupNode \in Nodes /\ Nodes \cap Foreign = {}
    /\ Limit \in Nat \ {0}
    /\ MaxFaults \in Nat /\ MaxCommands \in Nat

Vm(n) == <<"vm", n>>
Disk(n) == <<"disk", n>>
Image(i) == <<"image", i>>
Class == <<"class", "class">>

Machines == Nodes \cup Foreign
Shared == {Class} \cup {Image(i) : i \in Images}
Objects == Shared \cup {Vm(n) : n \in Machines} \cup {Disk(n) : n \in Machines}
Workers == {"main"} \cup Images \cup Machines

Commands == {"provision", "deleteNode", "teardown"}

VARIABLES
    status,    \* the objects on the base cluster
    cmd,       \* the command that runs, or "none"
    stages,    \* its stages to come
    stage,     \* the current one
    group,     \* the goroutines of the stage
    pc,        \* where each of them is in Calls(stage, g)
    outcome,   \* how the last command ended
    faults, commands,
    found      \* history: what was on its way out when the command began

procVars == <<cmd, stages, stage, group, pc>>
vars == <<status, procVars, outcome, faults, commands, found>>

\* A goroutine that has not been started, or has returned an error.
Queued == 0
Failed == 99

Init ==
    /\ status \in [Objects -> {"absent", "ready"}]
    /\ \A n \in Nodes : status[Vm(n)] = "absent" /\ status[Disk(n)] = "absent"
    /\ \A n \in Foreign : status[Vm(n)] = "ready" /\ status[Disk(n)] = "ready"
    /\ cmd = "none" /\ stages = <<>> /\ stage = "none"
    /\ group = {} /\ pc = [g \in Workers |-> Queued]
    /\ outcome = <<"none", "ok">> /\ faults = 0 /\ commands = 0 /\ found = {}

-----------------------------------------------------------------------------
(* What the commands do.                                                   *)

\* Mutant: teardown deletes the disks first.
StagesDisksFirst(c) ==
    CASE c = "provision"  -> <<"class", "images", "create", "running">>
      [] c = "deleteNode" -> <<"node">>
      [] c = "teardown"   -> <<"disks", "vms">>

Stages(c) ==
    CASE c = "provision"  -> <<"class", "images", "create", "running">>
      [] c = "deleteNode" -> <<"node">>
      [] c = "teardown"   -> <<"vms", "disks">>

\* createIfAbsent is a Get followed by a Create.
createIfAbsent(o) == << <<"get", o>>, <<"create", o>> >>

deleteAndWait(o) == << <<"delete", o>>, <<"gone", o>> >>

Calls(s, g) ==
    CASE s = "class"   -> createIfAbsent(Class) \o << <<"await", Class>> >>
      [] s = "images"  -> createIfAbsent(Image(g)) \o << <<"await", Image(g)>> >>
      [] s = "create"  -> createIfAbsent(Disk(g)) \o createIfAbsent(Vm(g))
      [] s = "running" -> << <<"await", Vm(g)>> >>
      [] s = "vms"     -> deleteAndWait(Vm(g))
      [] s = "disks"   -> deleteAndWait(Disk(g))
      [] s = "node"    -> deleteAndWait(Vm(g)) \o deleteAndWait(Disk(g))

\* Mutant: everything in the namespace is ours.
isManagedAny(n) == n \in Machines

isManaged(n) == n \in Nodes

\* The goroutines of a stage; those of a teardown are for the objects listed.
Goroutines(s) ==
    CASE s = "class"  -> {"main"}
      [] s = "images" -> Images
      [] s \in {"create", "running"} -> Nodes
      [] s = "vms"    -> {n \in Machines : isManaged(n) /\ status[Vm(n)] # "absent"}
      [] s = "disks"  -> {n \in Machines : isManaged(n) /\ status[Disk(n)] # "absent"}
      [] s = "node"   -> {SetupNode}

-----------------------------------------------------------------------------
(* A goroutine.                                                            *)

Returned(g) == pc[g] \in {Failed, Len(Calls(stage, g)) + 1}
Running(g) == g \in group /\ pc[g] # Queued /\ ~Returned(g)
Call(g) == Calls(stage, g)[pc[g]]
At(g, kind) == Running(g) /\ Call(g)[1] = kind
Target(g) == status[Call(g)[2]]

GoOn(g, steps) == pc' = [pc EXCEPT ![g] = @ + steps]
Write(g, s) == status' = [status EXCEPT ![Call(g)[2]] = s]
Fail(g) == pc' = [pc EXCEPT ![g] = Failed]
Fault == faults < MaxFaults /\ faults' = faults + 1

rest == <<cmd, stages, stage, group, outcome, commands, found>>

\* g.Go: a goroutine starts when fewer than Limit are running.
Launch(g) ==
    /\ g \in group /\ pc[g] = Queued
    /\ Cardinality({h \in group : Running(h)}) < Limit
    /\ pc' = [pc EXCEPT ![g] = 1]
    /\ UNCHANGED <<status, faults, rest>>

\* An object that exists is taken as it is, also when it is being deleted.
Get(g) ==
    /\ At(g, "get")
    /\ IF Target(g) = "absent" THEN GoOn(g, 1) ELSE GoOn(g, 2)
    /\ UNCHANGED <<status, faults, rest>>

\* AlreadyExists counts as success.
Create(g) ==
    /\ At(g, "create")
    /\ IF Target(g) = "absent" THEN Write(g, "pending") ELSE UNCHANGED status
    /\ GoOn(g, 1)
    /\ UNCHANGED <<faults, rest>>

\* No class of that name, and perhaps none to clone either.
NoClass(g) ==
    /\ At(g, "create") /\ Call(g)[2] = Class
    /\ Fail(g)
    /\ UNCHANGED <<status, faults, rest>>

\* Mutant: it is enough that the object exists.
AwaitExists(g) ==
    /\ At(g, "await") /\ Target(g) # "absent"
    /\ GoOn(g, 1)
    /\ UNCHANGED <<status, faults, rest>>

\* waitForCondition: ready, or running with an IP address.
Await(g) ==
    /\ At(g, "await") /\ Target(g) = "ready"
    /\ GoOn(g, 1)
    /\ UNCHANGED <<status, faults, rest>>

Delete(g) ==
    /\ At(g, "delete")
    /\ IF Target(g) = "absent" THEN UNCHANGED status ELSE Write(g, "deleting")
    /\ GoOn(g, 1)
    /\ UNCHANGED <<faults, rest>>

\* waitDeleted: only NotFound ends it.
Gone(g) ==
    /\ At(g, "gone") /\ Target(g) = "absent"
    /\ GoOn(g, 1)
    /\ UNCHANGED <<status, faults, rest>>

\* What a write whose answer never came may have done.
Unanswered(g) ==
    \/ UNCHANGED status
    \/ At(g, "create") /\ Target(g) = "absent" /\ Write(g, "pending")
    \/ At(g, "delete") /\ Target(g) # "absent" /\ Write(g, "deleting")

CallFails(g) ==
    /\ Running(g) /\ Fault
    /\ Unanswered(g)
    /\ Fail(g)
    /\ UNCHANGED rest

\* Mutant: the wait has no timeout.
WaitForever(g) ==
    /\ At(g, "await") \/ At(g, "gone")
    /\ UNCHANGED vars

\* The timeout of a wait, or a phase it gives up on (Failed, Lost, Degraded).
WaitFails(g) ==
    /\ At(g, "await") \/ At(g, "gone")
    /\ Fail(g)
    /\ UNCHANGED <<status, faults, rest>>

\* The first error cancels the context of the other goroutines.
Cancelled(g) ==
    /\ Running(g) /\ \E h \in group : pc[h] = Failed
    /\ Unanswered(g)
    /\ Fail(g)
    /\ UNCHANGED <<faults, rest>>

Goroutine(g) ==
    \/ Launch(g) \/ Get(g) \/ Create(g) \/ NoClass(g) \/ Await(g) \/ Delete(g) \/ Gone(g)
    \/ CallFails(g) \/ WaitFails(g) \/ Cancelled(g)

-----------------------------------------------------------------------------
(* A command.                                                              *)

GroupReturned == cmd # "none" /\ \A g \in group : Returned(g)
NoError == \A g \in group : pc[g] # Failed

Begin(c) ==
    /\ cmd = "none" /\ commands < MaxCommands
    /\ cmd' = c /\ stages' = Stages(c) /\ stage' = "none" /\ group' = {}
    /\ commands' = commands + 1
    /\ found' = {o \in Objects : status[o] = "deleting"}
    /\ UNCHANGED <<status, pc, outcome, faults>>

NextStage ==
    /\ GroupReturned /\ NoError /\ stages # <<>>
    /\ stage' = Head(stages) /\ stages' = Tail(stages)
    /\ group' = Goroutines(Head(stages))
    /\ pc' = [g \in Workers |-> Queued]
    /\ UNCHANGED <<status, cmd, outcome, faults, commands, found>>

Ends(result) ==
    /\ outcome' = <<cmd, result>> /\ cmd' = "none"
    /\ stages' = <<>> /\ stage' = "none" /\ group' = {}
    /\ pc' = [g \in Workers |-> Queued]
    /\ UNCHANGED <<status, commands, found>>

Succeeds == GroupReturned /\ NoError /\ stages = <<>> /\ Ends("ok") /\ UNCHANGED faults

Fails == GroupReturned /\ ~NoError /\ Ends("failed") /\ UNCHANGED faults

ListFails ==
    /\ GroupReturned /\ NoError /\ stages # <<>> /\ Head(stages) \in {"vms", "disks"}
    /\ Fault /\ Ends("failed")

\* The job is cancelled.  What its last write did is done.
Killed == cmd # "none" /\ Fault /\ Ends("killed")

Process == NextStage \/ Succeeds \/ Fails

-----------------------------------------------------------------------------
(* The base cluster.                                                       *)

GetsReady(o) ==
    /\ status[o] = "pending"
    /\ \A n \in Machines : o = Vm(n) => status[Disk(n)] \in {"pending", "ready"}
    /\ status' = [status EXCEPT ![o] = "ready"]
    /\ UNCHANGED <<procVars, outcome, faults, commands, found>>

Disappears(o) ==
    /\ status[o] = "deleting"
    /\ \A n \in Machines : o = Disk(n) => status[Vm(n)] \in {"absent", "pending"}
    /\ status' = [status EXCEPT ![o] = "absent"]
    /\ UNCHANGED <<procVars, outcome, faults, commands, found>>

\* Classes and images are shared with the runs of other namespaces.
OtherRunCreates(o) ==
    /\ status[o] = "absent"
    /\ status' = [status EXCEPT ![o] = "pending"]
    /\ UNCHANGED <<procVars, outcome, faults, commands, found>>

Finished == cmd = "none" /\ commands = MaxCommands /\ UNCHANGED vars

Next ==
    \/ \E c \in Commands : Begin(c)
    \/ Process \/ ListFails \/ Killed
    \/ \E g \in Workers : Goroutine(g)
    \/ \E o \in Objects : GetsReady(o) \/ Disappears(o)
    \/ \E o \in Shared : OtherRunCreates(o)
    \/ Finished

Spec == Init /\ [][Next]_vars

\* Goroutines run, and a wait ends by its timeout at last.
FairSpec == Spec /\ WF_vars(Process) /\ WF_vars(\E g \in Workers : Goroutine(g))

-----------------------------------------------------------------------------
(* Properties.                                                             *)

\* However commands fail, are killed and follow each other, the disk of a running
\* machine is not deleted under it.
RunningVmKeepsDisk ==
    \A n \in Machines : status[Vm(n)] = "ready" => status[Disk(n)] \in {"pending", "ready"}

\* Provision returns without an error only if every machine of the definition
\* runs, on its disk, on whatever the commands before it have left.  A machine it
\* waits for exists, unless something was still being deleted when it began.
ProvisionDelivers ==
    /\ outcome = <<"provision", "ok">> /\ cmd = "none" =>
          \A n \in Nodes : status[Vm(n)] = "ready" /\ status[Disk(n)] \in {"pending", "ready"}
    /\ cmd = "provision" /\ stage = "running" /\ found = {} =>
          \A n \in Nodes : status[Vm(n)] \in {"pending", "ready"}

\* Teardown returns without an error only if nothing of ours is left, and it does
\* not touch what others have in the namespace ("Teardown only touches resources
\* carrying this label").
TeardownExact ==
    /\ outcome = <<"teardown", "ok">> /\ cmd = "none" =>
          \A n \in Nodes : status[Vm(n)] = "absent" /\ status[Disk(n)] = "absent"
    /\ \A n \in Foreign : status[Vm(n)] = "ready" /\ status[Disk(n)] = "ready"

\* Every command returns, also when one of its goroutines fails while others have
\* not been started.
CommandReturns == (cmd # "none") ~> (cmd = "none")

===============================================================================
