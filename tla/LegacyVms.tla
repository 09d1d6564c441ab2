------------------------------ MODULE LegacyVms ------------------------------
(***************************************************************************)
(* Virtual machines of the legacy cluster lifecycle, pkg/cluster/vms.go:   *)
(* CreateVirtualMachines makes the images, then the disks and machines of  *)
(* all nodes in parallel; RemoveVM takes a machine, its disk and, when     *)
(* nothing else uses it, its image away.  Test processes share a namespace *)
(* and the images of the base cluster.                                     *)
(*                                                                         *)
(* LegacyCluster puts these steps into the order of a run.                 *)
(***************************************************************************)
EXTENDS Integers, FiniteSets, Sequences, Functions

CONSTANTS
    Procs,      \* test processes
    Masters,    \* nodes of the cluster definition, in order
    Workers,
    Setup,      \* the machine dhctl runs on
    ImageOf,    \* the image each node starts from
    MaxRuns     \* bound: runs in a behaviour

ASSUME BoundAssumption == MaxRuns \in Nat

\* There is a master, and the setup machine has a name of its own.
ASSUME NodesAssumption ==
    /\ Masters \in Seq(Range(Masters)) /\ Masters # <<>> /\ Workers \in Seq(Range(Workers))
    /\ Setup \notin Range(Masters) \cup Range(Workers)

VMNodes == Masters \o Workers \o <<Setup>>
Nodes == Range(VMNodes)
Images == {ImageOf[n] : n \in Nodes}
Runs == 1 .. MaxRuns

\* randomizeHostnames: a run's names are its own.  A disk is called like its machine.
Name(id, n) == <<id, n>>
Names == Runs \X Nodes
vmNames(id) == [i \in DOMAIN VMNodes |-> Name(id, VMNodes[i])]

VARIABLES
    policy,     \* IMAGE_PULL_POLICY
    class,      \* the VirtualMachineClass exists
    images,     \* ClusterVirtualImages: absent, loading, ready
    disks,      \* VirtualDisks: absent, there, deleting
    vms,        \* VirtualMachines: absent, starting, running, deleting
    work,       \* where the goroutines of a process are, by node
    rm          \* the RemoveVM a process is in, and the names after it

objects == <<class, images, disks, vms>>
vmVars == <<policy, objects, work, rm>>

NoWork == [n \in Nodes |-> "done"]
NoRm == [todo |-> <<>>, at |-> "get", image |-> "none", using |-> FALSE]

\* Nothing is there yet; whoever makes a run sets the policy.
VmInit ==
    /\ class = FALSE
    /\ images = [i \in Images |-> "absent"]
    /\ disks = [v \in Names |-> "absent"]
    /\ vms = [v \in Names |-> "absent"]
    /\ work = [p \in Procs |-> NoWork]
    /\ rm = [p \in Procs |-> NoRm]

---------------------------------------------------------------------------
(* CreateVirtualMachines.                                                  *)

\* The names are new, so that only images can be in the way.
checkResourceConflicts == {i \in Images : policy = "Always" /\ images[i] # "absent"}

ensureVirtualMachineClassForClusterVMs == class' = TRUE

At(p, n, w) == work[p][n] = w
Go(p, n, w) == work' = [work EXCEPT ![p][n] = w]
Begin(p, w) == work' = [work EXCEPT ![p] = [n \in Nodes |-> w]]
Joined(p) == \A n \in Nodes : work[p][n] \in {"done", "err"}
Failed(p) == \E n \in Nodes : At(p, n, "err")

\* createCVI looks the image up.
GetImage(p, n) ==
    /\ At(p, n, "get")
    /\ Go(p, n, IF images[ImageOf[n]] = "absent" THEN "create"
                ELSE IF policy = "Always" THEN "err" ELSE "wait")
    /\ UNCHANGED <<policy, objects, rm>>

\* Mutant: an image that somebody else has created meanwhile is an error.
CreateImageStrict(p, n) ==
    /\ At(p, n, "create")
    /\ images' = [images EXCEPT ![ImageOf[n]] = IF @ = "absent" THEN "loading" ELSE @]
    /\ Go(p, n, IF images[ImageOf[n]] = "absent" THEN "wait" ELSE "err")
    /\ UNCHANGED <<policy, class, disks, vms, rm>>

\* It is not there: create it.  Somebody else may have done so meanwhile.
CreateImage(p, n) ==
    /\ At(p, n, "create")
    /\ images' = [images EXCEPT ![ImageOf[n]] = IF @ = "absent" THEN "loading" ELSE @]
    /\ Go(p, n, "wait")
    /\ UNCHANGED <<policy, class, disks, vms, rm>>

waitForClusterVirtualImageReady(p, n) ==
    /\ At(p, n, "wait")
    /\ images[ImageOf[n]] # "loading"
    /\ Go(p, n, IF images[ImageOf[n]] = "ready" THEN "done" ELSE "err")
    /\ UNCHANGED <<policy, objects, rm>>

\* createVM: the disk, then the machine.
CreateDisk(p, n, id) ==
    /\ At(p, n, "disk")
    /\ disks' = [disks EXCEPT ![Name(id, n)] = "there"]
    /\ Go(p, n, "vm")
    /\ UNCHANGED <<policy, class, images, vms, rm>>

CreateMachine(p, n, id) ==
    /\ At(p, n, "vm")
    /\ vms' = [vms EXCEPT ![Name(id, n)] = "starting"]
    /\ Go(p, n, "done")
    /\ UNCHANGED <<policy, class, images, disks, rm>>

createCVI(p, n) == GetImage(p, n) \/ CreateImage(p, n) \/ waitForClusterVirtualImageReady(p, n)
createVM(p, n, id) == CreateDisk(p, n, id) \/ CreateMachine(p, n, id)

\* A call fails or a wait is over before its time, and the goroutine with it.  What was
\* asked for may have been done.
GoroutineFails(p, n, id) ==
    /\ ~ At(p, n, "done") /\ ~ At(p, n, "err")
    /\ Go(p, n, "err")
    /\ \/ UNCHANGED <<images, disks, vms>>
       \/ /\ At(p, n, "create") /\ images[ImageOf[n]] = "absent"
          /\ images' = [images EXCEPT ![ImageOf[n]] = "loading"]
          /\ UNCHANGED <<disks, vms>>
       \/ /\ At(p, n, "disk") /\ disks' = [disks EXCEPT ![Name(id, n)] = "there"]
          /\ UNCHANGED <<images, vms>>
       \/ /\ At(p, n, "vm") /\ vms' = [vms EXCEPT ![Name(id, n)] = "starting"]
          /\ UNCHANGED <<images, disks>>
    /\ UNCHANGED <<policy, class, rm>>

\* All machines of a run are Running, and have addresses.
Running(id) == \A n \in Nodes : vms[Name(id, n)] = "running"

---------------------------------------------------------------------------
(* RemoveVM, for the names in todo one after the other: an error is logged *)
(* and the next one is taken.                                              *)

RemoveVMs(p, names) == rm' = [rm EXCEPT ![p] = [NoRm EXCEPT !.todo = names]]
Removing(p) == rm[p].todo # <<>>
Next1(p) == rm' = [rm EXCEPT ![p] = [NoRm EXCEPT !.todo = Tail(rm[p].todo)]]
RmAt(p, l) == Removing(p) /\ rm[p].at = l
RmGo(p, l) == rm' = [rm EXCEPT ![p].at = l]
Vm(p) == Head(rm[p].todo)

InUse(i) == \E v \in Names : disks[v] # "absent" /\ ImageOf[v[2]] = i

\* The machine, and the image of its disk, before the machine is deleted.
\* A machine that is not there has nothing to clean up.
DeleteMachine(p) ==
    /\ RmAt(p, "get")
    /\ IF vms[Vm(p)] = "absent"
       THEN Next1(p) /\ UNCHANGED vms
       ELSE /\ vms' = [vms EXCEPT ![Vm(p)] = "deleting"]
            /\ rm' = [rm EXCEPT ![p].at = "gone",
                                ![p].image = IF disks[Vm(p)] = "absent" THEN "none" ELSE ImageOf[Vm(p)[2]]]
    /\ UNCHANGED <<policy, class, images, disks, work>>

\* The wait for the machine to go is over.
DeleteDisk(p) ==
    /\ RmAt(p, "gone")
    /\ vms[Vm(p)] = "absent"
    /\ disks' = [disks EXCEPT ![Vm(p)] = IF @ = "absent" THEN @ ELSE "deleting"]
    /\ RmGo(p, "diskGone")
    /\ UNCHANGED <<policy, class, images, vms, work>>

\* Mutant: the list is taken without waiting for the disk to go.
ListDisksEarly(p) ==
    /\ RmAt(p, "diskGone")
    /\ rm' = [rm EXCEPT ![p].at = "image",
                        ![p].using = InUse(rm[p].image)]
    /\ UNCHANGED <<policy, objects, work>>

\* The wait for the disk is over: which images are in use?
ListDisks(p) ==
    /\ RmAt(p, "diskGone")
    /\ disks[Vm(p)] = "absent"
    /\ rm' = [rm EXCEPT ![p].at = "image",
                        ![p].using = InUse(rm[p].image)]
    /\ UNCHANGED <<policy, objects, work>>

DeleteImage(p) ==
    /\ RmAt(p, "image")
    /\ images' = IF rm[p].using \/ rm[p].image = "none" THEN images
                 ELSE [images EXCEPT ![rm[p].image] = "absent"]
    /\ Next1(p)
    /\ UNCHANGED <<policy, class, disks, vms, work>>

RemoveVM(p) == DeleteMachine(p) \/ DeleteDisk(p) \/ ListDisks(p) \/ DeleteImage(p)

\* A call fails: reading or deleting the machine ends RemoveVM, and so does the
\* context in a wait; a disk that cannot be read hides its image; a wait whose poll
\* fails is left; a disk or an image that cannot be deleted is logged; a list that
\* fails is taken for an empty one.
RemoveVMFails(p) ==
    /\ \/ Removing(p) /\ Next1(p) /\ UNCHANGED <<disks, vms>>
       \/ /\ RmAt(p, "get") /\ vms[Vm(p)] # "absent"
          /\ vms' = [vms EXCEPT ![Vm(p)] = "deleting"]
          /\ Next1(p) \/ RmGo(p, "gone")
          /\ UNCHANGED disks
       \/ /\ RmAt(p, "gone") /\ RmGo(p, "diskGone")
          /\ disks' = [disks EXCEPT ![Vm(p)] = IF @ = "absent" THEN @ ELSE "deleting"]
          /\ UNCHANGED vms
       \/ /\ RmAt(p, "gone") /\ vms[Vm(p)] = "absent"
          /\ rm' = [rm EXCEPT ![p].at = "image", ![p].using = InUse(rm[p].image)]
          /\ UNCHANGED <<disks, vms>>
       \/ /\ RmAt(p, "diskGone")
          /\ \E using \in {FALSE, InUse(rm[p].image)} :
               rm' = [rm EXCEPT ![p].at = "image", ![p].using = using]
          /\ UNCHANGED <<disks, vms>>
    /\ UNCHANGED <<policy, class, images, work>>

---------------------------------------------------------------------------
(* The virtualization module.                                              *)

Virtualization ==
    /\ \/ \E i \in Images :
            /\ images[i] = "loading" /\ images' = [images EXCEPT ![i] = "ready"]
            /\ UNCHANGED <<disks, vms>>
       \/ \E v \in Names :
            /\ vms[v] = "starting" /\ disks[v] = "there" /\ images[ImageOf[v[2]]] = "ready"
            /\ vms' = [vms EXCEPT ![v] = "running"]
            /\ UNCHANGED <<images, disks>>
       \/ \E v \in Names :
            /\ vms[v] = "deleting" /\ vms' = [vms EXCEPT ![v] = "absent"]
            /\ UNCHANGED <<images, disks>>
       \/ \E v \in Names :
            /\ disks[v] = "deleting" /\ vms[v] = "absent" /\ disks' = [disks EXCEPT ![v] = "absent"]
            /\ UNCHANGED <<images, vms>>
    /\ UNCHANGED <<policy, class, work, rm>>

==============================================================================
