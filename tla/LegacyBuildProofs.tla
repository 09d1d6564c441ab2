--------------------------- MODULE LegacyBuildProofs ---------------------------
(***************************************************************************)
(* More proofs about LegacyCluster, for any number of processes, runs and  *)
(* faults, any nodes and settings: a cluster that CreateTestCluster        *)
(* delivers is complete, whatever other runs do beside it, and a run no    *)
(* call of which fails can only fail for what the image pull policy or a   *)
(* run beside it explain.                                                  *)
(***************************************************************************)
EXTENDS LegacyClusterProofs

\* A leaf is for Zenon, unless it names another prover.
USE Zenon

\* A step of a run, failures included.
Acts(p) == Create(p) \/ Use(p) \/ Cleanup(p) \/ Faults(p)

\* A run that builds a cluster, and one that takes up a cluster that was built.
Making(p) == ~ Idle(p) /\ Kind(p) = "create"
Resuming(p) == ~ Idle(p) /\ Kind(p) = "resume"

-----------------------------------------------------------------------------
(* Where a step takes a process that is not after a lock.                  *)

Same(p) == Id(p)' = Id(p) /\ proc'[p].ended = proc[p].ended
On(p) == Goes(p, proc[p].pc + 1) /\ Same(p)
Off(p) == Goes(p, 0) /\ proc'[p].at = Stage(p)
Loads(p) == Stage(p) = "saved" /\ Goes(p, proc[p].pc + 1) /\ Id(p)' = state /\ state # 0
Skips(p) == Stage(p) = "close" /\ Goes(p, Place[Kind(p)]["closeBase"]) /\ Same(p)

\* Advance, Ends and Fails in these words.
LEMMA OnOff ==
    ASSUME Shape, NEW p \in Procs
    PROVE  /\ Advance(p) => On(p)
           /\ \A how : Ends(p, how) => Off(p) /\ proc'[p].ended = how
           /\ Fails(p) /\ Kind(p) \notin Locking => Off(p) /\ proc'[p].ended = "failed"
<1>1. ASSUME Advance(p) PROVE On(p)
  <2>1. Same(p)
    BY SMT, <1>1 DEF Shape, Advance, Id, Fields, Same
  <2> QED BY <1>1, <2>1, AdvanceGoes DEF On
<1>2. ASSUME NEW how, Ends(p, how) PROVE Off(p) /\ proc'[p].ended = how
  BY <1>2, EndGoes DEF Off
<1> QED BY <1>1, <1>2 DEF Fails

\* Looking and opening.
Looks(p) ==
    \/ ConnectToCluster(p) \/ ConnectSetup(p) \/ WaitForDockerReady(p) \/ StageConnYAML(p)
    \/ WaitVMsRunning(p) \/ GatherVMInfo(p) \/ CreateStaticNodeGroup(p) \/ WaitForAllNodesReady(p)
    \/ checkClusterHealthWithRetries(p) \/ FindInCommander(p)
LookStages == {"base", "connect", "setup", "docker", "connYAML", "running", "gather", "nodeGroup", "joined",
               "health", "find"}

\* Looking advances, and changes nothing but what is open.
LEMMA LooksAre ==
    ASSUME NEW p, Looks(p)
    PROVE  /\ Stage(p) \in LookStages /\ Can(p) /\ Advance(p) /\ NoFault /\ Own /\ UNCHANGED cluster
<1>1. PICK s \in LookStages : \E S : Opening(p, s, S)
  BY DEF Looks, LookStages, ConnectToCluster, ConnectSetup, WaitForDockerReady, StageConnYAML,
     WaitVMsRunning,
     GatherVMInfo, CreateStaticNodeGroup, WaitForAllNodesReady, checkClusterHealthWithRetries,
     FindInCommander, Looking
<1> QED BY <1>1 DEF Opening

\* A step of a run that builds or resumes.
LEMMA ProcEffect ==
    ASSUME Shape, NEW p \in Procs, Acts(p), Kind(p) \notin Locking, ~ Idle(p)
    PROVE  proc' = proc \/ On(p) \/ Off(p) \/ Loads(p) \/ Skips(p)
<1> USE OnOff
<1>1. Kind(p) \in {"create", "resume"} /\ Stage(p) \notin {"lock", "unlock", "delete", "health", "find", "created"}
  BY AtOther
<1>2. CASE Looks(p)
  BY <1>2, LooksAre
<1>3. CASE \/ UploadBootstrapFiles(p) \/ BootstrapCluster(p) \/ AddNodesToCluster(p) \/ EnableAndConfigureModules(p)
           \/ WaitForTestClusterReady(p) \/ Use(p) \/ saveClusterState(p) \/ PrepareBootstrapConfig(p)
           \/ CheckConflicts(p) \/ CreateVirtualMachines(p) \/ CloseTestCluster(p) \/ SaveFails(p)
  BY <1>3 DEF UploadBootstrapFiles, BootstrapCluster, AddNodesToCluster, EnableAndConfigureModules,
     WaitForTestClusterReady, Use, saveClusterState, PrepareBootstrapConfig, CheckConflicts,
     CreateVirtualMachines,
     CloseTestCluster, SaveFails
<1>4. CASE loadClusterState(p)
  <2>1. CASE state = 0
    BY <1>4, <2>1 DEF loadClusterState
  <2>2. CASE state # 0
    <3>1. Stage(p) = "saved" /\ proc' = [proc EXCEPT ![p].pc = @ + 1, ![p].id = state]
      BY <1>4, <2>2 DEF loadClusterState
    <3>2. Goes(p, proc[p].pc + 1) /\ Id(p)' = state
      BY SMT, <3>1 DEF Shape, Goes, Kind, Run, Id, Fields
    <3> QED BY <2>2, <3>1, <3>2 DEF Loads
  <2> QED BY <2>1, <2>2
<1>5. CASE Goroutine(p) \/ RemoveMachine(p) \/ MachineFails(p)
  BY <1>5 DEF Goroutine, RemoveMachine, MachineFails
<1>6. CASE RemoveAllVMs(p) \/ CloseBase(p) \/ GivesUp(p) \/ StepFails(p) \/ ConnYAMLStays(p) \/ Kill(p)
  BY <1>6 DEF RemoveAllVMs, CloseBase, GivesUp, StepFails, ConnYAMLStays, Kill
<1>7. CASE CleanupFails(p)
  <2>1. \/ Stage(p) = "close" /\ proc' = [proc EXCEPT ![p].pc = Place[Kind(p)]["closeBase"]]
        \/ Stage(p) = "delete"
    BY <1>7 DEF CleanupFails
  <2>2. CASE Stage(p) = "close" /\ proc' = [proc EXCEPT ![p].pc = Place[Kind(p)]["closeBase"]]
    <3>1. Goes(p, Place[Kind(p)]["closeBase"]) /\ Same(p)
      BY SMT, <2>2 DEF Shape, Goes, Kind, Run, Id, Fields, Same
    <3> QED BY <2>2, <3>1 DEF Skips
  <2> QED BY <1>1, <2>1, <2>2
<1>8. CASE \/ AcquireClusterLock(p) \/ createCommanderCluster(p) \/ ReleaseClusterLock(p) \/ CloseExisting(p)
           \/ DeleteCommanderCluster(p) \/ AcquireFails(p) \/ ReleaseFails(p)
  BY <1>1, <1>8 DEF AcquireClusterLock, createCommanderCluster, ReleaseClusterLock, CloseExisting,
     DeleteCommanderCluster, AcquireFails, ReleaseFails
<1> QED BY <1>2, <1>3, <1>4, <1>5, <1>6, <1>7, <1>8 DEF Acts, Create, Cleanup, Faults, Looks

\* A process that comes to its end is idle.
LEMMA OffIdle ==
    ASSUME NEW p, Off(p) PROVE Idle(p)'
BY DEF Off, Goes, Idle

Taking == {"prepare", "upload", "dhctl", "join", "modules", "ready", "use", "running", "connect"}

\* Where a run that goes on from a step has done what the step is for.
Takes(p) ==
    /\ Stage(p) = "prepare" => PrepareBootstrapConfig(p)
    /\ Stage(p) = "upload" => UploadBootstrapFiles(p)
    /\ Stage(p) = "dhctl" => Builds(p, "booted", TRUE)
    /\ Stage(p) = "join" => AddNodesToCluster(p)
    /\ Stage(p) = "modules" => EnableAndConfigureModules(p)
    /\ Stage(p) = "ready" => WaitForTestClusterReady(p)
    /\ Stage(p) = "use" => Use(p)
    /\ Stage(p) \in {"running", "connect"} => Can(p) /\ UNCHANGED <<vmVars, cluster>>
    /\ Stage(p) \in Taking => Advance(p)

\* A run that goes on from a step has done what the step is for.
LEMMA StepTaken ==
    ASSUME Shape, NEW p \in Procs, Acts(p), Kind(p) \notin Locking, ~ Removing(p), ~ Idle(p)'
    PROVE  Takes(p)
<1> SUFFICES ASSUME Stage(p) \in Taking PROVE Takes(p)
  BY DEF Takes, Taking
<1>1. \A how : ~ Ends(p, how)
  BY OnOff, OffIdle
<1>2. ~ Fails(p)
  BY OnOff, OffIdle
<1>3. CASE Looks(p)
  <2>1. Stage(p) \in {"running", "connect"}
    BY <1>3, LooksAre DEF Taking, LookStages
  <2> QED BY <1>3, <2>1, LooksAre DEF Takes, Own
<1>4. CASE \/ UploadBootstrapFiles(p) \/ AddNodesToCluster(p) \/ EnableAndConfigureModules(p)
           \/ WaitForTestClusterReady(p) \/ Use(p) \/ PrepareBootstrapConfig(p)
  <2>1. CASE UploadBootstrapFiles(p) BY <2>1 DEF Takes, UploadBootstrapFiles
  <2>2. CASE AddNodesToCluster(p) BY <2>2 DEF Takes, AddNodesToCluster
  <2>3. CASE EnableAndConfigureModules(p) BY <2>3 DEF Takes, EnableAndConfigureModules
  <2>4. CASE WaitForTestClusterReady(p) BY <2>4 DEF Takes, WaitForTestClusterReady
  <2>5. CASE Use(p) BY <2>5 DEF Takes, Use
  <2>6. CASE PrepareBootstrapConfig(p) BY <2>6 DEF Takes, PrepareBootstrapConfig
  <2> QED BY <1>4, <2>1, <2>2, <2>3, <2>4, <2>5, <2>6
<1>5. CASE BootstrapCluster(p) \/ ConnYAMLStays(p)
  BY <1>1, <1>5 DEF Takes, Taking, BootstrapCluster, ConnYAMLStays
<1>6. CASE \/ CheckConflicts(p) \/ Goroutine(p) \/ CreateVirtualMachines(p) \/ saveClusterState(p) \/ SaveFails(p)
           \/ loadClusterState(p) \/ AcquireClusterLock(p) \/ createCommanderCluster(p)
  BY <1>6 DEF Taking, CheckConflicts, Goroutine, CreateVirtualMachines, saveClusterState, SaveFails,
     loadClusterState, AcquireClusterLock, createCommanderCluster
<1>7. CASE \/ CloseTestCluster(p) \/ RemoveAllVMs(p) \/ CloseBase(p)
           \/ ReleaseClusterLock(p) \/ CloseExisting(p) \/ DeleteCommanderCluster(p) \/ AcquireFails(p)
           \/ ReleaseFails(p) \/ CleanupFails(p)
  BY <1>7 DEF Taking, CloseTestCluster, RemoveAllVMs, CloseBase, ReleaseClusterLock, CloseExisting,
     DeleteCommanderCluster, AcquireFails, ReleaseFails, CleanupFails
<1>8. CASE GivesUp(p) \/ StepFails(p) \/ Kill(p)
  BY <1>1, <1>2, <1>8 DEF GivesUp, StepFails, Kill
<1>9. CASE RemoveMachine(p) \/ MachineFails(p)
  <2>1. ~ RemoveVM(p) /\ ~ RemoveVMFails(p)
    BY DEF RemoveVM, RemoveVMFails, DeleteMachine, DeleteDisk, ListDisks, DeleteImage, RmAt
  <2> QED BY <1>9, <2>1 DEF Taking, RemoveMachine, MachineFails
<1> QED BY <1>3, <1>4, <1>5, <1>6, <1>7, <1>8, <1>9 DEF Acts, Create, Cleanup, Faults, Looks

-----------------------------------------------------------------------------
(* Files, clusters and what is noted of a run.                             *)

\* What a step may do to the files and to the cluster of its run.
FileSteps(p) ==
    /\ policy' = policy
    /\ state' = state \/ (Stage(p) = "save" /\ state' \in {0, Id(p)})
    /\ config' = config \/ (Stage(p) = "prepare" /\ config' = Id(p)) \/ Stage(p) = "dhctl"
ClusterSteps(p) ==
    \/ cluster' = cluster
    \/ Stage(p) = "upload" /\ Builds(p, "config", config)
    \/ Stage(p) = "dhctl" /\ Builds(p, "booted", TRUE)
    \/ Stage(p) = "join" /\ \E S : Builds(p, "joined", S)
    \/ Stage(p) = "modules" /\ Builds(p, "modules", env.modules)

\* Every step keeps to that.
LEMMA BuildEffect ==
    ASSUME NEW p \in Procs, Acts(p)
    PROVE  FileSteps(p) /\ ClusterSteps(p)
<1> USE DEF FileSteps, ClusterSteps
<1>1. CASE Looks(p)
  BY <1>1, LooksAre DEF Own, files, vmVars
<1>2. CASE \/ UploadBootstrapFiles(p) \/ AddNodesToCluster(p) \/ EnableAndConfigureModules(p)
           \/ WaitForTestClusterReady(p) \/ Use(p)
  BY <1>2 DEF UploadBootstrapFiles, AddNodesToCluster, EnableAndConfigureModules,
     WaitForTestClusterReady, Use,
     Own, files, vmVars
<1>3. CASE PrepareBootstrapConfig(p) \/ BootstrapCluster(p) \/ ConnYAMLStays(p) \/ saveClusterState(p)
  BY <1>3 DEF PrepareBootstrapConfig, BootstrapCluster, ConnYAMLStays, saveClusterState, vmVars
<1>4. CASE SaveFails(p) \/ loadClusterState(p) \/ CloseBase(p) \/ CloseExisting(p) \/ GivesUp(p) \/ CleanupFails(p)
  BY <1>4 DEF SaveFails, loadClusterState, CloseBase, CloseExisting, GivesUp, CleanupFails, Own, files,
     vmVars
<1>5. CASE \/ AcquireClusterLock(p) \/ AcquireFails(p) \/ ReleaseClusterLock(p) \/ ReleaseFails(p)
           \/ createCommanderCluster(p) \/ DeleteCommanderCluster(p)
  BY <1>5 DEF AcquireClusterLock, AcquireFails, ReleaseClusterLock, ReleaseFails, createCommanderCluster,
     DeleteCommanderCluster, Locks, files, vmVars
<1>6. CASE CheckConflicts(p) \/ CreateVirtualMachines(p) \/ CloseTestCluster(p) \/ RemoveAllVMs(p)
  BY <1>6 DEF CheckConflicts, CreateVirtualMachines, CloseTestCluster, RemoveAllVMs, Machines, files
<1>7. CASE StepFails(p)
  BY <1>7 DEF StepFails, addNodesInPart, files, vmVars
<1>8. CASE Kill(p)
  BY <1>8 DEF Kill
<1>9. CASE Goroutine(p)
  BY <1>9 DEF Goroutine, createCVI, GetImage, CreateImage, waitForClusterVirtualImageReady, createVM,
     CreateDisk, CreateMachine, Machines, files
<1>10. CASE RemoveMachine(p)
  BY <1>10 DEF RemoveMachine, RemoveVM, DeleteMachine, DeleteDisk, ListDisks, DeleteImage, Machines,
     files
<1>11. CASE MachineFails(p)
  BY <1>11 DEF MachineFails, GoroutineFails, RemoveVMFails, Machines, files
<1> QED BY <1>1, <1>2, <1>3, <1>4, <1>5, <1>6, <1>7, <1>8, <1>9, <1>10, <1>11
     DEF Acts, Create, Cleanup, Faults, Looks

\* What is noted, and what is not.
LEMMA NoteIs ==
    ASSUME Shape, NEW f \in Pasts, NEW r, Note(f, r)
    PROVE  /\ r \in past'[f]
           /\ f # "delivered" => past'.delivered = past.delivered
           /\ f = "delivered" => past'.delivered = past.delivered \cup {r}
<1>1. past' = [past EXCEPT ![f] = @ \cup {r}] /\ DOMAIN past = Pasts
  BY DEF Note, Shape
<1>2. "delivered" \in Pasts
  BY DEF Pasts
<1> QED BY SMT, <1>1, <1>2

\* A run is disturbed when a call of it fails, and nothing else is noted of it.
Disturbed(p) == Run(p) \in past'.disturbed /\ past'.delivered = past.delivered

\* A call that fails disturbs its run.
LEMMA FaultIs ==
    ASSUME Shape, NEW p \in Procs
    PROVE  /\ Fault(p) => Disturbed(p)
           /\ ConnYAMLStays(p) \/ AcquireFails(p) \/ ReleaseFails(p) => Disturbed(p)
<1>1. "disturbed" \in Pasts /\ "delivered" \in Pasts /\ DOMAIN past = Pasts /\ "disturbed" # "delivered"
      /\ "kept" # "delivered" /\ "kept" # "disturbed" /\ "lockLost" # "delivered" /\ "lockLost" # "disturbed"
      /\ "kept" \in Pasts /\ "lockLost" \in Pasts
  BY SMT DEF Pasts, Shape
<1>2. ASSUME Note("disturbed", Run(p)) PROVE Disturbed(p)
  BY <1>1, <1>2, NoteIs DEF Disturbed
<1>4. ASSUME ConnYAMLStays(p) PROVE Disturbed(p)
  <2>1. past' = [past EXCEPT !.disturbed = @ \cup {Run(p)}, !.kept = @ \cup {Run(p)}]
    BY <1>4 DEF ConnYAMLStays
  <2> QED BY SMT, <2>1, <1>1 DEF Disturbed
<1>5. ASSUME AcquireFails(p) \/ ReleaseFails(p) PROVE Disturbed(p)
  <2>1. \/ Note("disturbed", Run(p))
        \/ past' = [past EXCEPT !.disturbed = @ \cup {Run(p)}, !.lockLost = @ \cup {Run(p)}]
    BY <1>5 DEF AcquireFails, ReleaseFails, Fault
  <2>2. CASE past' = [past EXCEPT !.disturbed = @ \cup {Run(p)}, !.lockLost = @ \cup {Run(p)}]
    BY SMT, <2>2, <1>1 DEF Disturbed
  <2> QED BY <2>1, <2>2, <1>2
<1> QED BY <1>2, <1>4, <1>5 DEF Fault

\* A cluster is delivered by the run that has built it, when it is ready.
Delivers(p) ==
    Stage(p) = "ready" /\ Kind(p) = "create" /\ On(p) /\ past'.delivered = past.delivered \cup {Id(p)}

\* Why a run that no call has failed may fail.
Reason(p) ==
    \/ Run(p) \in past'.disturbed
    \/ Hopeless(p)
    \/ Stage(p) = "conflicts" /\ checkResourceConflicts # {}
    \/ Stage(p) \in {"images", "machines"} /\ Failed(p)
PastSteps(p) ==
    /\ past'.delivered = past.delivered \/ Delivers(p)
    /\ Use(p) => Id(p) \in past'.cleaned
    /\ Making(p) /\ Off(p) /\ proc'[p].ended = "failed" => Reason(p)

\* Every step keeps to that.
LEMMA PastEffect ==
    ASSUME Shape, NEW p \in Procs, Acts(p)
    PROVE  PastSteps(p)
<1> DEFINE Quiet == past'.delivered = past.delivered
           Grave == Making(p) /\ Off(p) /\ proc'[p].ended = "failed" => Reason(p)
<1> USE OnOff
<1>0. "cleaned" \in Pasts /\ "cleaned" # "delivered" /\ "delivered" \in Pasts /\ "resumed" \in Pasts
      /\ "resumed" # "delivered" /\ "clean" \in Pasts /\ "clean" # "delivered"
      /\ "twice" \in Pasts /\ "twice" # "delivered" /\ "panic" # "failed" /\ "done" # "failed" /\ "killed" # "failed"
  BY SMT DEF Pasts
<1>1. NoFault => Quiet
  BY DEF NoFault
<1>2. On(p) => Grave
  <2>1. ASSUME On(p), Making(p), Off(p) PROVE FALSE
    <3>1. ~ Idle(p)' /\ Idle(p)'
      BY <2>1, NotIdle, OffIdle DEF On, Making
    <3> QED BY <3>1
  <2> QED BY <2>1
<1>3. ~ Use(p) \/ (Stage(p) = "use" /\ Advance(p) /\ Note("cleaned", Id(p)))
  BY DEF Use
<1>4. CASE Use(p)
  BY <1>0, <1>2, <1>3, <1>4, NoteIs DEF PastSteps
<1>5. SUFFICES ASSUME ~ Use(p) PROVE (Quiet \/ Delivers(p)) /\ Grave
  BY <1>4 DEF PastSteps
<1>6. CASE Looks(p)
  BY <1>1, <1>2, <1>6, LooksAre
<1>7. CASE \/ UploadBootstrapFiles(p) \/ AddNodesToCluster(p) \/ EnableAndConfigureModules(p) \/ BootstrapCluster(p)
           \/ PrepareBootstrapConfig(p) \/ saveClusterState(p) \/ createCommanderCluster(p) \/ CloseTestCluster(p)
  BY <1>1, <1>2, <1>7 DEF UploadBootstrapFiles, AddNodesToCluster, EnableAndConfigureModules,
     BootstrapCluster,
     PrepareBootstrapConfig, saveClusterState, createCommanderCluster, CloseTestCluster
<1>8. CASE WaitForTestClusterReady(p)
  BY <1>0, <1>2, <1>8, NoteIs DEF WaitForTestClusterReady, Delivers
<1>9. CASE CheckConflicts(p) \/ CreateVirtualMachines(p) \/ GivesUp(p)
  BY <1>1, <1>2, <1>9 DEF CheckConflicts, CreateVirtualMachines, GivesUp, Reason
<1>10. CASE Goroutine(p) \/ RemoveMachine(p)
  <2>1. NoFault /\ proc' = proc
    BY <1>10 DEF Goroutine, RemoveMachine
  <2>2. ~ (Making(p) /\ Off(p))
    BY <2>1, OffIdle DEF Making, Idle
  <2> QED BY <1>1, <2>1, <2>2
<1>11. CASE loadClusterState(p)
  <2>1. Stage(p) = "saved" => ~ Making(p)
    BY StageKinds DEF Making
  <2> QED BY <1>0, <1>11, <2>1, NoteIs DEF loadClusterState
<1>12. CASE RemoveAllVMs(p) \/ CloseBase(p) \/ CloseExisting(p) \/ DeleteCommanderCluster(p)
  BY <1>0, <1>1, <1>2, <1>12, NoteIs DEF RemoveAllVMs, CloseBase, CloseExisting, DeleteCommanderCluster
<1>13. CASE AcquireClusterLock(p) \/ ReleaseClusterLock(p)
  <2>1. ~ Making(p)
    BY <1>13, LockersOnly DEF AcquireClusterLock, ReleaseClusterLock, Making, Locking
  <2>2. CASE AcquireClusterLock(p)
    BY <1>1, <2>1, <2>2 DEF AcquireClusterLock
  <2>3. CASE ReleaseClusterLock(p)
    <3>1. \E v : past' = [past EXCEPT !.twice = v]
      BY <2>3 DEF ReleaseClusterLock
    <3>2. Quiet
      BY SMT, <3>1, <1>0 DEF Shape
    <3> QED BY <2>1, <3>2
  <2> QED BY <1>13, <2>2, <2>3
<1>14. CASE Faults(p)
  <2>1. Fault(p) \/ ConnYAMLStays(p) \/ AcquireFails(p) \/ ReleaseFails(p)
    BY <1>14 DEF Faults, StepFails, SaveFails, MachineFails, CleanupFails, Kill
  <2> QED BY <2>1, FaultIs DEF Disturbed, Reason
<1> QED BY <1>4, <1>6, <1>7, <1>8, <1>9, <1>10, <1>11, <1>12, <1>13, <1>14
     DEF Acts, Create, Cleanup, Looks, PastSteps

-----------------------------------------------------------------------------
(* Machines and images.                                                    *)

RmFields == {"todo", "at", "image", "using"}
VmShape ==
    /\ DOMAIN images = Images /\ DOMAIN vms = Names
    /\ DOMAIN work = Procs /\ \A p \in Procs : DOMAIN work[p] = Nodes
    /\ DOMAIN rm = Procs
    /\ \A p \in Procs : DOMAIN rm[p] = RmFields /\ rm[p].todo \in Seq(Names)

\* What a step may do to machines, images, goroutines and the list of a RemoveVM.
VmsSteps(p) ==
    /\ DOMAIN vms' = Names
    /\ \A v \in Names : \/ vms'[v] = vms[v]
                        \/ Stage(p) \in {"images", "machines"} /\ v[1] = Id(p)
                        \/ Removing(p) /\ v = Vm(p)
ImageSteps(p) ==
    /\ DOMAIN images' = Images
    /\ \A i \in Images : /\ images'[i] = "absent" => images[i] = "absent" \/ Removing(p)
                         /\ images'[i] \in {images[i], "absent", "loading"}
WorkSteps(p) ==
    /\ DOMAIN work' = Procs
    /\ \A q \in Procs : DOMAIN work'[q] = Nodes /\ (q # p => work'[q] = work[q])
RmOthers(p) ==
    /\ DOMAIN rm' = Procs
    /\ \A q \in Procs : DOMAIN rm'[q] = RmFields /\ (q # p => rm'[q] = rm[q])
RmSteps(p) ==
    /\ RmOthers(p)
    /\ \/ rm'[p].todo = rm[p].todo
       \/ rm'[p].todo = <<>>
       \/ Removing(p) /\ proc' = proc /\ rm'[p].todo = Tail(rm[p].todo)
       \/ CloseTestCluster(p) /\ rm'[p].todo = <<Name(Id(p), Setup)>>
       \/ RemoveAllVMs(p) /\ Kind(p) = "create" /\ rm'[p].todo = vmNames(Id(p))
VmSteps(p) == VmsSteps(p) /\ ImageSteps(p) /\ WorkSteps(p) /\ RmSteps(p)

\* A step of RemoveVM, or one that fails.
LEMMA RemoveDoes ==
    ASSUME VmShape, NEW p \in Procs, RemoveVM(p) \/ RemoveVMFails(p)
    PROVE  /\ Removing(p) /\ work' = work
           /\ VmsSteps(p) /\ ImageSteps(p) /\ RmOthers(p)
           /\ rm'[p].todo = rm[p].todo \/ rm'[p].todo = Tail(rm[p].todo)
<1>1. Removing(p) /\ work' = work
  BY DEF RemoveVM, RemoveVMFails, DeleteMachine, DeleteDisk, ListDisks, DeleteImage, RmAt
<1>2. vms' = vms \/ \E x : vms' = [vms EXCEPT ![Vm(p)] = x]
  BY DEF RemoveVM, RemoveVMFails, DeleteMachine, DeleteDisk, ListDisks, DeleteImage, objects
<1>3. VmsSteps(p)
  BY SMT, <1>1, <1>2 DEF VmsSteps, VmShape
<1>4. DOMAIN images' = Images /\ \A i \in Images : images'[i] \in {images[i], "absent", "loading"}
  <2>1. images' = images \/ \E i : images' = [images EXCEPT ![i] = "absent"]
    BY DEF RemoveVM, RemoveVMFails, DeleteMachine, DeleteDisk, ListDisks, DeleteImage, objects
  <2> QED BY SMT, <2>1 DEF VmShape
<1>5. ImageSteps(p)
  BY <1>1, <1>4 DEF ImageSteps
<1>6. \/ Next1(p) \/ \E l : RmGo(p, l)
      \/ \E l, i : rm' = [rm EXCEPT ![p].at = l, ![p].image = i]
      \/ \E l, u : rm' = [rm EXCEPT ![p].at = l, ![p].using = u]
  BY DEF RemoveVM, RemoveVMFails, DeleteMachine, DeleteDisk, ListDisks, DeleteImage
<1>7. NoRm = [todo |-> <<>>, at |-> "get", image |-> "none", using |-> FALSE]
  BY SMT DEF NoRm
<1>8. RmOthers(p) /\ (rm'[p].todo = rm[p].todo \/ rm'[p].todo = Tail(rm[p].todo))
  <2>1. CASE Next1(p)
    BY SMT, <2>1, <1>7 DEF RmOthers, Next1, VmShape, RmFields
  <2>2. CASE \E l : RmGo(p, l)
    BY SMT, <2>2 DEF RmOthers, RmGo, VmShape, RmFields
  <2>3. CASE \E l, i : rm' = [rm EXCEPT ![p].at = l, ![p].image = i]
    BY SMT, <2>3 DEF RmOthers, VmShape, RmFields
  <2>4. CASE \E l, u : rm' = [rm EXCEPT ![p].at = l, ![p].using = u]
    BY SMT, <2>4 DEF RmOthers, VmShape, RmFields
  <2> QED BY <1>6, <2>1, <2>2, <2>3, <2>4
<1> QED BY <1>1, <1>3, <1>5, <1>8

\* The images of the nodes, and the names of machines.
LEMMA NodeFacts ==
    /\ \A n \in Nodes : ImageOf[n] \in Images
    /\ \A n \in Nodes, r \in Runs : Name(r, n) \in Names /\ Name(r, n)[1] = r /\ Name(r, n)[2] = n
    /\ \A v \in Names : v[1] \in Runs /\ v[2] \in Nodes /\ v = Name(v[1], v[2])
<1>1. \A n \in Nodes : ImageOf[n] \in Images
  BY DEF Images
<1>2. \A n \in Nodes, r \in Runs : Name(r, n) \in Names /\ Name(r, n)[1] = r /\ Name(r, n)[2] = n
  BY SMT DEF Name, Names
<1>3. \A v \in Names : v[1] \in Runs /\ v[2] \in Nodes /\ v = Name(v[1], v[2])
  BY SMT DEF Name, Names
<1> QED BY <1>1, <1>2, <1>3

\* A step of createCVI or createVM, or one that fails.
Spawned(p) ==
    \E n \in Nodes : \/ Stage(p) = "images" /\ createCVI(p, n)
                     \/ Stage(p) = "machines" /\ createVM(p, n, Id(p))
                     \/ Stage(p) \in {"images", "machines"} /\ GoroutineFails(p, n, Id(p))

\* It makes machines of its own run, and takes no image away.
LEMMA SpawnDoes ==
    ASSUME VmShape, NEW p \in Procs, Id(p) \in Runs, Spawned(p)
    PROVE  VmsSteps(p) /\ ImageSteps(p) /\ WorkSteps(p) /\ rm' = rm
<1>1. PICK n \in Nodes : \/ Stage(p) = "images" /\ createCVI(p, n)
                         \/ Stage(p) = "machines" /\ createVM(p, n, Id(p))
                         \/ Stage(p) \in {"images", "machines"} /\ GoroutineFails(p, n, Id(p))
  BY DEF Spawned
<1>2. rm' = rm /\ \E w : work' = [work EXCEPT ![p][n] = w]
  BY <1>1 DEF createCVI, GetImage, CreateImage, waitForClusterVirtualImageReady, createVM,
     CreateDisk, CreateMachine, GoroutineFails, Go
<1>3. WorkSteps(p)
  BY SMT, <1>2 DEF WorkSteps, VmShape
<1>4. Stage(p) \in {"images", "machines"} /\ (vms' = vms \/ vms' = [vms EXCEPT ![Name(Id(p), n)] = "starting"])
  BY <1>1 DEF createCVI, GetImage, CreateImage, waitForClusterVirtualImageReady, createVM,
     CreateDisk, CreateMachine, GoroutineFails, objects
<1>5. Name(Id(p), n)[1] = Id(p)
  BY NodeFacts
<1>6. VmsSteps(p)
  BY SMT, <1>4, <1>5 DEF VmsSteps, VmShape
<1>7. \/ images' = images
      \/ images' = [images EXCEPT ![ImageOf[n]] = IF @ = "absent" THEN "loading" ELSE @]
      \/ images' = [images EXCEPT ![ImageOf[n]] = "loading"]
  BY <1>1 DEF createCVI, GetImage, CreateImage, waitForClusterVirtualImageReady, createVM,
     CreateDisk, CreateMachine, GoroutineFails, objects
<1>8. ImageSteps(p)
  BY SMT, <1>7 DEF ImageSteps, VmShape
<1> QED BY <1>2, <1>3, <1>6, <1>8

\* A run that builds has its own number, one that resumes that of an earlier run.
Ids ==
    /\ state \in 0 .. runs
    /\ \A p \in Procs : Making(p) => Id(p) = Run(p) /\ proc[p].ended = "none"
    /\ \A p \in Procs : Resuming(p) => Id(p) \in 1 .. runs

\* The cluster of a run has the number of a run that was started.
LEMMA IdFacts ==
    ASSUME Shape, Ids, NEW p \in Procs
    PROVE  /\ Making(p) => Id(p) = Run(p) /\ Run(p) \in Runs /\ Run(p) \in 1 .. runs
           /\ Resuming(p) => Id(p) \in Runs /\ Id(p) \in 1 .. runs
           /\ Making(p) \/ Resuming(p) => Id(p) \in Runs /\ Id(p) \in 1 .. runs
<1>1. runs \in 0 .. MaxRuns /\ Run(p) \in 0 .. runs /\ (Run(p) = 0 => Idle(p)) /\ MaxRuns \in Nat
  BY BoundAssumption DEF Shape
<1>2. Run(p) # 0 => Run(p) \in Runs /\ Run(p) \in 1 .. runs
  BY SMT, <1>1 DEF Runs
<1>3. \A i \in 1 .. runs : i \in Runs
  BY SMT, <1>1 DEF Runs
<1>4. Making(p) => Run(p) # 0
  BY <1>1 DEF Making
<1> QED BY <1>2, <1>3, <1>4 DEF Ids

\* A process is where it was, and so are the others when p takes a step.
LEMMA Unmoved ==
    ASSUME NEW q, proc'[q] = proc[q]
    PROVE  /\ Idle(q)' = Idle(q) /\ Kind(q)' = Kind(q) /\ Run(q)' = Run(q) /\ Id(q)' = Id(q)
           /\ Stage(q)' = Stage(q) /\ proc'[q] = proc[q]
           /\ Making(q)' = Making(q) /\ Resuming(q)' = Resuming(q)
<1>1. Idle(q)' = Idle(q) /\ Kind(q)' = Kind(q) /\ Run(q)' = Run(q) /\ Id(q)' = Id(q)
  BY DEF Idle, Kind, Run, Id
<1>2. Stage(q)' = Stage(q)
  BY SMT DEF Stage, Idle
<1> QED BY <1>1, <1>2 DEF Making, Resuming

\* A step of one process leaves what another one is at.
LEMMA OthersStay ==
    ASSUME NEW p \in Procs, Moves(p), NEW q \in Procs, q # p
    PROVE  /\ Idle(q)' = Idle(q) /\ Kind(q)' = Kind(q) /\ Run(q)' = Run(q) /\ Id(q)' = Id(q)
           /\ Stage(q)' = Stage(q) /\ proc'[q] = proc[q]
           /\ Making(q)' = Making(q) /\ Resuming(q)' = Resuming(q)
<1>1. proc'[q] = proc[q]
  BY DEF Moves
<1> QED BY <1>1, Unmoved

\* A process that is not idle and builds or resumes was the same before.
LEMMA SelfBefore ==
    ASSUME NEW p \in Procs, Moves(p)
    PROVE  /\ Making(p)' => Making(p) /\ Kind(p) \notin Locking
           /\ Resuming(p)' => Resuming(p) /\ Kind(p) \notin Locking
           /\ Run(p)' = Run(p) /\ Kind(p)' = Kind(p)
<1>1. proc'[p].kind = Kind(p) /\ proc'[p].run = Run(p) /\ (Idle(p) => proc'[p] = proc[p])
  BY DEF Moves
<1>2. Run(p)' = Run(p) /\ Kind(p)' = Kind(p)
  BY <1>1 DEF Run, Kind
<1>3. ~ Idle(p)' => ~ Idle(p)
  BY <1>1 DEF Idle
<1>4. "create" \notin Locking /\ "resume" \notin Locking
  BY SMT DEF Locking
<1> QED BY <1>2, <1>3, <1>4 DEF Making, Resuming

\* A step keeps the numbers right.
LEMMA IdsStep ==
    ASSUME Shape, Ids, NEW p \in Procs, Acts(p) PROVE Ids'
<1>1. Moves(p) /\ Frame
  BY ActionMoves DEF Acts
<1>2. runs' = runs /\ FileSteps(p)
  BY <1>1, BuildEffect DEF Frame
<1>3. state' \in 0 .. runs
  <2>1. CASE state' = state
    BY <2>1 DEF Ids
  <2>2. CASE Stage(p) = "save" /\ state' \in {0, Id(p)}
    <3>1. Making(p)
      BY <2>2, StageKinds DEF Building, Making
    <3>2. Id(p) \in 1 .. runs /\ runs \in 0 .. MaxRuns /\ MaxRuns \in Nat
      BY <3>1, IdFacts, BoundAssumption DEF Shape
    <3> QED BY SMT, <2>2, <3>2
  <2> QED BY <1>2, <2>1, <2>2 DEF FileSteps
<1>4. ASSUME NEW q \in Procs
      PROVE  /\ Making(q)' => Id(q)' = Run(q)' /\ proc'[q].ended = "none"
             /\ Resuming(q)' => Id(q)' \in 1 .. runs
  <2>1. CASE q # p
    BY <1>1, <2>1, OthersStay DEF Ids
  <2>2. CASE q = p
    <3> SUFFICES ASSUME Making(p)' \/ Resuming(p)'
                 PROVE  /\ Making(p)' => Id(p)' = Run(p)' /\ proc'[p].ended = "none"
                        /\ Resuming(p)' => Id(p)' \in 1 .. runs
      BY <2>2
    <3>1. Run(p)' = Run(p) /\ Kind(p) \notin Locking /\ ~ Idle(p) /\ ~ Idle(p)'
      BY <1>1, SelfBefore DEF Making, Resuming
    <3>2. proc' = proc \/ On(p) \/ Loads(p) \/ Skips(p)
      BY <3>1, ProcEffect, OffIdle
    <3>3. ASSUME Making(p)' PROVE Id(p)' = Run(p)' /\ proc'[p].ended = "none"
      <4>1. Making(p) /\ Id(p) = Run(p) /\ proc[p].ended = "none"
        BY <3>3, <1>1, SelfBefore DEF Ids
      <4>2. ~ Loads(p)
        BY <4>1, StageKinds DEF Loads, Making
      <4>3. CASE proc' = proc
        BY <4>1, <4>3, <3>1 DEF Id
      <4> QED BY <3>1, <3>2, <4>1, <4>2, <4>3 DEF On, Skips, Same
    <3>4. ASSUME Resuming(p)' PROVE Id(p)' \in 1 .. runs
      <4>1. Resuming(p) /\ Id(p) \in 1 .. runs
        BY <3>4, <1>1, SelfBefore DEF Ids
      <4>2. CASE Loads(p)
        <5>1. state \in 0 .. runs /\ state # 0 /\ Id(p)' = state /\ runs \in 0 .. MaxRuns /\ MaxRuns \in Nat
          BY <4>2, BoundAssumption DEF Loads, Ids, Shape
        <5> QED BY SMT, <5>1
      <4>3. CASE proc' = proc
        BY <4>1, <4>3 DEF Id
      <4> QED BY <3>2, <4>1, <4>2, <4>3 DEF On, Skips, Same
    <3> QED BY <3>3, <3>4
  <2> QED BY <2>1, <2>2
<1> QED BY <1>2, <1>3, <1>4 DEF Ids

\* Steps that change nothing of a part.
LEMMA VmQuiet ==
    ASSUME VmShape, NEW p \in Procs
    PROVE  /\ vms' = vms => VmsSteps(p)
           /\ images' = images => ImageSteps(p)
           /\ work' = work => WorkSteps(p)
           /\ \A w : Begin(p, w) => WorkSteps(p)
           /\ rm' = rm => RmSteps(p)
           /\ \A t : RemoveVMs(p, t) => RmOthers(p) /\ rm'[p].todo = t
<1>1. vms' = vms => VmsSteps(p)
  BY DEF VmsSteps, VmShape
<1>2. images' = images => ImageSteps(p)
  BY DEF ImageSteps, VmShape
<1>3. work' = work => WorkSteps(p)
  BY DEF WorkSteps, VmShape
<1>4. \A w : Begin(p, w) => WorkSteps(p)
  BY SMT DEF WorkSteps, VmShape, Begin
<1>5. rm' = rm => RmSteps(p)
  BY DEF RmSteps, RmOthers, VmShape
<1>6. \A t : RemoveVMs(p, t) => RmOthers(p) /\ rm'[p].todo = t
  BY SMT DEF RemoveVMs, RmOthers, VmShape, NoRm, RmFields
<1> QED BY <1>1, <1>2, <1>3, <1>4, <1>5, <1>6

\* Every step keeps to that.
LEMMA VmEffect ==
    ASSUME Shape, Ids, VmShape, NEW p \in Procs, Acts(p)
    PROVE  VmSteps(p)
<1> USE VmQuiet DEF VmSteps
<1>1. UNCHANGED vmVars => VmSteps(p)
  BY DEF vmVars, objects
<1>2. CASE Looks(p)
  BY <1>1, <1>2, LooksAre DEF Own
<1>3. CASE \/ UploadBootstrapFiles(p) \/ AddNodesToCluster(p) \/ EnableAndConfigureModules(p)
           \/ WaitForTestClusterReady(p) \/ Use(p) \/ SaveFails(p) \/ loadClusterState(p) \/ CloseBase(p)
           \/ CloseExisting(p) \/ GivesUp(p) \/ CleanupFails(p)
  <2>1. Own
    BY <1>3 DEF UploadBootstrapFiles, AddNodesToCluster, EnableAndConfigureModules,
       WaitForTestClusterReady, Use,
       SaveFails, loadClusterState, CloseBase, CloseExisting, GivesUp, CleanupFails
  <2> QED BY <1>1, <2>1 DEF Own
<1>4. CASE \/ PrepareBootstrapConfig(p) \/ BootstrapCluster(p) \/ ConnYAMLStays(p) \/ saveClusterState(p)
           \/ createCommanderCluster(p) \/ DeleteCommanderCluster(p) \/ StepFails(p)
  BY <1>1, <1>4 DEF PrepareBootstrapConfig, BootstrapCluster, ConnYAMLStays, saveClusterState,
     createCommanderCluster, DeleteCommanderCluster, StepFails
<1>5. CASE AcquireClusterLock(p) \/ AcquireFails(p) \/ ReleaseClusterLock(p) \/ ReleaseFails(p)
  BY <1>1, <1>5 DEF AcquireClusterLock, AcquireFails, ReleaseClusterLock, ReleaseFails, Locks
<1>6. CASE CheckConflicts(p) \/ CreateVirtualMachines(p)
  BY <1>6 DEF CheckConflicts, CreateVirtualMachines, objects
<1>7. CASE Spawned(p)
  <2>1. Making(p)
    BY <1>7, StageKinds DEF Spawned, Building, Making
  <2> QED BY <1>7, <2>1, IdFacts, SpawnDoes
<1>8. CASE CloseTestCluster(p)
  BY <1>8 DEF CloseTestCluster, objects, RmSteps
<1>9. CASE RemoveAllVMs(p)
  <2>1. vms' = vms /\ images' = images /\ work' = work
    BY <1>9 DEF RemoveAllVMs, objects
  <2>2. (Kind(p) = "create" /\ RemoveVMs(p, vmNames(Id(p)))) \/ rm' = rm
    BY <1>9 DEF RemoveAllVMs
  <2> QED BY <1>9, <2>1, <2>2 DEF RmSteps
<1>10. CASE proc' = proc /\ (RemoveVM(p) \/ RemoveVMFails(p))
  BY <1>10, RemoveDoes DEF RmSteps
<1>11. CASE Kill(p)
  <2>1. vms' = vms /\ images' = images /\ work' = [work EXCEPT ![p] = NoWork] /\ rm' = [rm EXCEPT ![p] = NoRm]
    BY <1>11 DEF Kill, objects
  <2>2. WorkSteps(p)
    BY SMT, <2>1 DEF WorkSteps, VmShape, NoWork
  <2>3. RmOthers(p) /\ rm'[p].todo = <<>>
    BY SMT, <2>1 DEF RmOthers, VmShape, NoRm, RmFields
  <2> QED BY <2>1, <2>2, <2>3 DEF RmSteps
<1>12. Goroutine(p) \/ RemoveMachine(p) \/ MachineFails(p) =>
          proc' = proc /\ (Spawned(p) \/ RemoveVM(p) \/ RemoveVMFails(p))
  BY DEF Goroutine, RemoveMachine, MachineFails, Spawned
<1> QED BY <1>2, <1>3, <1>4, <1>5, <1>6, <1>7, <1>8, <1>9, <1>10, <1>11, <1>12
     DEF Acts, Create, Cleanup, Faults, Looks

-----------------------------------------------------------------------------
(* RemoveVM.                                                               *)

\* RemoveVM is run in the cleanup, on machines of the run; a resumed run removes the
\* setup machine and no other.
Removals ==
    \A p \in Procs : Removing(p) =>
        /\ Stage(p) \in {"removeSetup", "removeAll"}
        /\ \A v \in Range(rm[p].todo) : v[1] = Id(p) /\ (Kind(p) = "resume" => v[2] = Setup)

\* The setup machine, the first master and the workers are machines of a run.
LEMMA NodesAre ==
    /\ Setup \in Nodes /\ \E n \in Nat : DOMAIN VMNodes = 1 .. n
    /\ Head(Masters) \in Nodes \ {Setup} /\ Range(Workers) \subseteq Nodes \ {Setup}
<1> DEFINE M == Len(Masters)  W == Len(Workers)
<1>1. /\ Masters \in Seq(Range(Masters)) /\ Masters # <<>> /\ Workers \in Seq(Range(Workers))
      /\ Setup \notin Range(Masters) \cup Range(Workers)
  BY NodesAssumption
<1>2. M \in Nat /\ W \in Nat /\ DOMAIN Masters = 1 .. M /\ DOMAIN Workers = 1 .. W /\ M # 0
  BY SMT, <1>1
<1>3. /\ DOMAIN VMNodes = 1 .. M + W + 1 /\ VMNodes[M + W + 1] = Setup
      /\ \A i \in 1 .. M : VMNodes[i] = Masters[i]
      /\ \A i \in 1 .. W : VMNodes[M + i] = Workers[i]
  BY SMT, <1>1, <1>2 DEF VMNodes
<1> HIDE DEF M, W
<1>4. M + W + 1 \in Nat /\ M + W + 1 \in 1 .. M + W + 1 /\ 1 \in 1 .. M
      /\ (\A i \in 1 .. M : i \in 1 .. M + W + 1) /\ \A i \in 1 .. W : M + i \in 1 .. M + W + 1
  BY SMT, <1>2
<1>5. \A i \in 1 .. M : Masters[i] \in Nodes
  BY <1>3, <1>4 DEF Nodes, Range
<1>6. \A i \in 1 .. W : Workers[i] \in Nodes
  BY <1>3, <1>4 DEF Nodes, Range
<1>7. Setup \in Nodes
  BY <1>3, <1>4 DEF Nodes, Range
<1>8. Head(Masters) = Masters[1]
  BY SMT, <1>1
<1>9. Head(Masters) \in Range(Masters) /\ Head(Masters) \in Nodes
  BY <1>2, <1>4, <1>5, <1>8 DEF Range
<1>10. Range(Workers) \subseteq Nodes
  BY <1>2, <1>6 DEF Range
<1> QED BY <1>1, <1>3, <1>4, <1>7, <1>9, <1>10

\* The names RemoveVM is given, and those that remain.
LEMMA Lists ==
    /\ \A r \in Runs : /\ <<Name(r, Setup)>> \in Seq(Names) /\ vmNames(r) \in Seq(Names)
                       /\ \A v \in Range(<<Name(r, Setup)>>) : v[1] = r /\ v[2] = Setup
                       /\ \A v \in Range(vmNames(r)) : v[1] = r
    /\ \A t \in Seq(Names) : t # <<>> =>
         /\ Tail(t) \in Seq(Names) /\ Head(t) \in Range(t) /\ Head(t) \in Names
         /\ \A v \in Range(Tail(t)) : v \in Range(t)
<1>1. Setup \in Nodes /\ \E n \in Nat : DOMAIN VMNodes = 1 .. n
  BY NodesAre
<1>2. ASSUME NEW r \in Runs
      PROVE  /\ <<Name(r, Setup)>> \in Seq(Names) /\ vmNames(r) \in Seq(Names)
             /\ \A v \in Range(<<Name(r, Setup)>>) : v[1] = r /\ v[2] = Setup
             /\ \A v \in Range(vmNames(r)) : v[1] = r
  <2>1. Name(r, Setup) \in Names /\ Name(r, Setup)[1] = r /\ Name(r, Setup)[2] = Setup
    BY <1>1, NodeFacts
  <2>2. <<Name(r, Setup)>> \in Seq(Names) /\ \A i \in DOMAIN <<Name(r, Setup)>> : <<Name(r, Setup)>>[i] = Name(r, Setup)
    BY SMT, <2>1
  <2>3. \A i \in DOMAIN VMNodes : vmNames(r)[i] = Name(r, VMNodes[i]) /\ VMNodes[i] \in Nodes
    BY DEF vmNames, Nodes, Range
  <2>4. ASSUME NEW i \in DOMAIN VMNodes PROVE vmNames(r)[i] \in Names /\ vmNames(r)[i][1] = r
    <3>1. Name(r, VMNodes[i]) \in Names /\ Name(r, VMNodes[i])[1] = r /\ vmNames(r)[i] = Name(r, VMNodes[i])
      BY <2>3, NodeFacts
    <3> QED BY SMT, <3>1
  <2>5. DOMAIN vmNames(r) = DOMAIN VMNodes
    BY DEF vmNames
  <2>6. vmNames(r) \in Seq(Names)
    <3>1. PICK n \in Nat : DOMAIN VMNodes = 1 .. n
      BY <1>1
    <3>2. vmNames(r) = [i \in 1 .. n |-> Name(r, VMNodes[i])] /\ \A i \in 1 .. n : Name(r, VMNodes[i]) \in Names
      BY <3>1, <2>3, NodeFacts DEF vmNames
    <3> QED BY SMT, <3>2
  <2> QED BY <2>1, <2>2, <2>4, <2>5, <2>6 DEF Range
<1>3. ASSUME NEW t \in Seq(Names), t # <<>>
      PROVE  /\ Tail(t) \in Seq(Names) /\ Head(t) \in Range(t) /\ Head(t) \in Names
             /\ \A v \in Range(Tail(t)) : v \in Range(t)
  <2>1. 1 \in DOMAIN t /\ Head(t) = t[1] /\ Head(t) \in Names /\ Tail(t) \in Seq(Names)
    BY SMT, <1>3
  <2>2. \A i \in DOMAIN Tail(t) : i + 1 \in DOMAIN t /\ Tail(t)[i] = t[i + 1]
    BY SMT, <1>3
  <2>3. Head(t) \in Range(t)
    BY <2>1 DEF Range
  <2>4. ASSUME NEW v \in Range(Tail(t)) PROVE v \in Range(t)
    <3>1. PICK i \in DOMAIN Tail(t) : v = Tail(t)[i]
      BY <2>4 DEF Range
    <3>2. i + 1 \in DOMAIN t /\ v = t[i + 1]
      BY <2>2, <3>1
    <3> QED BY <3>2 DEF Range
  <2> QED BY <2>1, <2>3, <2>4
<1> QED BY <1>2, <1>3

\* The steps of the cleanup follow one another.
LEMMA CleanupOrder ==
    ASSUME Shape, NEW p \in Procs, Kind(p) \in {"create", "resume"}, Goes(p, proc[p].pc + 1)
    PROVE  /\ Stage(p) = "close" => Stage(p)' = "removeSetup"
           /\ Stage(p) = "removeSetup" => Stage(p)' = "removeAll"
<1> DEFINE k == Kind(p)
<1>0. k \in Kinds
  BY DEF Shape
<1>1. Stage(p) \in {"close", "removeSetup"} => ~ Idle(p) /\ proc[p].pc = Place[k][Stage(p)]
  <2>1. Idle(p) => Stage(p) = "idle"
    BY DEF Stage
  <2>2. "idle" \notin {"close", "removeSetup"}
    OBVIOUS
  <2> QED BY <2>1, <2>2, AtPlace
<1>2. proc'[p].pc # 0 => Stage(p)' = Program[k][proc'[p].pc]
  BY DEF Stage, Idle, Goes, Kind
<1>3. CASE k = "create"
  <2>1. /\ Place["create"]["close"] = 21 /\ Place["create"]["removeSetup"] = 22
        /\ Program["create"][22] = "removeSetup" /\ Program["create"][23] = "removeAll"
    BY CreatePlaces, CreateProgram
  <2>2. Stage(p) = "close" => proc'[p].pc = 22
    BY SMT, <1>1, <1>3, <2>1 DEF Goes
  <2>3. Stage(p) = "removeSetup" => proc'[p].pc = 23
    BY SMT, <1>1, <1>3, <2>1 DEF Goes
  <2>4. 22 # 0 /\ 23 # 0
    BY SMT
  <2> QED BY <1>2, <1>3, <2>1, <2>2, <2>3, <2>4
<1>4. CASE k = "resume"
  <2>1. /\ Place["resume"]["close"] = 6 /\ Place["resume"]["removeSetup"] = 7
        /\ Program["resume"][7] = "removeSetup" /\ Program["resume"][8] = "removeAll"
    BY ResumePlaces, ResumeProgram
  <2>2. Stage(p) = "close" => proc'[p].pc = 7
    BY SMT, <1>1, <1>4, <2>1 DEF Goes
  <2>3. Stage(p) = "removeSetup" => proc'[p].pc = 8
    BY SMT, <1>1, <1>4, <2>1 DEF Goes
  <2>4. 7 # 0 /\ 8 # 0
    BY SMT
  <2> QED BY <1>2, <1>4, <2>1, <2>2, <2>3, <2>4
<1> QED BY <1>3, <1>4

\* A process that is in a RemoveVM does nothing else.
LEMMA RemovingStays ==
    ASSUME Shape, VmShape, Removals, NEW p \in Procs, Acts(p), Removing(p)
    PROVE  proc' = proc \/ rm'[p].todo = <<>>
<1>1. Stage(p) \in {"removeSetup", "removeAll"} /\ Stage(p) \in Leaving
  BY DEF Removals, Leaving
<1>2. CASE Looks(p)
  BY <1>1, <1>2, LooksAre DEF LookStages
<1>3. CASE GivesUp(p) \/ StepFails(p)
  BY <1>1, <1>3, HopelessAt, StepsAre DEF GivesUp, StepFails
<1>4. CASE Goroutine(p) \/ RemoveMachine(p) \/ MachineFails(p)
  BY <1>4 DEF Goroutine, RemoveMachine, MachineFails
<1>5. CASE Kill(p)
  <2>1. rm' = [rm EXCEPT ![p] = NoRm]
    BY <1>5 DEF Kill
  <2> QED BY SMT, <2>1 DEF NoRm, VmShape
<1>6. CASE RemoveAllVMs(p) \/ CloseBase(p)
  BY <1>1, <1>6 DEF RemoveAllVMs, CloseBase
<1>7. CASE \/ CheckConflicts(p) \/ CreateVirtualMachines(p) \/ saveClusterState(p) \/ loadClusterState(p)
           \/ PrepareBootstrapConfig(p) \/ UploadBootstrapFiles(p) \/ BootstrapCluster(p) \/ AddNodesToCluster(p)
           \/ EnableAndConfigureModules(p) \/ WaitForTestClusterReady(p) \/ AcquireClusterLock(p)
           \/ createCommanderCluster(p) \/ Use(p)
  BY <1>1, <1>7 DEF CheckConflicts, CreateVirtualMachines, saveClusterState, loadClusterState,
     PrepareBootstrapConfig, UploadBootstrapFiles, BootstrapCluster, AddNodesToCluster,
     EnableAndConfigureModules, WaitForTestClusterReady, AcquireClusterLock, createCommanderCluster, Use
<1>8. CASE \/ CloseTestCluster(p) \/ ReleaseClusterLock(p) \/ CloseExisting(p) \/ DeleteCommanderCluster(p)
           \/ ConnYAMLStays(p) \/ SaveFails(p) \/ AcquireFails(p) \/ ReleaseFails(p) \/ CleanupFails(p)
  BY <1>1, <1>8 DEF CloseTestCluster, ReleaseClusterLock, CloseExisting, DeleteCommanderCluster,
     ConnYAMLStays, SaveFails, AcquireFails, ReleaseFails, CleanupFails
<1> QED BY <1>2, <1>3, <1>4, <1>5, <1>6, <1>7, <1>8 DEF Acts, Create, Cleanup, Faults, Looks

\* A step keeps the lists of RemoveVM right.
LEMMA RemovalsStep ==
    ASSUME Shape, Ids, VmShape, Removals, NEW p \in Procs, Acts(p)
    PROVE  VmShape' /\ Removals'
<1>1. Moves(p) /\ VmSteps(p)
  BY ActionMoves, VmEffect DEF Acts
<1>2. RmOthers(p) /\ VmsSteps(p) /\ ImageSteps(p) /\ WorkSteps(p)
  BY <1>1 DEF VmSteps, RmSteps
<1> DEFINE t == rm[p].todo  u == rm'[p].todo
           Good(s) == \A v \in Range(s) : v[1] = Id(p)' /\ (Kind(p)' = "resume" => v[2] = Setup)
           Ok == u \in Seq(Names) /\ (u # <<>> => Stage(p)' \in {"removeSetup", "removeAll"} /\ Good(u))
<1>3. t \in Seq(Names)
  BY DEF VmShape
<1>4. proc' = proc => Kind(p)' = Kind(p) /\ Id(p)' = Id(p) /\ Stage(p)' = Stage(p)
  BY DEF Kind, Id, Stage, Idle
<1>5. t # <<>> => /\ Stage(p) \in {"removeSetup", "removeAll"}
                  /\ \A v \in Range(t) : v[1] = Id(p) /\ (Kind(p) = "resume" => v[2] = Setup)
  BY DEF Removals, Removing
<1>6. ASSUME u = <<>> PROVE Ok
  <2>1. u \in Seq(Names)
    BY SMT, <1>6
  <2> QED BY <1>6, <2>1
<1>7. ASSUME u # <<>> /\ u = t PROVE Ok
  <2>1. proc' = proc
    BY <1>7, RemovingStays DEF Removing
  <2> QED BY <1>3, <1>4, <1>5, <1>7, <2>1
<1>8. ASSUME Removing(p) /\ proc' = proc /\ u = Tail(t) PROVE Ok
  <2>1. Tail(t) \in Seq(Names) /\ \A v \in Range(Tail(t)) : v \in Range(t)
    BY <1>3, <1>8, Lists DEF Removing
  <2>2. Good(Tail(t))
    BY <1>4, <1>5, <1>8, <2>1 DEF Removing
  <2> QED BY <1>4, <1>5, <1>8, <2>1, <2>2 DEF Removing
<1>9. ASSUME CloseTestCluster(p) /\ u = <<Name(Id(p), Setup)>> PROVE Ok
  <2>1. Stage(p) = "close" /\ Kind(p) \in {"create", "resume"} /\ On(p)
    BY <1>9, OnOff DEF CloseTestCluster
  <2>2. Stage(p)' = "removeSetup" /\ Id(p)' = Id(p)
    BY <2>1, CleanupOrder DEF On, Same
  <2>3. Stage(p) # "idle" /\ (Idle(p) => Stage(p) = "idle")
    BY SMT, <2>1 DEF Stage
  <2>4. Id(p) \in Runs
    BY <2>1, <2>3, IdFacts DEF Making, Resuming
  <2>5. /\ <<Name(Id(p), Setup)>> \in Seq(Names)
        /\ \A v \in Range(<<Name(Id(p), Setup)>>) : v[1] = Id(p) /\ v[2] = Setup
    BY <2>4, Lists
  <2>6. u \in Seq(Names) /\ \A v \in Range(u) : v[1] = Id(p) /\ v[2] = Setup
    BY <1>9, <2>5
  <2> QED BY <2>2, <2>6
<1>10. ASSUME RemoveAllVMs(p) /\ Kind(p) = "create" /\ u = vmNames(Id(p)) PROVE Ok
  <2>1. Stage(p) = "removeSetup" /\ On(p) /\ Kind(p) # "resume"
    BY <1>10, OnOff DEF RemoveAllVMs
  <2>2. Stage(p)' = "removeAll" /\ Id(p)' = Id(p) /\ Kind(p)' = Kind(p)
    BY <1>1, <1>10, <2>1, CleanupOrder, SelfBefore DEF On, Same
  <2>3. Making(p)
    BY <1>10, <2>1, StageKinds DEF Making
  <2>4. Id(p) \in Runs
    BY <2>3, IdFacts
  <2> QED BY <1>10, <2>1, <2>2, <2>4, Lists
<1>11. Ok
  BY <1>1, <1>6, <1>7, <1>8, <1>9, <1>10 DEF VmSteps, RmSteps
<1>12. VmShape'
  <2>1. ASSUME NEW q \in Procs PROVE rm'[q].todo \in Seq(Names)
    BY <1>2, <1>11 DEF RmOthers, VmShape
  <2> QED BY <1>2, <2>1 DEF VmShape, VmsSteps, ImageSteps, WorkSteps, RmOthers
<1>13. Removals'
  <2>1. ASSUME NEW q \in Procs, q # p, Removing(q)'
        PROVE  /\ Stage(q)' \in {"removeSetup", "removeAll"}
               /\ \A v \in Range(rm'[q].todo) : v[1] = Id(q)' /\ (Kind(q)' = "resume" => v[2] = Setup)
    <3>1. rm'[q] = rm[q] /\ Stage(q)' = Stage(q) /\ Id(q)' = Id(q) /\ Kind(q)' = Kind(q)
      BY <1>1, <1>2, <2>1, OthersStay DEF RmOthers
    <3> QED BY <2>1, <3>1 DEF Removals, Removing
  <2> QED BY <1>11, <2>1 DEF Removals, Removing
<1> QED BY <1>12, <1>13

\* Where a run that builds is.
LEMMA MakingAt ==
    ASSUME Shape, NEW p \in Procs, Making(p)
    PROVE  LET n == proc[p].pc IN
           /\ n \in 1 .. 24
           /\ Stage(p) = "conflicts" <=> n = 2
           /\ Stage(p) = "images" <=> n = 3
           /\ Stage(p) = "machines" <=> n = 4
           /\ Stage(p) = "running" <=> n = 5
           /\ Stage(p) = "prepare" <=> n = 10
           /\ Stage(p) = "upload" <=> n = 11
           /\ Stage(p) = "dhctl" <=> n = 13
           /\ Stage(p) = "connect" <=> n = 14
           /\ Stage(p) = "join" <=> n = 16
           /\ Stage(p) = "modules" <=> n = 18
           /\ Stage(p) = "ready" <=> n = 19
           /\ Stage(p) = "use" <=> n = 20
           /\ Stage(p) = "close" <=> n = 21
           /\ Stage(p) = "removeSetup" <=> n = 22
           /\ Stage(p) = "removeAll" <=> n = 23
<1>1. Kind(p) = "create" /\ ~ Idle(p)
  BY DEF Making
<1>2. proc[p].pc \in DOMAIN Program["create"] /\ Stage(p) = Program["create"][proc[p].pc]
      /\ proc[p].pc = Place["create"][Stage(p)]
  BY <1>1, AtPlace
<1> DEFINE n == proc[p].pc  st == Stage(p)
<1>3. n \in 1 .. 24 /\ st = Program["create"][n] /\ n = Place["create"][st]
  BY <1>2, CreateProgram
<1> HIDE DEF n, st
<1> DEFINE q == Program["create"]
<1>4. /\ q[2] = "conflicts" /\ q[3] = "images" /\ q[4] = "machines" /\ q[5] = "running"
      /\ q[10] = "prepare" /\ q[11] = "upload" /\ q[13] = "dhctl" /\ q[14] = "connect"
      /\ q[16] = "join" /\ q[18] = "modules" /\ q[19] = "ready" /\ q[20] = "use"
      /\ q[21] = "close" /\ q[22] = "removeSetup" /\ q[23] = "removeAll"
  BY CreateProgram
<1>5. st = q[n]
  BY <1>3
<1> HIDE DEF q
<1>6. /\ st = "conflicts" => n = 2
      /\ st = "images" => n = 3
      /\ st = "machines" => n = 4
      /\ st = "running" => n = 5
      /\ st = "prepare" => n = 10
      /\ st = "upload" => n = 11
      /\ st = "dhctl" => n = 13
      /\ st = "connect" => n = 14
      /\ st = "join" => n = 16
      /\ st = "modules" => n = 18
      /\ st = "ready" => n = 19
      /\ st = "use" => n = 20
      /\ st = "close" => n = 21
      /\ st = "removeSetup" => n = 22
      /\ st = "removeAll" => n = 23
  BY <1>3, CreatePlaces
<1>7. /\ n = 2 => st = "conflicts"
      /\ n = 3 => st = "images"
      /\ n = 4 => st = "machines"
      /\ n = 5 => st = "running"
      /\ n = 10 => st = "prepare"
      /\ n = 11 => st = "upload"
      /\ n = 13 => st = "dhctl"
      /\ n = 14 => st = "connect"
      /\ n = 16 => st = "join"
      /\ n = 18 => st = "modules"
      /\ n = 19 => st = "ready"
      /\ n = 20 => st = "use"
      /\ n = 21 => st = "close"
      /\ n = 22 => st = "removeSetup"
      /\ n = 23 => st = "removeAll"
  BY SMT, <1>4, <1>5
<1> QED BY <1>3, <1>6, <1>7 DEF n, st

\* What a run that builds has done.
LEMMA MakingDone ==
    ASSUME Shape, NEW p \in Procs, Making(p)
    PROVE  LET n == proc[p].pc IN
           /\ Done(p, "images") <=> n > 3
           /\ Done(p, "machines") <=> n > 4
           /\ Done(p, "running") <=> n > 5
           /\ Done(p, "prepare") <=> n > 10
           /\ Done(p, "upload") <=> n > 11
           /\ Done(p, "dhctl") <=> n > 13
           /\ Done(p, "join") <=> n > 16
           /\ Done(p, "modules") <=> n > 18
           /\ Done(p, "ready") <=> n > 19
           /\ Done(p, "use") <=> n > 20
<1>1. Kind(p) = "create"
  BY DEF Making
<1> QED BY <1>1, CreatePlaces DEF Done

\* The order of the steps.
LEMMA Order ==
    ASSUME Shape, NEW p \in Procs, Making(p)
    PROVE  /\ Stage(p) \in {"conflicts", "images", "machines", "running"} => ~ Done(p, "running") /\ ~ Done(p, "prepare")
           /\ Done(p, "prepare") => Done(p, "running")
           /\ Done(p, "upload") => Done(p, "prepare")
           /\ Done(p, "dhctl") => Done(p, "upload")
           /\ Done(p, "join") => Done(p, "dhctl")
           /\ Done(p, "modules") => Done(p, "join")
           /\ Done(p, "ready") => Done(p, "modules")
           /\ Done(p, "use") => Done(p, "ready")
           /\ Stage(p) = "prepare" => Done(p, "running") /\ ~ Done(p, "prepare")
           /\ Stage(p) = "upload" => Done(p, "prepare") /\ ~ Done(p, "upload")
           /\ Stage(p) = "dhctl" => Done(p, "upload") /\ ~ Done(p, "dhctl")
           /\ Stage(p) = "join" => Done(p, "dhctl") /\ ~ Done(p, "join")
           /\ Stage(p) = "modules" => Done(p, "join") /\ ~ Done(p, "modules")
           /\ Stage(p) = "ready" => Done(p, "modules") /\ ~ Done(p, "ready")
           /\ Stage(p) = "use" => Done(p, "ready") /\ ~ Done(p, "use")
           /\ Stage(p) \in {"removeSetup", "removeAll"} => Done(p, "use")
<1> DEFINE n == proc[p].pc
<1>1. n \in 1 .. 24
  BY MakingAt
<1> HIDE DEF n
<1>2. /\ n > 10 => n > 5
      /\ n > 11 => n > 10
      /\ n > 13 => n > 11
      /\ n > 16 => n > 13
      /\ n > 18 => n > 16
      /\ n > 19 => n > 18
      /\ n > 20 => n > 19
  BY SMT, <1>1
<1>3. /\ \A k \in {2, 3, 4, 5} : n = k => ~ (n > 5) /\ ~ (n > 10)
      /\ n = 10 => n > 5 /\ ~ (n > 10)
      /\ n = 11 => n > 10 /\ ~ (n > 11)
      /\ n = 13 => n > 11 /\ ~ (n > 13)
      /\ n = 16 => n > 13 /\ ~ (n > 16)
      /\ n = 18 => n > 16 /\ ~ (n > 18)
      /\ n = 19 => n > 18 /\ ~ (n > 19)
      /\ n = 20 => n > 19 /\ ~ (n > 20)
      /\ n = 22 => n > 20
      /\ n = 23 => n > 20
  BY SMT, <1>1
<1> QED BY <1>2, <1>3, MakingAt, MakingDone DEF n

\* A step is done when it is taken.
Counted == {"running", "prepare", "upload", "dhctl", "join", "modules", "ready", "use"}

\* A run that goes on has done what it had done, and the step it was at.
LEMMA DoneTaken ==
    ASSUME Shape, Shape', NEW p \in Procs, Making(p), Making(p)', Acts(p), Takes(p), NEW s \in Counted
    PROVE  Done(p, s)' <=> Done(p, s) \/ Stage(p) = s
<1>1. Kind(p) = "create" /\ ~ Idle(p) /\ ~ Idle(p)' /\ Kind(p) \notin Locking /\ s \in Taking
  BY DEF Making, Locking, Counted, Taking
<1>2. s \in Range(Program["create"])
  <2>1. \E i \in DOMAIN Program["create"] : Program["create"][i] = s
    BY SMT, CreateProgram DEF Counted
  <2> QED BY <2>1 DEF Range
<1>3. CASE On(p)
  BY <1>1, <1>2, <1>3, DoneStep DEF On
<1>4. CASE proc' = proc
  <2>1. Done(p, s)' <=> Done(p, s)
    BY <1>4 DEF Done, Kind
  <2>2. ASSUME Stage(p) = s PROVE FALSE
    <3>1. proc'[p].pc = proc[p].pc + 1
      BY <1>1, <2>2, AdvanceGoes DEF Takes, Goes
    <3>2. proc[p].pc \in 1 .. 24
      BY MakingAt
    <3> QED BY SMT, <1>4, <3>1, <3>2
  <2> QED BY <2>1, <2>2
<1>5. CASE Skips(p)
  <2>1. Stage(p) = "close" /\ proc'[p].pc = 24 /\ proc[p].pc = 21
    BY <1>1, <1>5, MakingAt, CreatePlaces DEF Skips, Goes
  <2>2. s # "close"
    BY SMT DEF Counted
  <2>3. \A n \in {5, 10, 11, 13, 16, 18, 19, 20} : 24 > n /\ 21 > n
    BY SMT
  <2>4. PICK n \in {5, 10, 11, 13, 16, 18, 19, 20} : Done(p, s) <=> proc[p].pc > n
    BY MakingDone DEF Counted
  <2>5. PICK m \in {5, 10, 11, 13, 16, 18, 19, 20} : Done(p, s)' <=> proc'[p].pc > m
    <3>1. Kind(p)' = "create"
      BY DEF Making
    <3> QED BY ZenonT(30), <3>1, CreatePlaces DEF Counted, Done
  <2> QED BY <2>1, <2>2, <2>3, <2>4, <2>5
<1>6. ~ Off(p) /\ ~ Loads(p)
  BY <1>1, OffIdle, StageKinds DEF Loads
<1> QED BY <1>1, <1>3, <1>4, <1>5, <1>6, ProcEffect

\* What a step does to the clusters, field by field.
CluFields == {"config", "booted", "joined", "modules"}
CluShape == DOMAIN cluster = Runs /\ \A r \in Runs : DOMAIN cluster[r] = CluFields

\* A field changes at the step of its own run that makes it.
LEMMA ClusterEffect ==
    ASSUME Shape, Ids, CluShape, NEW p \in Procs, Acts(p)
    PROVE  /\ CluShape'
           /\ \A r \in Runs :
                /\ \/ cluster'[r].config = cluster[r].config
                   \/ r = Id(p) /\ Stage(p) = "upload" /\ cluster'[r].config = config
                /\ \/ cluster'[r].booted = cluster[r].booted
                   \/ r = Id(p) /\ Stage(p) = "dhctl" /\ cluster'[r].booted = TRUE
                /\ \/ cluster'[r].joined = cluster[r].joined
                   \/ r = Id(p) /\ Stage(p) = "join"
                /\ \/ cluster'[r].modules = cluster[r].modules
                   \/ r = Id(p) /\ Stage(p) = "modules" /\ cluster'[r].modules = env.modules
<1>1. ClusterSteps(p)
  BY BuildEffect
<1>2. CASE cluster' = cluster
  BY <1>2 DEF CluShape
<1>3. CASE \E f \in CluFields : \E v : Builds(p, f, v) /\ Stage(p) \in Building
                /\ (f = "config" => Stage(p) = "upload" /\ v = config)
                /\ (f = "booted" => Stage(p) = "dhctl" /\ v = TRUE)
                /\ (f = "joined" => Stage(p) = "join")
                /\ (f = "modules" => Stage(p) = "modules" /\ v = env.modules)
  <2>1. Making(p)
    BY <1>3, StageKinds DEF Making
  <2>2. Id(p) \in Runs
    BY <2>1, IdFacts
  <2> QED BY SMT, <1>3, <2>2 DEF Builds, CluShape, CluFields
<1>4. {"upload", "dhctl", "join", "modules"} \subseteq Building
  BY SMT DEF Building
<1> QED BY <1>1, <1>2, <1>3, <1>4 DEF ClusterSteps, CluFields

\* What has been built when a run goes on.
LEMMA Built ==
    ASSUME Shape, Ids, CluShape, NEW p \in Procs, Making(p), Takes(p)
    PROVE  LET c == cluster'[Id(p)] IN
           /\ Stage(p) = "upload" => c.config = config
           /\ Stage(p) = "dhctl" => c.booted = TRUE
           /\ Stage(p) = "join" => c.joined = Range(Workers)
           /\ Stage(p) = "modules" => c.modules = env.modules
<1>1. Id(p) \in Runs
  BY IdFacts
<1>2. \A f \in CluFields : \A v : Builds(p, f, v) => cluster'[Id(p)][f] = v
  BY SMT, <1>1 DEF Builds, CluShape
<1>3. /\ Stage(p) = "upload" => Builds(p, "config", config)
      /\ Stage(p) = "dhctl" => Builds(p, "booted", TRUE)
      /\ Stage(p) = "join" => Builds(p, "joined", Range(Workers))
      /\ Stage(p) = "modules" => Builds(p, "modules", env.modules)
  BY DEF Takes, UploadBootstrapFiles, AddNodesToCluster, EnableAndConfigureModules
<1> QED BY <1>2, <1>3 DEF CluFields

-----------------------------------------------------------------------------
(* The invariant of a run that builds, and of the clusters built.          *)

\* Runs side by side are noted as such, and the clusters of runs to come are not there.
Besides == \A p, q \in Procs : p # q /\ ~ Idle(p) /\ ~ Idle(q) => Run(p) \in past.beside
Fresh == \A r \in Runs : r > runs => cluster[r] = NoCluster /\ r \notin past.delivered

\* How far a run that builds has come: its machines, config.yml, its cluster and what is noted.
NodesUp(r) == \A n \in Nodes \ {Setup} : vms[Name(r, n)] = "running"
OwnConfig(r) == cluster[r].config = r \/ r \in past.beside
MachinesUp(p) ==
    /\ Done(p, "running") /\ ~ Done(p, "use") => NodesUp(Run(p))
    /\ Done(p, "running") /\ ~ Done(p, "dhctl") => vms[Name(Run(p), Setup)] = "running"
ConfigThere(p) == Done(p, "prepare") /\ ~ Done(p, "dhctl") => config = Run(p) \/ Run(p) \in past.beside
ClusterSoFar(p) ==
    LET r == Run(p)  c == cluster[Run(p)] IN
    /\ Done(p, "upload") => OwnConfig(r)
    /\ Done(p, "dhctl") <=> c.booted
    /\ Done(p, "join") => c.joined = Range(Workers)
    /\ Done(p, "modules") => c.modules = env.modules
    /\ ~ Done(p, "modules") => ~ c.modules
Noted(p) ==
    /\ Done(p, "use") => Run(p) \in past.cleaned
    /\ ~ Done(p, "ready") => Run(p) \notin past.delivered
Progress == \A p \in Procs : Making(p) => MachinesUp(p) /\ ConfigThere(p) /\ ClusterSoFar(p) /\ Noted(p)

\* A resumed run is connected to a cluster that dhctl has installed.
Resumed == \A p \in Procs : Resuming(p) /\ Done(p, "connect") => cluster[Id(p)].booted

\* A cluster that dhctl has installed has its machines until it is cleaned up, and one
\* with modules, or that was delivered, is whole.
Whole(r) ==
    cluster[r].booted /\ OwnConfig(r) /\ cluster[r].joined = Range(Workers) /\ cluster[r].modules = env.modules
Clusters ==
    \A r \in Runs :
        /\ cluster[r].booted /\ r \notin past.cleaned => NodesUp(r)
        /\ cluster[r].modules \/ r \in past.delivered => Whole(r)

Ground == Shape /\ Ids /\ VmShape /\ Removals /\ CluShape
BuildInv == Ground /\ Besides /\ Fresh /\ Progress /\ Resumed /\ Clusters

\* A resumed run connects before it uses the cluster, and cleans up after that.
LEMMA ResumeOrder ==
    ASSUME Shape, NEW p \in Procs, Resuming(p)
    PROVE  /\ Stage(p) \in {"ready", "close", "removeSetup", "removeAll"} => Done(p, "connect")
           /\ Stage(p) = "saved" => proc[p].pc = 2
           /\ Done(p, "connect") <=> proc[p].pc > 3
           /\ Stage(p) = "connect" => proc[p].pc = 3
           /\ proc[p].pc \in 1 .. 9
<1>1. Kind(p) = "resume" /\ ~ Idle(p)
  BY DEF Resuming
<1>2. proc[p].pc \in 1 .. 9 /\ proc[p].pc = Place["resume"][Stage(p)]
  BY <1>1, AtPlace, ResumeProgram
<1>3. Done(p, "connect") <=> proc[p].pc > 3
  BY <1>1, ResumePlaces DEF Done
<1>4. 4 > 3 /\ 6 > 3 /\ 7 > 3 /\ 8 > 3
  BY SMT
<1> QED BY <1>2, <1>3, <1>4, ResumePlaces

\* Who removes a machine, and who creates one.
LEMMA Touches ==
    ASSUME Ground, Progress, Resumed, NEW p \in Procs, Acts(p), NEW r \in Runs, NEW n \in Nodes,
           vms'[Name(r, n)] # vms[Name(r, n)]
    PROVE  \/ Making(p) /\ Run(p) = r /\ ~ Done(p, "running")
           \/ Making(p) /\ Run(p) = r /\ Done(p, "use")
           \/ Resuming(p) /\ Id(p) = r /\ n = Setup /\ cluster[r].booted
<1> DEFINE v == Name(r, n)
<1>1. v \in Names /\ v[1] = r /\ v[2] = n
  BY NodeFacts
<1>2. \/ Stage(p) \in {"images", "machines"} /\ r = Id(p)
      \/ Removing(p) /\ v = Vm(p)
  BY <1>1, VmEffect DEF Ground, VmSteps, VmsSteps
<1>3. CASE Stage(p) \in {"images", "machines"} /\ r = Id(p)
  <2>1. Making(p)
    BY <1>3, StageKinds DEF Ground, Building, Making
  <2> QED BY <1>3, <2>1, IdFacts, Order DEF Ground
<1>4. CASE Removing(p) /\ v = Vm(p)
  <2>0. rm[p].todo \in Seq(Names) /\ rm[p].todo # <<>> /\ v = Head(rm[p].todo)
    BY <1>4 DEF Ground, VmShape, Removing, Vm
  <2>6. Head(rm[p].todo) \in Range(rm[p].todo)
    BY <2>0, Lists
  <2>1. v \in Range(rm[p].todo)
    BY SMT, <2>0, <2>6
  <2>2. Stage(p) \in {"removeSetup", "removeAll"} /\ r = Id(p) /\ (Kind(p) = "resume" => n = Setup)
    BY <1>1, <1>4, <2>1 DEF Ground, Removals
  <2>3. Making(p) \/ Resuming(p)
    BY <2>2, StageKinds DEF Ground, Making, Resuming
  <2>4. CASE Making(p)
    BY <2>2, <2>4, IdFacts, Order DEF Ground
  <2>5. CASE Resuming(p)
    BY <2>2, <2>5, ResumeOrder DEF Ground, Resumed, Resuming
  <2> QED BY <2>3, <2>4, <2>5
<1> QED BY <1>2, <1>3, <1>4

\* Only one process builds a cluster.
LEMMA OneBuilder ==
    ASSUME Ground, NEW p \in Procs, NEW q \in Procs, Making(p), Making(q), Run(p) = Run(q) PROVE p = q
<1>1. Run(p) # 0
  BY DEF Ground, Shape, Making
<1> QED BY <1>1 DEF Ground, Shape

\* Machines that are needed stay.
LEMMA UpStays ==
    ASSUME Ground, Progress, Resumed, NEW p \in Procs, Acts(p), NEW q \in Procs, Making(q), Done(q, "running"),
           NEW r, r = Run(q)
    PROVE  /\ ~ Done(q, "use") /\ NodesUp(r) => NodesUp(r)'
           /\ ~ Done(q, "dhctl") /\ vms[Name(r, Setup)] = "running" => vms'[Name(r, Setup)] = "running"
<1>1. r \in Runs /\ Setup \in Nodes
  BY IdFacts, NodesAre DEF Ground
<1>2. ~ Done(q, "dhctl") => ~ Done(q, "use") /\ ~ cluster[r].booted
  BY Order DEF Ground, Progress, ClusterSoFar
<1>3. ASSUME NEW n \in Nodes, vms'[Name(r, n)] # vms[Name(r, n)]
      PROVE  Done(q, "use") \/ (n = Setup /\ cluster[r].booted)
  BY <1>1, <1>3, Touches, OneBuilder
<1>4. ASSUME ~ Done(q, "use"), NodesUp(r) PROVE NodesUp(r)'
  BY <1>3, <1>4 DEF NodesUp
<1> QED BY <1>1, <1>2, <1>3, <1>4

\* What a step of p means for the run of another process that builds.
LEMMA ProgressOther ==
    ASSUME BuildInv, Shape', NEW p \in Procs, Acts(p), NEW q \in Procs, q # p, Making(q)'
    PROVE  MachinesUp(q)' /\ ConfigThere(q)' /\ ClusterSoFar(q)' /\ Noted(q)'
<1> DEFINE r == Run(q)
<1>1. Ground /\ Progress /\ Resumed /\ Shape /\ Ids /\ CluShape
  BY DEF BuildInv, Ground
<1>2. Moves(p) /\ Frame
  BY <1>1, ActionMoves DEF Acts
<1>3. Making(q) /\ Run(q)' = r /\ \A s : Done(q, s)' <=> Done(q, s)
  BY <1>2, OthersStay DEF Done
<1>4. r \in Runs /\ MachinesUp(q) /\ ConfigThere(q) /\ ClusterSoFar(q) /\ Noted(q)
  BY <1>1, <1>3, IdFacts DEF Progress
<1>5. Making(p) => Run(p) # r /\ Id(p) # r
  BY <1>1, <1>3, OneBuilder, IdFacts
<1>6. MachinesUp(q)'
  <2>1. Done(q, "running") => /\ ~ Done(q, "use") /\ NodesUp(r) => NodesUp(r)'
                              /\ ~ Done(q, "dhctl") /\ vms[Name(r, Setup)] = "running"
                                     => vms'[Name(r, Setup)] = "running"
    BY <1>1, <1>3, UpStays
  <2> QED BY <1>3, <1>4, <2>1 DEF MachinesUp, NodesUp
<1>7. past.beside \subseteq past'.beside /\ past.cleaned \subseteq past'.cleaned /\ env' = env
  BY <1>2 DEF Frame, Grows
<1>8. ConfigThere(q)'
  <2>1. config' = config \/ ~ Idle(p)
    <3>1. Stage(p) \in {"prepare", "dhctl"} => ~ Idle(p)
      BY <1>1, StageKinds DEF Building
    <3> QED BY <3>1, BuildEffect DEF FileSteps
  <2>2. ~ Idle(p) => r \in past.beside
    BY <1>3 DEF BuildInv, Besides, Making
  <2> QED BY <1>3, <1>4, <1>7, <2>1, <2>2 DEF ConfigThere
<1>9. /\ cluster'[r].config = cluster[r].config /\ cluster'[r].booted = cluster[r].booted
      /\ cluster'[r].joined = cluster[r].joined /\ cluster'[r].modules = cluster[r].modules
  <2>1. Stage(p) \in {"upload", "dhctl", "join", "modules"} => Id(p) # r
    BY <1>1, <1>5, StageKinds DEF Building, Making
  <2> QED BY <1>1, <1>4, <2>1, ClusterEffect
<1>10. ClusterSoFar(q)'
  BY <1>3, <1>4, <1>7, <1>9 DEF ClusterSoFar, OwnConfig
<1>11. Noted(q)'
  <2>1. past'.delivered = past.delivered \/ Delivers(p)
    BY <1>1, PastEffect DEF PastSteps
  <2>2. CASE Delivers(p)
    <3>1. Making(p) /\ past'.delivered = past.delivered \cup {Id(p)}
      BY <2>2, <1>1, StageKinds DEF Delivers, Making
    <3> QED BY <1>3, <1>4, <1>5, <1>7, <3>1 DEF Noted
  <2> QED BY <1>3, <1>4, <1>7, <2>1, <2>2 DEF Noted
<1> QED BY <1>6, <1>8, <1>10, <1>11

\* A step of a run that builds, and goes on.
LEMMA ProgressSelf ==
    ASSUME BuildInv, Shape', NEW p \in Procs, Acts(p), Making(p)'
    PROVE  MachinesUp(p)' /\ ConfigThere(p)' /\ ClusterSoFar(p)' /\ Noted(p)'
<1> DEFINE r == Run(p)
<1>1. Ground /\ Progress /\ Resumed /\ Shape /\ Ids /\ CluShape
  BY DEF BuildInv, Ground
<1>2. Moves(p) /\ Frame
  BY <1>1, ActionMoves DEF Acts
<1>3. Making(p) /\ Run(p)' = r /\ Kind(p) \notin Locking /\ ~ Idle(p)'
  BY <1>2, SelfBefore DEF Making
<1>4. r \in Runs /\ Id(p) = r /\ MachinesUp(p) /\ ConfigThere(p) /\ ClusterSoFar(p) /\ Noted(p)
  BY <1>1, <1>3, IdFacts DEF Progress
<1>5. past.beside \subseteq past'.beside /\ past.cleaned \subseteq past'.cleaned /\ env' = env
  BY <1>2 DEF Frame, Grows
<1>6. ~ Removing(p) => Takes(p)
  BY <1>1, <1>3, StepTaken
<1>7. CASE Removing(p)
  <2>1. Stage(p) \in {"removeSetup", "removeAll"}
    BY <1>1, <1>7 DEF Ground, Removals
  <2>2. Done(p, "use") /\ Done(p, "dhctl") /\ Done(p, "ready") /\ Done(p, "modules") /\ Done(p, "join") /\ Done(p, "upload")
    BY <1>1, <1>3, <2>1, Order
  <2>3. proc' = proc \/ On(p)
    <3>1. ~ Off(p) /\ ~ Loads(p) /\ ~ Skips(p)
      BY <1>3, <2>1, OffIdle DEF Loads, Skips
    <3> QED BY <1>1, <1>3, <3>1, ProcEffect DEF Making
  <2>4. /\ Done(p, "use")' /\ Done(p, "dhctl")' /\ Done(p, "ready")' /\ Done(p, "modules")' /\ Done(p, "join")'
        /\ Done(p, "upload")'
    <3>1. CASE proc' = proc
      BY <2>2, <3>1 DEF Done, Kind
    <3>2. CASE On(p)
      <4>1. \A n \in 1 .. 24, m \in {11, 13, 16, 18, 19, 20} : n > m => n + 1 > m
        BY SMT
      <4>2. proc[p].pc \in 1 .. 24 /\ Kind(p) = "create" /\ Kind(p)' = "create"
        BY <1>1, <1>3, MakingAt DEF Making
      <4>3. proc'[p].pc = proc[p].pc + 1
        BY <3>2 DEF On, Goes
      <4>4. \A s : /\ Done(p, s) <=> proc[p].pc > Place["create"][s]
                   /\ Done(p, s)' <=> proc[p].pc + 1 > Place["create"][s]
        BY <4>2, <4>3 DEF Done
      <4> QED BY <2>2, <4>1, <4>2, <4>4, CreatePlaces
    <3> QED BY <2>3, <3>1, <3>2
  <2>5. /\ cluster'[r].config = cluster[r].config /\ cluster'[r].booted = cluster[r].booted
        /\ cluster'[r].joined = cluster[r].joined /\ cluster'[r].modules = cluster[r].modules
    BY <1>1, <1>4, <2>1, ClusterEffect
  <2>6. MachinesUp(p)' /\ ConfigThere(p)'
    BY <2>4 DEF MachinesUp, ConfigThere
  <2>7. ClusterSoFar(p)'
    BY <1>3, <1>4, <1>5, <2>2, <2>4, <2>5 DEF ClusterSoFar, OwnConfig
  <2>8. Noted(p)'
    BY <1>3, <1>4, <1>5, <2>2, <2>4 DEF Noted
  <2> QED BY <2>6, <2>7, <2>8
<1>8. CASE ~ Removing(p)
  <2>1. Takes(p)
    BY <1>6, <1>8
  <2>2. \A s \in Counted : Done(p, s)' <=> Done(p, s) \/ Stage(p) = s
    BY <1>1, <1>3, <2>1, DoneTaken
  <2>3. /\ Done(p, "running")' <=> Done(p, "running") \/ Stage(p) = "running"
        /\ Done(p, "prepare")' <=> Done(p, "prepare") \/ Stage(p) = "prepare"
        /\ Done(p, "upload")' <=> Done(p, "upload") \/ Stage(p) = "upload"
        /\ Done(p, "dhctl")' <=> Done(p, "dhctl") \/ Stage(p) = "dhctl"
        /\ Done(p, "join")' <=> Done(p, "join") \/ Stage(p) = "join"
        /\ Done(p, "modules")' <=> Done(p, "modules") \/ Stage(p) = "modules"
        /\ Done(p, "ready")' <=> Done(p, "ready") \/ Stage(p) = "ready"
        /\ Done(p, "use")' <=> Done(p, "use") \/ Stage(p) = "use"
    BY <2>2 DEF Counted
  <2>4. MachinesUp(p)'
    <3>1. Done(p, "running") => /\ ~ Done(p, "use") /\ NodesUp(r) => NodesUp(r)'
                                /\ ~ Done(p, "dhctl") /\ vms[Name(r, Setup)] = "running"
                                       => vms'[Name(r, Setup)] = "running"
      BY <1>1, <1>3, UpStays
    <3>2. CASE Stage(p) = "running"
      <4>1. Can(p) /\ vms' = vms
        BY <2>1, <3>2 DEF Takes, vmVars, objects
      <4>2. Running(Id(p))
        BY <3>2, <4>1 DEF Can
      <4>3. \A n \in Nodes : vms'[Name(r, n)] = "running"
        BY <1>4, <4>1, <4>2 DEF Running
      <4> QED BY <1>3, <4>3, NodesAre DEF MachinesUp, NodesUp
    <3> QED BY <1>3, <1>4, <2>3, <3>1, <3>2 DEF MachinesUp, NodesUp
  <2>5. ConfigThere(p)'
    <3>1. CASE Stage(p) = "prepare"
      <4>1. config' = r
        BY <1>4, <2>1, <3>1 DEF Takes, PrepareBootstrapConfig
      <4> QED BY <1>3, <4>1 DEF ConfigThere
    <3>2. CASE Stage(p) = "dhctl"
      BY <2>3, <3>2 DEF ConfigThere
    <3>3. CASE Stage(p) \notin {"prepare", "dhctl"}
      <4>1. config' = config
        BY <3>3, BuildEffect DEF FileSteps
      <4> QED BY <1>3, <1>4, <1>5, <2>3, <3>3, <4>1 DEF ConfigThere
    <3> QED BY <3>1, <3>2, <3>3
  <2>6. ClusterSoFar(p)'
    <3>0. Shape /\ Making(p)
      BY <1>1, <1>3
    <3>1. Done(p, "upload")' => OwnConfig(r)'
      <4>1. CASE Stage(p) = "upload"
        <5>1. cluster'[r].config = config /\ (config = r \/ r \in past.beside)
          BY <1>1, <1>3, <1>4, <2>1, <4>1, Built, Order DEF ConfigThere
        <5> QED BY <1>3, <1>5, <5>1 DEF OwnConfig
      <4>2. CASE Stage(p) # "upload"
        <5>1. cluster'[r].config = cluster[r].config
          BY <1>1, <1>4, <4>2, ClusterEffect
        <5> QED BY <1>3, <1>4, <1>5, <2>3, <4>2, <5>1 DEF OwnConfig, ClusterSoFar
      <4> QED BY <4>1, <4>2
    <3>2. Done(p, "dhctl")' <=> cluster'[r].booted
      <4>1. Stage(p) = "dhctl" => cluster'[r].booted = TRUE
        BY <1>1, <1>3, <1>4, <2>1, Built
      <4>2. Stage(p) # "dhctl" => cluster'[r].booted = cluster[r].booted
        BY <1>1, <1>4, ClusterEffect
      <4> QED BY <1>4, <2>3, <4>1, <4>2 DEF ClusterSoFar
    <3>3. Done(p, "join")' => cluster'[r].joined = Range(Workers)
      <4>1. Stage(p) = "join" => cluster'[r].joined = Range(Workers)
        BY <1>1, <1>3, <1>4, <2>1, Built
      <4>2. Stage(p) # "join" => cluster'[r].joined = cluster[r].joined
        BY <1>1, <1>4, ClusterEffect
      <4> QED BY <1>4, <2>3, <4>1, <4>2 DEF ClusterSoFar
    <3>4. /\ Done(p, "modules")' => cluster'[r].modules = env'.modules
          /\ ~ Done(p, "modules")' => ~ cluster'[r].modules
      <4>1. Stage(p) = "modules" => cluster'[r].modules = env.modules
        BY <1>1, <1>3, <1>4, <2>1, Built
      <4>2. Stage(p) # "modules" => cluster'[r].modules = cluster[r].modules
        BY <1>1, <1>4, ClusterEffect
      <4> QED BY <1>4, <1>5, <2>3, <4>1, <4>2 DEF ClusterSoFar
    <3> QED BY <1>3, <3>1, <3>2, <3>3, <3>4 DEF ClusterSoFar, OwnConfig
  <2>7. Noted(p)'
    <3>1. Stage(p) = "use" => r \in past'.cleaned
      BY <1>1, <1>4, <2>1, PastEffect DEF Takes, PastSteps
    <3>2. Stage(p) # "ready" => past'.delivered = past.delivered
      BY <1>1, PastEffect DEF PastSteps, Delivers
    <3> QED BY <1>3, <1>4, <1>5, <2>3, <3>1, <3>2 DEF Noted
  <2> QED BY <2>4, <2>5, <2>6, <2>7
<1> QED BY <1>7, <1>8

\* A step of p, and the rest of the invariant.
LEMMA RestStep ==
    ASSUME BuildInv, Shape', NEW p \in Procs, Acts(p)
    PROVE  Besides' /\ Fresh' /\ Resumed' /\ Clusters'
<1>1. Ground /\ Progress /\ Resumed /\ Clusters /\ Shape /\ Ids /\ CluShape
  BY DEF BuildInv, Ground
<1>2. Moves(p) /\ Frame
  BY <1>1, ActionMoves DEF Acts
<1>3. /\ past.beside \subseteq past'.beside /\ past.cleaned \subseteq past'.cleaned /\ env' = env /\ runs' = runs
      /\ past.delivered \subseteq past'.delivered
  BY <1>2 DEF Frame, Grows
<1>4. Besides'
  <2>1. \A q \in Procs : Run(q)' = Run(q) /\ (~ Idle(q)' => ~ Idle(q))
    <3>1. \A q \in Procs : q # p => Run(q)' = Run(q) /\ Idle(q)' = Idle(q)
      BY <1>2, OthersStay
    <3>2. Run(p)' = Run(p) /\ (Idle(p) => Idle(p)')
      BY <1>2 DEF Moves, Run, Idle
    <3> QED BY <3>1, <3>2
  <2> QED BY <1>3, <2>1 DEF BuildInv, Besides
<1>5. Stage(p) \in {"upload", "dhctl", "join", "modules"} => Making(p) /\ Id(p) = Run(p) /\ Id(p) \in 1 .. runs
  BY <1>1, StageKinds, IdFacts DEF Building, Making
<1>6. past'.delivered = past.delivered
      \/ (Making(p) /\ Id(p) = Run(p) /\ Id(p) \in 1 .. runs /\ Stage(p) = "ready"
          /\ past'.delivered = past.delivered \cup {Id(p)})
  BY <1>1, PastEffect, StageKinds, IdFacts DEF PastSteps, Delivers, Making
<1>7. ASSUME NEW r \in Runs, r > runs PROVE cluster'[r] = NoCluster /\ r \notin past'.delivered
  <2>1. r \notin 1 .. runs
    BY SMTT(20), <1>1, <1>7 DEF Shape, Runs
  <2>2. cluster[r] = NoCluster /\ r \notin past.delivered
    BY <1>7 DEF BuildInv, Fresh
  <2>3. ClusterSteps(p)
    BY BuildEffect
  <2>4. cluster' = cluster \/ (Id(p) # r /\ \E f, v : Builds(p, f, v))
    BY <1>5, <2>1, <2>3 DEF ClusterSteps
  <2>5. cluster'[r] = cluster[r]
    BY SMT, <1>1, <2>4 DEF Builds, CluShape
  <2> QED BY <1>6, <2>1, <2>2, <2>5
<1>8. Fresh'
  BY <1>3, <1>7 DEF Fresh
<1>9. \A r \in Runs : cluster[r].booted => cluster'[r].booted
  BY <1>1, ClusterEffect
<1>10. Resumed'
  <2> SUFFICES ASSUME NEW q \in Procs, Resuming(q)', Done(q, "connect")' PROVE cluster'[Id(q)'].booted
    BY DEF Resumed
  <2>1. CASE q # p
    <3>1. Resuming(q) /\ Id(q)' = Id(q) /\ Done(q, "connect")
      BY <1>2, <2>1, OthersStay DEF Done
    <3> QED BY <1>1, <1>9, <3>1, IdFacts DEF Resumed
  <2>2. CASE q = p
    <3>1. Resuming(p) /\ Kind(p) \notin Locking /\ ~ Idle(p) /\ ~ Idle(p)'
      BY <1>2, <2>2, SelfBefore DEF Resuming
    <3>2. Id(p) \in Runs
      BY <1>1, <3>1, IdFacts
    <3>3. proc' = proc \/ On(p) \/ Loads(p) \/ Skips(p)
      BY <1>1, <3>1, ProcEffect, OffIdle
    <3>4. CASE proc' = proc
      <4>1. Done(p, "connect") /\ Id(p)' = Id(p)
        BY <2>2, <3>4 DEF Done, Kind, Id
      <4> QED BY <1>1, <1>9, <2>2, <3>1, <3>2, <4>1 DEF Resumed
    <3>5. CASE Loads(p)
      <4>1. proc[p].pc = 2 /\ proc'[p].pc = 3
        <5>1. proc[p].pc = 2 /\ proc'[p].pc = proc[p].pc + 1
          BY <1>1, <3>1, <3>5, ResumeOrder DEF Loads, Goes
        <5> QED BY SMT, <5>1
      <4>2. Kind(p)' = "resume" /\ ~ (3 > 3)
        BY SMTT(20), <2>2 DEF Resuming
      <4> QED BY <2>2, <4>1, <4>2, ResumePlaces DEF Done
    <3>6. CASE Skips(p)
      <4>1. Done(p, "connect") /\ Id(p)' = Id(p)
        BY <1>1, <3>1, <3>6, ResumeOrder DEF Skips, Same
      <4> QED BY <1>1, <1>9, <2>2, <3>1, <3>2, <4>1 DEF Resumed
    <3>7. CASE On(p)
      <4>1. Id(p)' = Id(p) /\ Goes(p, proc[p].pc + 1)
        BY <3>7 DEF On, Same
      <4>2. "connect" \in Range(Program["resume"])
        <5>1. 3 \in DOMAIN Program["resume"] /\ Program["resume"][3] = "connect"
          BY SMT, ResumeProgram
        <5> QED BY <5>1 DEF Range
      <4>3. Done(p, "connect") \/ Stage(p) = "connect"
        BY <1>1, <2>2, <3>1, <4>1, <4>2, DoneStep DEF Resuming
      <4>4. CASE Stage(p) = "connect"
        <5>1. ~ Removing(p)
          BY <1>1, <4>4 DEF Ground, Removals
        <5>2. Can(p) /\ cluster' = cluster
          BY <1>1, <3>1, <4>4, <5>1, StepTaken DEF Takes
        <5>3. cluster[Id(p)].booted
          BY <3>1, <4>4, <5>2 DEF Can, Resuming
        <5> QED BY <2>2, <4>1, <5>2, <5>3
      <4> QED BY <1>1, <1>9, <2>2, <3>1, <3>2, <4>1, <4>3, <4>4 DEF Resumed
    <3> QED BY <3>3, <3>4, <3>5, <3>6, <3>7
  <2> QED BY <2>1, <2>2
<1>11. ASSUME NEW r \in Runs, cluster'[r].booted, r \notin past'.cleaned PROVE NodesUp(r)'
  <2>1. r \notin past.cleaned
    BY <1>3, <1>11
  <2>2. CASE cluster[r].booted
    <3>1. NodesUp(r)
      BY <1>1, <2>1, <2>2 DEF Clusters
    <3>2. ASSUME NEW n \in Nodes \ {Setup} PROVE vms'[Name(r, n)] = vms[Name(r, n)]
      <4>1. Making(p) /\ Run(p) = r => Done(p, "running") /\ ~ Done(p, "use")
        BY <1>1, <2>1, <2>2, Order DEF Progress, ClusterSoFar, Noted
      <4> QED BY <1>1, <4>1, Touches
    <3> QED BY <3>1, <3>2 DEF NodesUp
  <2>3. CASE ~ cluster[r].booted
    <3>1. Making(p) /\ Run(p) = r /\ Stage(p) = "dhctl"
      BY <1>1, <1>5, <1>11, <2>3, ClusterEffect
    <3>2. Done(p, "running") /\ ~ Done(p, "use")
      BY <1>1, <3>1, Order
    <3>3. NodesUp(r)
      BY <1>1, <3>1, <3>2 DEF Progress, MachinesUp
    <3> QED BY <1>1, <3>1, <3>2, <3>3, UpStays
  <2> QED BY <2>2, <2>3
<1>12. ASSUME NEW r \in Runs, cluster'[r].modules \/ r \in past'.delivered PROVE Whole(r)'
  <2>1. CASE cluster[r].modules \/ r \in past.delivered
    <3>1. Whole(r)
      BY <1>1, <2>1 DEF Clusters
    <3>2. Making(p) /\ Run(p) = r => Done(p, "modules")
      BY <1>1, <2>1, Order DEF Progress, ClusterSoFar, Noted
    <3>3. Id(p) = r => Stage(p) \notin {"upload", "dhctl", "join", "modules"}
      BY <1>1, <1>5, <3>2, Order
    <3>4. /\ cluster'[r].config = cluster[r].config /\ cluster'[r].booted = cluster[r].booted
          /\ cluster'[r].joined = cluster[r].joined /\ cluster'[r].modules = cluster[r].modules
      BY <1>1, <3>3, ClusterEffect
    <3> QED BY <1>3, <3>1, <3>4 DEF Whole, OwnConfig
  <2>2. CASE ~ cluster[r].modules /\ r \notin past.delivered
    <3>1. Making(p) /\ Id(p) = r /\ Run(p) = r /\ Stage(p) \in {"modules", "ready"}
      BY <1>1, <1>5, <1>6, <1>12, <2>2, ClusterEffect
    <3>2. Done(p, "join") /\ Done(p, "dhctl") /\ Done(p, "upload")
      BY <1>1, <3>1, Order
    <3>3. OwnConfig(r) /\ cluster[r].booted /\ cluster[r].joined = Range(Workers)
      BY <1>1, <3>1, <3>2 DEF Progress, ClusterSoFar
    <3>4. /\ cluster'[r].config = cluster[r].config /\ cluster'[r].booted = cluster[r].booted
          /\ cluster'[r].joined = cluster[r].joined
      BY <1>1, <3>1, ClusterEffect
    <3>5. cluster'[r].modules = env.modules
      <4>1. CASE Stage(p) = "ready"
        BY <1>1, <3>1, <4>1, Order, ClusterEffect DEF Progress, ClusterSoFar
      <4>2. CASE Stage(p) = "modules"
        <5>1. cluster'[r].modules = cluster[r].modules \/ cluster'[r].modules = env.modules
          BY <1>1, ClusterEffect
        <5>2. past'.delivered = past.delivered
          BY <1>6, <4>2
        <5> QED BY <1>12, <2>2, <5>1, <5>2
      <4> QED BY <3>1, <4>1, <4>2
    <3> QED BY <1>3, <3>3, <3>4, <3>5 DEF Whole, OwnConfig
  <2> QED BY <2>1, <2>2
<1>13. Clusters'
  BY <1>11, <1>12 DEF Clusters
<1> QED BY <1>4, <1>8, <1>10, <1>13

\* A step of a process that has begun.
LEMMA BuildStep ==
    ASSUME BuildInv, Shape', NEW p \in Procs, Acts(p) PROVE BuildInv'
<1>1. Ground /\ Shape /\ Ids /\ VmShape /\ Removals /\ CluShape
  BY DEF BuildInv, Ground
<1>2. Ids' /\ VmShape' /\ Removals' /\ CluShape'
  BY <1>1, IdsStep, RemovalsStep, ClusterEffect
<1>3. Progress'
  BY ProgressOther, ProgressSelf DEF Progress
<1> QED BY <1>2, <1>3, RestStep DEF BuildInv, Ground

\* Nothing is there yet.
LEMMA BuildInit == Init => BuildInv
<1> SUFFICES ASSUME Init PROVE BuildInv
  OBVIOUS
<1>1. Shape
  BY LockInit
<1>2. proc = [p \in Procs |-> NoProc]
  BY DEF Init
<1>3. \A p \in Procs : Idle(p)
  BY SMT, <1>2 DEF NoProc, Idle
<1>4. \A p \in Procs : ~ Making(p) /\ ~ Resuming(p)
  BY <1>3 DEF Making, Resuming
<1>5. state \in 0 .. runs
  BY SMT DEF Init
<1>6. rm = [p \in Procs |-> NoRm] /\ \A p \in Procs : rm[p] = NoRm
  BY DEF Init, VmInit
<1>7. NoRm.todo = <<>> /\ DOMAIN NoRm = RmFields
  BY SMT DEF NoRm, RmFields
<1>8. <<>> \in Seq(Names)
  BY SMT
<1>9. VmShape
  <2>1. \A p \in Procs : DOMAIN rm[p] = RmFields /\ rm[p].todo \in Seq(Names)
    BY <1>6, <1>7, <1>8
  <2>2. DOMAIN images = Images /\ DOMAIN vms = Names /\ DOMAIN work = Procs /\ DOMAIN rm = Procs
    BY DEF Init, VmInit
  <2>3. \A p \in Procs : DOMAIN work[p] = Nodes
    BY DEF Init, VmInit, NoWork
  <2> QED BY <2>1, <2>2, <2>3 DEF VmShape
<1>10. Removals
  BY <1>6, <1>7 DEF Removals, Removing
<1>11. cluster = [r \in Runs |-> NoCluster] /\ past.delivered = {}
  BY SMT DEF Init
<1>12. DOMAIN NoCluster = CluFields /\ ~ NoCluster.booted /\ ~ NoCluster.modules
  BY SMT DEF NoCluster, CluFields
<1>13. CluShape /\ Fresh /\ Clusters
  BY <1>11, <1>12 DEF CluShape, Fresh, Clusters
<1> QED BY <1>1, <1>3, <1>4, <1>5, <1>9, <1>10, <1>13
     DEF BuildInv, Ground, Ids, Besides, Progress, Resumed

\* What Start does: the process is at the first step of its program, with the number of a
\* new run or, resumed, that of the state file; who runs beside it is noted.
LEMMA StartDoes ==
    ASSUME Shape, NEW p \in Procs, Start(p)
    PROVE  LET r == runs + 1 IN
           /\ Idle(p) /\ runs < MaxRuns /\ runs' = r /\ policy' = policy
           /\ vms' = vms /\ images' = images /\ work' = work /\ rm' = rm /\ cluster' = cluster
           /\ state' = state /\ config' = config /\ env' = env
           /\ \A q \in Procs \ {p} : proc'[q] = proc[q]
           /\ Kind(p)' \in Kinds /\ proc'[p].pc = 1 /\ Run(p)' = r /\ proc'[p].ended = "none" /\ ~ Idle(p)'
           /\ Kind(p)' = "resume" => state # 0 /\ Id(p)' = state
           /\ Kind(p)' # "resume" => Id(p)' = r
           /\ past'.delivered = past.delivered /\ past'.cleaned = past.cleaned
           /\ past'.disturbed = past.disturbed /\ past.beside \subseteq past'.beside
           /\ \A q \in Procs : ~ Idle(q) => r \in past'.beside /\ Run(q) \in past'.beside
<1> DEFINE r == runs + 1
<1>1. /\ Idle(p) /\ runs < MaxRuns /\ runs' = r /\ policy' = policy
      /\ vms' = vms /\ images' = images /\ work' = work /\ rm' = rm /\ cluster' = cluster
      /\ state' = state /\ config' = config /\ env' = env
  BY DEF Start, vmVars, objects, files
<1>2. PICK k \in Kinds :
        /\ k = "resume" => state # 0
        /\ proc' = [proc EXCEPT ![p] = [NoProc EXCEPT !.kind = k, !.pc = 1, !.run = runs + 1,
                                                      !.id = IF k = "resume" THEN state ELSE runs + 1]]
  <2>1. env.kind \in Kinds \ {"resume"} /\ "create" \in Kinds /\ "resume" \in Kinds /\ "create" # "resume"
    BY SMTT(20), EnvsAssumption, KindsAre DEF Shape
  <2> QED BY <2>1 DEF Start
<1>3. /\ \A q \in Procs \ {p} : proc'[q] = proc[q]
      /\ Kind(p)' = k /\ proc'[p].pc = 1 /\ Run(p)' = r /\ Id(p)' = (IF k = "resume" THEN state ELSE r)
      /\ proc'[p].ended = "none"
  <2>1. DOMAIN proc = Procs
    BY DEF Shape
  <2> QED BY SMTT(20), <1>2, <2>1 DEF NoProc, Kind, Run, Id
<1>4. ~ Idle(p)'
  BY SMT, <1>3 DEF Idle
<1>5. /\ past'.delivered = past.delivered /\ past'.cleaned = past.cleaned
      /\ past'.disturbed = past.disturbed /\ past.beside \subseteq past'.beside
      /\ \A q \in Procs : ~ Idle(q) => r \in past'.beside /\ Run(q) \in past'.beside
  <2> DEFINE others == {q \in Procs : ~ Idle(q)}
  <2>1. past' = [past EXCEPT !.beside = IF others = {} THEN @ ELSE @ \cup {runs + 1} \cup {Run(q) : q \in others}]
    BY DEF Start
  <2>2. DOMAIN past = Pasts /\ {"beside", "delivered", "cleaned", "disturbed"} \subseteq Pasts
    BY SMT DEF Shape, Pasts
  <2>3. /\ past'.delivered = past.delivered /\ past'.cleaned = past.cleaned /\ past'.disturbed = past.disturbed
        /\ past'.beside = IF others = {} THEN past.beside ELSE past.beside \cup {runs + 1} \cup {Run(q) : q \in others}
    BY SMT, <2>1, <2>2
  <2> QED BY <2>3
<1> QED BY <1>1, <1>2, <1>3, <1>4, <1>5

\* A run begins.
LEMMA BuildStart ==
    ASSUME BuildInv, Shape', NEW p \in Procs, Start(p) PROVE BuildInv'
<1> DEFINE r == runs + 1
<1>1. Ground /\ Shape /\ Ids /\ VmShape /\ Removals /\ CluShape /\ Besides /\ Fresh /\ Progress /\ Resumed /\ Clusters
  BY DEF BuildInv, Ground
<1>2. /\ Idle(p) /\ runs < MaxRuns /\ runs' = r
      /\ vms' = vms /\ images' = images /\ work' = work /\ rm' = rm /\ cluster' = cluster
      /\ state' = state /\ config' = config /\ env' = env
  BY <1>1, StartDoes
<1>3. runs \in Nat /\ MaxRuns \in Nat /\ r \in Runs /\ r > runs /\ r # 0
  BY SMTT(20), <1>1, <1>2, BoundAssumption DEF Shape, Runs
<1>4. /\ \A q \in Procs \ {p} : proc'[q] = proc[q]
      /\ proc'[p].pc = 1 /\ Run(p)' = r /\ proc'[p].ended = "none" /\ ~ Idle(p)'
      /\ Kind(p)' = "resume" => state # 0 /\ Id(p)' = state
      /\ Kind(p)' # "resume" => Id(p)' = r
  BY <1>1, StartDoes
<1>5. /\ past'.delivered = past.delivered /\ past'.cleaned = past.cleaned /\ past.beside \subseteq past'.beside
      /\ \A q \in Procs : ~ Idle(q) => r \in past'.beside /\ Run(q) \in past'.beside
  BY <1>1, StartDoes
<1>6. \A q \in Procs : q # p =>
        /\ Idle(q)' = Idle(q) /\ Kind(q)' = Kind(q) /\ Run(q)' = Run(q) /\ Id(q)' = Id(q) /\ Stage(q)' = Stage(q)
        /\ proc'[q] = proc[q] /\ Making(q)' = Making(q) /\ Resuming(q)' = Resuming(q)
  BY <1>4, Unmoved
<1>7. \A q \in Procs : q # p => \A s : Done(q, s)' <=> Done(q, s)
  BY <1>6 DEF Done
<1>8. Ids'
  <2>1. state' \in 0 .. runs'
    BY SMTT(20), <1>1, <1>2, <1>3 DEF Ids
  <2>2. ASSUME NEW i \in 1 .. runs PROVE i \in 1 .. runs'
    BY SMT, <1>2, <1>3
  <2>3. Resuming(p)' => Id(p)' \in 1 .. runs
    <3>1. Resuming(p)' => Id(p)' = state /\ state # 0
      BY <1>4 DEF Resuming
    <3>2. state \in 0 .. runs
      BY <1>1 DEF Ids
    <3> QED BY SMT, <3>1, <3>2, <1>3
  <2>4. Making(p)' => Id(p)' = Run(p)'
    BY SMT, <1>4 DEF Making
  <2> QED BY <1>1, <1>4, <1>6, <2>1, <2>2, <2>3, <2>4 DEF Ids
<1>9. VmShape' /\ CluShape'
  BY <1>1, <1>2 DEF VmShape, CluShape
<1>10. Removals'
  <2>1. ~ Removing(p)
    <3>1. Stage(p) = "idle" /\ "idle" \notin {"removeSetup", "removeAll"}
      BY SMT, <1>2 DEF Stage
    <3> QED BY <1>1, <3>1 DEF Removals
  <2>2. ASSUME NEW q \in Procs, Removing(q)'
        PROVE  /\ Stage(q)' \in {"removeSetup", "removeAll"}
               /\ \A v \in Range(rm'[q].todo) : v[1] = Id(q)' /\ (Kind(q)' = "resume" => v[2] = Setup)
    <3>1. Removing(q)
      BY <1>2, <2>2 DEF Removing
    <3>2. q # p
      BY <2>1, <3>1
    <3>3. Stage(q)' = Stage(q) /\ Id(q)' = Id(q) /\ Kind(q)' = Kind(q) /\ rm'[q] = rm[q]
      BY <1>2, <1>6, <3>2
    <3>4. /\ Stage(q) \in {"removeSetup", "removeAll"}
          /\ \A v \in Range(rm[q].todo) : v[1] = Id(q) /\ (Kind(q) = "resume" => v[2] = Setup)
      BY <1>1, <3>1 DEF Removals
    <3> QED BY <3>3, <3>4
  <2> QED BY <2>2 DEF Removals
<1>11. Besides'
  <2> SUFFICES ASSUME NEW a \in Procs, NEW b \in Procs, a # b, ~ Idle(a)', ~ Idle(b)' PROVE Run(a)' \in past'.beside
    BY DEF Besides
  <2>1. CASE a = p
    BY <2>1, <1>4, <1>5, <1>6
  <2>2. CASE a # p
    BY <2>2, <1>5, <1>6
  <2> QED BY <2>1, <2>2
<1>12. Fresh'
  <2>1. ASSUME NEW i \in Runs, i > runs' PROVE i > runs
    BY SMTT(20), <1>2, <1>3, <2>1 DEF Runs
  <2> QED BY <1>1, <1>2, <1>5, <2>1 DEF Fresh
<1>13. Progress'
  <2> SUFFICES ASSUME NEW q \in Procs, Making(q)' PROVE (MachinesUp(q) /\ ConfigThere(q) /\ ClusterSoFar(q) /\ Noted(q))'
    BY DEF Progress
  <2>1. CASE q # p
    <3>1. Making(q) /\ Run(q)' = Run(q) /\ \A s : Done(q, s)' <=> Done(q, s)
      BY <1>6, <1>7, <2>1
    <3>2. MachinesUp(q) /\ ConfigThere(q) /\ ClusterSoFar(q) /\ Noted(q)
      BY <1>1, <3>1 DEF Progress
    <3>3. MachinesUp(q)' /\ Noted(q)'
      BY <1>2, <1>5, <3>1, <3>2 DEF MachinesUp, Noted, NodesUp
    <3>4. ConfigThere(q)' /\ ClusterSoFar(q)'
      BY <1>2, <1>5, <3>1, <3>2 DEF ConfigThere, ClusterSoFar, OwnConfig
    <3> QED BY <3>3, <3>4
  <2>2. CASE q = p
    <3>1. Kind(p)' = "create"
      BY <2>2 DEF Making
    <3>2. \A s \in Counted : ~ Done(p, s)'
      <4>1. \A n \in {5, 10, 11, 13, 16, 18, 19, 20} : ~ (1 > n)
        BY SMT
      <4> QED BY <1>4, <3>1, <4>1, CreatePlaces DEF Counted, Done
    <3>3. cluster[r] = NoCluster /\ r \notin past.delivered /\ ~ NoCluster.booted /\ ~ NoCluster.modules
      BY SMT, <1>1, <1>3 DEF Fresh, NoCluster
    <3>4. ~ cluster'[Run(p)'].booted /\ ~ cluster'[Run(p)'].modules /\ Run(p)' \notin past'.delivered
      BY <1>2, <1>4, <1>5, <3>3
    <3> QED BY <2>2, <3>2, <3>4 DEF Counted, MachinesUp, ConfigThere, ClusterSoFar, Noted
  <2> QED BY <2>1, <2>2
<1>14. Resumed'
  <2>1. ~ (Resuming(p)' /\ Done(p, "connect")')
    <3>1. ~ (1 > 3)
      BY SMT
    <3> QED BY <1>4, <3>1, ResumePlaces DEF Resuming, Done
  <2> QED BY <1>1, <1>2, <1>6, <1>7, <2>1 DEF Resumed
<1>15. Clusters'
  BY <1>1, <1>2, <1>5 DEF Clusters, NodesUp, Whole, OwnConfig
<1> QED BY <1>8, <1>9, <1>10, <1>11, <1>12, <1>13, <1>14, <1>15 DEF BuildInv, Ground

\* The virtualization module starts and removes machines; one that runs it leaves alone.
LEMMA WorldKeeps ==
    ASSUME VmShape, Virtualization
    PROVE  /\ DOMAIN vms' = Names /\ DOMAIN images' = Images /\ policy' = policy /\ work' = work /\ rm' = rm
           /\ \A v \in Names : vms[v] = "running" => vms'[v] = "running"
           /\ \A i \in Images : images'[i] \in {images[i], "ready"}
<1>1. policy' = policy /\ work' = work /\ rm' = rm
  BY DEF Virtualization
<1>2. \/ vms' = vms
      \/ \E v \in Names : vms' = [vms EXCEPT ![v] = "running"]
      \/ \E v \in Names : vms[v] = "deleting" /\ vms' = [vms EXCEPT ![v] = "absent"]
  BY DEF Virtualization
<1>3. images' = images \/ \E i \in Images : images' = [images EXCEPT ![i] = "ready"]
  BY DEF Virtualization
<1>4. DOMAIN vms' = Names /\ \A v \in Names : vms[v] = "running" => vms'[v] = "running"
  BY SMT, <1>2 DEF VmShape
<1>5. DOMAIN images' = Images /\ \A i \in Images : images'[i] \in {images[i], "ready"}
  BY SMT, <1>3 DEF VmShape
<1> QED BY <1>1, <1>4, <1>5

\* The rest of the world, and a step that changes nothing.
LEMMA BuildWorld ==
    ASSUME BuildInv, Shape', World \/ UNCHANGED vars PROVE BuildInv'
<1>1. Ground /\ Shape /\ Ids /\ VmShape /\ Removals /\ CluShape /\ Besides /\ Fresh /\ Progress /\ Resumed /\ Clusters
  BY DEF BuildInv, Ground
<1>2. /\ proc' = proc /\ cluster' = cluster /\ state' = state /\ config' = config /\ env' = env
      /\ past' = past /\ runs' = runs
  BY DEF World, vars, files
<1>3. /\ DOMAIN vms' = Names /\ DOMAIN images' = Images /\ work' = work /\ rm' = rm
      /\ \A v \in Names : vms[v] = "running" => vms'[v] = "running"
  <2>1. CASE World
    BY <1>1, <2>1, WorldKeeps DEF World
  <2>2. CASE UNCHANGED vars
    BY <1>1, <2>2 DEF vars, vmVars, objects, VmShape
  <2> QED BY <2>1, <2>2
<1>4. \A q \in Procs :
        /\ Idle(q)' = Idle(q) /\ Kind(q)' = Kind(q) /\ Run(q)' = Run(q) /\ Id(q)' = Id(q) /\ Stage(q)' = Stage(q)
        /\ proc'[q] = proc[q] /\ Making(q)' = Making(q) /\ Resuming(q)' = Resuming(q)
  BY <1>2, Unmoved
<1>5. \A q \in Procs : \A s : Done(q, s)' <=> Done(q, s)
  BY <1>4 DEF Done
<1>6. \A r \in Runs : (NodesUp(r) => NodesUp(r)') /\ (Whole(r) => Whole(r)') /\ (OwnConfig(r) => OwnConfig(r)')
  <2>1. \A r \in Runs : NodesUp(r) => NodesUp(r)'
    BY <1>3, NodeFacts DEF NodesUp
  <2> QED BY <1>2, <2>1 DEF Whole, OwnConfig
<1>7. Ids' /\ CluShape' /\ Besides' /\ Fresh'
  BY <1>1, <1>2, <1>4 DEF Ids, CluShape, Besides, Fresh
<1>8. VmShape'
  BY <1>1, <1>3 DEF VmShape
<1>9. Removals'
  <2>1. ASSUME NEW q \in Procs, Removing(q)'
        PROVE  /\ Stage(q)' \in {"removeSetup", "removeAll"}
               /\ \A v \in Range(rm'[q].todo) : v[1] = Id(q)' /\ (Kind(q)' = "resume" => v[2] = Setup)
    <3>1. rm'[q].todo = rm[q].todo /\ Stage(q)' = Stage(q) /\ Id(q)' = Id(q) /\ Kind(q)' = Kind(q)
      BY <1>3, <1>4
    <3> QED BY <1>1, <2>1, <3>1 DEF Removals, Removing
  <2> QED BY <2>1 DEF Removals
<1>10. Progress'
  <2> SUFFICES ASSUME NEW q \in Procs, Making(q)' PROVE (MachinesUp(q) /\ ConfigThere(q) /\ ClusterSoFar(q) /\ Noted(q))'
    BY DEF Progress
  <2>1. Making(q) /\ MachinesUp(q) /\ ConfigThere(q) /\ ClusterSoFar(q) /\ Noted(q)
    BY <1>1, <1>4 DEF Progress
  <2>2. Run(q) \in Runs /\ Name(Run(q), Setup) \in Names
    BY <1>1, <2>1, IdFacts, NodesAre, NodeFacts
  <2>3. MachinesUp(q)'
    BY <1>3, <1>4, <1>5, <1>6, <2>1, <2>2 DEF MachinesUp, NodesUp
  <2>4. ConfigThere(q)' /\ Noted(q)'
    BY <1>2, <1>4, <1>5, <2>1 DEF ConfigThere, Noted
  <2>5. ClusterSoFar(q)'
    BY <1>2, <1>4, <1>5, <2>1 DEF ClusterSoFar, OwnConfig
  <2> QED BY <2>3, <2>4, <2>5
<1>11. Resumed'
  BY <1>1, <1>2, <1>4, <1>5 DEF Resumed
<1>12. Clusters'
  BY <1>1, <1>2, <1>6 DEF Clusters
<1> QED BY <1>7, <1>8, <1>9, <1>10, <1>11, <1>12 DEF BuildInv, Ground

\* Every step.
LEMMA BuildNext ==
    Shape /\ LockInv /\ BuildInv /\ [Next]_vars => BuildInv'
<1> SUFFICES ASSUME Shape, LockInv, BuildInv, [Next]_vars PROVE BuildInv'
  OBVIOUS
<1>1. Shape'
  BY LockNext
<1>2. (\E p \in Procs : Start(p) \/ Acts(p)) \/ World \/ UNCHANGED vars
  BY DEF Next, Acts
<1> QED BY <1>1, <1>2, BuildStep, BuildStart, BuildWorld

\* The tests get the whole cluster: what WaitForTestClusterReady hands over was built by
\* CreateTestCluster to its end, from the run's own config.yml, and has its machines.
THEOREM DeliveredIsCompleteHolds == Spec => DeliveredIsComplete
<1> DEFINE A == \A p \in Procs :
                  Stage(p) = "ready" /\ proc'[p].pc > proc[p].pc =>
                     \/ Complete(Id(p))
                     \/ /\ Kind(p) = "resume"
                        /\ Id(p) \in past.cleaned \/ (~ env.modules /\ Id(p) \notin past.delivered)
<1>1. ASSUME BuildInv, Next PROVE A
  <2> SUFFICES ASSUME NEW p \in Procs, Stage(p) = "ready", proc'[p].pc > proc[p].pc
               PROVE  \/ Complete(Id(p))
                      \/ /\ Kind(p) = "resume"
                         /\ Id(p) \in past.cleaned \/ (~ env.modules /\ Id(p) \notin past.delivered)
    OBVIOUS
  <2>1. Ground /\ Shape /\ Ids /\ Removals /\ Progress /\ Resumed /\ Clusters
    BY <1>1 DEF BuildInv, Ground
  <2>2. Kind(p) \in {"create", "resume"} /\ ~ Idle(p) /\ Kind(p) \notin Locking
    BY SMT, <2>1, StageKinds DEF Locking
  <2>3. proc'[p] # proc[p] /\ ~ Idle(p)'
    <3>1. proc[p].pc \in Nat
      BY <2>1, <2>2, AtOther
    <3> QED BY SMT, <3>1 DEF Idle
  <2>4. Acts(p)
    <3>1. \A q \in Procs : Start(q) /\ q # p => proc'[p] = proc[p]
      BY SMTT(20), <2>1 DEF Start, Shape
    <3>2. ~ Start(p)
      BY <2>2 DEF Start
    <3>3. \A q \in Procs : Acts(q) /\ q # p => proc'[p] = proc[p]
      BY <2>1, ActionMoves DEF Acts, Moves
    <3>4. World => proc' = proc
      BY DEF World
    <3> QED BY <1>1, <2>3, <3>1, <3>2, <3>3, <3>4 DEF Next, Acts
  <2>5. ~ Removing(p)
    BY SMT, <2>1 DEF Removals
  <2>6. Can(p)
    BY <2>1, <2>2, <2>3, <2>4, <2>5, StepTaken DEF Takes, WaitForTestClusterReady
  <2>7. env.modules => cluster[Id(p)].modules
    BY <2>6 DEF Can
  <2>8. CASE Kind(p) = "create"
    <3>1. Making(p) /\ Id(p) = Run(p)
      BY <2>1, <2>2, <2>8, IdFacts DEF Making
    <3>2. /\ Done(p, "running") /\ ~ Done(p, "use") /\ Done(p, "upload") /\ Done(p, "dhctl") /\ Done(p, "join")
          /\ Done(p, "modules")
      BY <2>1, <3>1, Order
    <3>3. Whole(Run(p)) /\ NodesUp(Run(p))
      BY <2>1, <3>1, <3>2 DEF Progress, MachinesUp, ClusterSoFar, Whole
    <3> QED BY <3>1, <3>3 DEF Complete, Whole, OwnConfig, NodesUp
  <2>9. CASE Kind(p) = "resume"
    <3>1. Resuming(p) /\ Done(p, "connect") /\ Id(p) \in Runs
      BY <2>1, <2>2, <2>9, IdFacts, ResumeOrder DEF Resuming
    <3>2. CASE Id(p) \notin past.cleaned /\ (env.modules \/ Id(p) \in past.delivered)
      <4>1. NodesUp(Id(p)) /\ Whole(Id(p))
        BY <2>1, <2>7, <3>1, <3>2 DEF Resumed, Clusters
      <4> QED BY <4>1 DEF Complete, Whole, OwnConfig, NodesUp
    <3> QED BY <2>9, <3>2
  <2> QED BY <2>2, <2>8, <2>9
<1>2. BuildInv /\ [Next]_vars => [A]_vars
  BY <1>1
<1>3. Spec => []BuildInv
  BY LockInit, LockNext, BuildInit, BuildNext, PTL DEF Spec
<1>4. Spec => [][A]_vars
  BY <1>2, <1>3, PTL DEF Spec
<1> QED BY SMT, <1>4 DEF DeliveredIsComplete

\* Images that a run relies on.  A run that no call has failed has no error in its
\* goroutines, unless an image is in the way; and while no other run is beside it the
\* images its nodes start from stay.
ImageThere(n) == images[ImageOf[n]] # "absent"
NoError(p) == \A n \in Nodes : ~ At(p, n, "err")
Gathers(p) ==
    /\ Stage(p) = "images" /\ policy # "Always" /\ Run(p) \notin past.beside => NoError(p)
    /\ Stage(p) = "machines" => NoError(p)
    /\ Stage(p) = "images" /\ Run(p) \notin past.beside =>
         \A n \in Nodes : work[p][n] \in {"wait", "done"} => ImageThere(n)
    /\ Stage(p) \in {"machines", "running"} /\ Run(p) \notin past.beside => \A n \in Nodes : ImageThere(n)
ImageInv ==
    /\ \A i \in Images : images[i] \in {"absent", "loading", "ready"}
    /\ \A p \in Procs : Making(p) /\ Run(p) \notin past.disturbed => Gathers(p)

\* What a run that builds comes from.
LEMMA CameFrom ==
    ASSUME Shape, Shape', NEW p \in Procs, Making(p), Making(p)', On(p)
    PROVE  /\ Stage(p)' = "images" => Stage(p) = "conflicts"
           /\ Stage(p)' = "machines" => Stage(p) = "images"
           /\ Stage(p)' = "running" => Stage(p) = "machines"
<1> DEFINE n == proc[p].pc
<1>1. Kind(p)' = "create" /\ ~ Idle(p)' /\ proc'[p].pc = n + 1 /\ n \in 1 .. 24
  BY MakingAt DEF Making, On, Goes
<1>2. Stage(p)' = Program["create"][proc'[p].pc]
  BY <1>1 DEF Stage, Kind
<1>3. proc'[p].pc \in 0 .. 24
  BY ZenonT(30), <1>1, CreateProgram DEF Shape
<1>4. n + 1 \in DOMAIN Program["create"] /\ "create" \in Kinds
  BY SMTT(20), <1>1, <1>3, CreateProgram, KindsAre
<1>5. Place["create"][Stage(p)'] = n + 1
  BY <1>1, <1>2, <1>4, PlaceOf
<1>6. /\ Stage(p)' = "images" => n + 1 = 3
      /\ Stage(p)' = "machines" => n + 1 = 4
      /\ Stage(p)' = "running" => n + 1 = 5
  BY <1>5, CreatePlaces
<1>7. (n + 1 = 3 => n = 2) /\ (n + 1 = 4 => n = 3) /\ (n + 1 = 5 => n = 4)
  BY SMT, <1>1
<1> QED BY <1>6, <1>7, MakingAt

\* How a run that no call has failed goes on from the first steps.
LEMMA GatherTaken ==
    ASSUME Shape, NEW p \in Procs, Acts(p), Kind(p) \notin Locking, ~ Removing(p), ~ Idle(p)',
           Run(p) \notin past'.disturbed
    PROVE  /\ Stage(p) = "conflicts" => CheckConflicts(p)
           /\ Stage(p) \in {"images", "machines"} => Goroutine(p) \/ CreateVirtualMachines(p)
<1> SUFFICES ASSUME Stage(p) \in {"conflicts", "images", "machines"}
             PROVE  /\ Stage(p) = "conflicts" => CheckConflicts(p)
                    /\ Stage(p) \in {"images", "machines"} => Goroutine(p) \/ CreateVirtualMachines(p)
  OBVIOUS
<1>1. ~ Faults(p)
  <2>1. ~ Fault(p) /\ ~ ConnYAMLStays(p) /\ ~ AcquireFails(p) /\ ~ ReleaseFails(p)
    BY FaultIs DEF Disturbed
  <2> QED BY <2>1 DEF Faults, StepFails, SaveFails, MachineFails, CleanupFails, Kill
<1>2. ~ Looks(p)
  BY LooksAre DEF LookStages
<1>3. ~ GivesUp(p)
  BY OnOff, OffIdle DEF GivesUp
<1>4. CASE \/ saveClusterState(p) \/ loadClusterState(p) \/ PrepareBootstrapConfig(p) \/ UploadBootstrapFiles(p)
           \/ BootstrapCluster(p) \/ AddNodesToCluster(p) \/ EnableAndConfigureModules(p)
           \/ WaitForTestClusterReady(p) \/ AcquireClusterLock(p) \/ createCommanderCluster(p) \/ Use(p)
  BY <1>4 DEF saveClusterState, loadClusterState, PrepareBootstrapConfig, UploadBootstrapFiles,
     BootstrapCluster, AddNodesToCluster, EnableAndConfigureModules, WaitForTestClusterReady,
     AcquireClusterLock,
     createCommanderCluster, Use
<1>5. CASE \/ CloseTestCluster(p) \/ RemoveAllVMs(p) \/ CloseBase(p) \/ ReleaseClusterLock(p) \/ CloseExisting(p)
           \/ DeleteCommanderCluster(p)
  BY <1>5 DEF CloseTestCluster, RemoveAllVMs, CloseBase, ReleaseClusterLock, CloseExisting,
     DeleteCommanderCluster
<1>6. ~ RemoveMachine(p)
  BY DEF RemoveMachine, RemoveVM, DeleteMachine, DeleteDisk, ListDisks, DeleteImage, RmAt
<1>7. CASE CheckConflicts(p) \/ Goroutine(p) \/ CreateVirtualMachines(p)
  BY <1>7 DEF CheckConflicts, Goroutine, CreateVirtualMachines
<1> QED BY <1>1, <1>2, <1>3, <1>4, <1>5, <1>6, <1>7 DEF Acts, Create, Cleanup, Looks

\* A goroutine of createCVI or createVM takes a step.
LEMMA GatherStep ==
    ASSUME BuildInv, ImageInv, NEW p \in Procs, Making(p), Gathers(p), Goroutine(p)
    PROVE  /\ Stage(p) = "images" =>
                /\ policy # "Always" /\ Run(p) \notin past.beside => NoError(p)'
                /\ Run(p) \notin past.beside =>
                     \A n \in Nodes : work'[p][n] \in {"wait", "done"} => ImageThere(n)'
           /\ Stage(p) = "machines" => NoError(p)'
<1>1. /\ DOMAIN images = Images /\ DOMAIN work = Procs /\ DOMAIN work[p] = Nodes
      /\ \A n \in Nodes : ImageOf[n] \in Images
      /\ \A i \in Images : images[i] \in {"absent", "loading", "ready"}
  BY NodeFacts DEF BuildInv, Ground, VmShape, ImageInv
<1>2. PICK n \in Nodes : \/ Stage(p) = "images" /\ createCVI(p, n)
                         \/ Stage(p) = "machines" /\ createVM(p, n, Id(p))
  BY DEF Goroutine
<1>3. CASE Stage(p) = "machines"
  <2>1. NoError(p) /\ \E w \in {"vm", "done"} : Go(p, n, w)
    BY <1>2, <1>3 DEF Gathers, createVM, CreateDisk, CreateMachine
  <2>2. NoError(p)'
    BY SMTT(20), <1>1, <2>1 DEF NoError, At, Go
  <2> QED BY <1>3, <2>2
<1>4. CASE Stage(p) = "images"
  <2>1. GetImage(p, n) \/ CreateImage(p, n) \/ waitForClusterVirtualImageReady(p, n)
    BY <1>2, <1>4 DEF createCVI
  <2>2. \E w : Go(p, n, w) /\ (policy # "Always" /\ Run(p) \notin past.beside => w # "err")
    <3>1. CASE GetImage(p, n)
      BY SMTT(20), <3>1 DEF GetImage
    <3>2. CASE CreateImage(p, n)
      BY SMTT(20), <3>2 DEF CreateImage
    <3>3. CASE waitForClusterVirtualImageReady(p, n)
      <4>1. Run(p) \notin past.beside => images[ImageOf[n]] # "absent"
        BY <1>4, <3>3 DEF Gathers, ImageThere, waitForClusterVirtualImageReady, At
      <4>2. images[ImageOf[n]] # "loading" /\ Go(p, n, IF images[ImageOf[n]] = "ready" THEN "done" ELSE "err")
        BY <3>3 DEF waitForClusterVirtualImageReady
      <4>3. Run(p) \notin past.beside => images[ImageOf[n]] = "ready"
        BY <1>1, <4>1, <4>2
      <4> QED BY SMT, <4>2, <4>3
    <3> QED BY <2>1, <3>1, <3>2, <3>3
  <2>3. policy # "Always" /\ Run(p) \notin past.beside => NoError(p)'
    <3> SUFFICES ASSUME policy # "Always", Run(p) \notin past.beside PROVE NoError(p)'
      OBVIOUS
    <3>1. NoError(p)
      BY <1>4 DEF Gathers
    <3> QED BY SMTT(20), <1>1, <2>2, <3>1 DEF NoError, At, Go
  <2>4. ASSUME Run(p) \notin past.beside, NEW m \in Nodes, work'[p][m] \in {"wait", "done"}
        PROVE  ImageThere(m)'
    <3>0. work[p][m] \in {"wait", "done"} => images[ImageOf[m]] # "absent"
      BY <1>4, <2>4 DEF Gathers, ImageThere
    <3>1. CASE GetImage(p, n)
      <4>1. /\ work' = [work EXCEPT ![p][n] = IF images[ImageOf[n]] = "absent" THEN "create"
                                              ELSE IF policy = "Always" THEN "err" ELSE "wait"]
            /\ images' = images
        BY <3>1 DEF GetImage, Go, objects
      <4>2. images[ImageOf[m]] # "absent"
        BY SMTT(20), <1>1, <2>4, <3>0, <4>1
      <4> QED BY <4>1, <4>2 DEF ImageThere
    <3>2. CASE CreateImage(p, n)
      <4>1. /\ work' = [work EXCEPT ![p][n] = "wait"]
            /\ images' = [images EXCEPT ![ImageOf[n]] = IF @ = "absent" THEN "loading" ELSE @]
        BY <3>2 DEF CreateImage, Go
      <4>2. images'[ImageOf[m]] # "absent"
        BY SMTT(20), <1>1, <2>4, <3>0, <4>1
      <4> QED BY <4>2 DEF ImageThere
    <3>3. CASE waitForClusterVirtualImageReady(p, n)
      <4>1. /\ work' = [work EXCEPT ![p][n] = IF images[ImageOf[n]] = "ready" THEN "done" ELSE "err"]
            /\ images' = images /\ work[p][n] = "wait"
        BY <3>3 DEF waitForClusterVirtualImageReady, Go, objects, At
      <4>2. images[ImageOf[m]] # "absent"
        BY SMTT(20), <1>1, <2>4, <3>0, <4>1
      <4> QED BY <4>1, <4>2 DEF ImageThere
    <3> QED BY <2>1, <3>1, <3>2, <3>3
  <2> QED BY <1>4, <2>3, <2>4
<1> QED BY <1>3, <1>4

\* A step of p: the images stay, but for those that RemoveVM deletes.
LEMMA ImagesStay ==
    ASSUME BuildInv, ImageInv, NEW p \in Procs, Acts(p)
    PROVE  /\ \A i \in Images : images'[i] \in {"absent", "loading", "ready"}
           /\ ~ Removing(p) => \A n \in Nodes : ImageThere(n) => ImageThere(n)'
           /\ Removing(p) => ~ Idle(p) /\ Stage(p) \in {"removeSetup", "removeAll"}
           /\ policy' = policy /\ \A q \in Procs \ {p} : work'[q] = work[q]
<1>1. Shape /\ Ids /\ VmShape /\ Removals
  BY DEF BuildInv, Ground
<1>2. ImageSteps(p) /\ WorkSteps(p)
  BY <1>1, VmEffect DEF VmSteps
<1>3. \A i \in Images : images'[i] \in {"absent", "loading", "ready"}
  BY <1>2 DEF ImageSteps, ImageInv
<1>4. ~ Removing(p) => \A n \in Nodes : ImageThere(n) => ImageThere(n)'
  BY <1>2, NodeFacts DEF ImageSteps, ImageThere
<1>5. Removing(p) => ~ Idle(p) /\ Stage(p) \in {"removeSetup", "removeAll"}
  BY <1>1, StageKinds DEF Removals
<1> QED BY <1>2, <1>3, <1>4, <1>5, BuildEffect DEF FileSteps, WorkSteps

\* A step keeps the images a run that builds has asked for.
LEMMA ImageStep ==
    ASSUME BuildInv, Shape', ImageInv, NEW p \in Procs, Acts(p) PROVE ImageInv'
<1>1. Shape /\ Ids /\ VmShape /\ Removals /\ Besides
  BY DEF BuildInv, Ground
<1>2. Moves(p) /\ Frame
  BY <1>1, ActionMoves DEF Acts
<1>3. past.beside \subseteq past'.beside /\ past.disturbed \subseteq past'.disturbed
  BY <1>2 DEF Frame, Grows
<1>4. ASSUME NEW q \in Procs, q # p, Making(q)', Run(q)' \notin past'.disturbed PROVE Gathers(q)'
  <2>1. Making(q) /\ Run(q)' = Run(q) /\ Stage(q)' = Stage(q)
    BY <1>2, <1>4, OthersStay
  <2>2. Gathers(q)
    BY <1>3, <1>4, <2>1 DEF ImageInv
  <2>3. policy' = policy /\ work'[q] = work[q]
    BY <1>4, ImagesStay
  <2>4. Run(q) \notin past.beside => \A n \in Nodes : ImageThere(n) => ImageThere(n)'
    <3>1. Run(q) \notin past.beside => Idle(p)
      BY <1>1, <1>4, <2>1 DEF Besides, Making
    <3> QED BY <3>1, ImagesStay
  <2>5. NoError(q) => NoError(q)'
    BY <2>3 DEF NoError, At
  <2> QED BY <1>3, <2>1, <2>2, <2>3, <2>4, <2>5 DEF Gathers
<1>5. ASSUME Making(p)', Run(p)' \notin past'.disturbed PROVE Gathers(p)'
  <2>1. Making(p) /\ Run(p)' = Run(p) /\ Kind(p) \notin Locking /\ ~ Idle(p)' /\ ~ Idle(p)
    BY <1>2, <1>5, SelfBefore DEF Making
  <2>2. Gathers(p) /\ Run(p) \notin past'.disturbed
    BY <1>3, <1>5, <2>1 DEF ImageInv
  <2>3. proc' = proc \/ On(p) \/ Skips(p)
    BY <1>1, <2>1, ProcEffect, OffIdle, StageKinds DEF Loads, Making
  <2>4. proc' = proc => Stage(p)' = Stage(p)
    BY Unmoved
  <2> SUFFICES ASSUME Stage(p)' \in {"images", "machines", "running"} PROVE Gathers(p)'
    BY DEF Gathers
  <2>5. ~ Removing(p) /\ (proc' = proc \/ On(p))
    <3>1. CASE Skips(p)
      <4>1. Stage(p)' = "closeBase"
        <5>1. proc'[p].pc = 24 /\ Kind(p)' = "create" /\ ~ Idle(p)'
          BY <2>1, <3>1, CreatePlaces DEF Skips, Goes, Making, Kind
        <5> QED BY <5>1, CreateProgram DEF Stage, Kind
      <4> QED BY SMT, <4>1
    <3>2. CASE proc' = proc
      <4>1. ~ Removing(p)
        BY SMTT(20), <2>4, <3>2, ImagesStay
      <4> QED BY <3>2, <4>1
    <3>3. CASE On(p)
      <4>1. Stage(p) \in {"conflicts", "images", "machines"}
        BY <1>1, <1>5, <2>1, <3>3, CameFrom
      <4>2. ~ Removing(p)
        BY SMT, <4>1, ImagesStay
      <4> QED BY <3>3, <4>2
    <3> QED BY <2>3, <3>1, <3>2, <3>3
  <2>6. /\ Stage(p) = "conflicts" => CheckConflicts(p)
        /\ Stage(p) \in {"images", "machines"} => Goroutine(p) \/ CreateVirtualMachines(p)
    BY <1>1, <2>1, <2>2, <2>5, GatherTaken
  <2>7. \A n \in Nodes : ImageThere(n) => ImageThere(n)'
    BY <2>5, ImagesStay
  <2>8. \A w : Begin(p, w) => \A n \in Nodes : work'[p][n] = w
    BY SMT, <1>1 DEF Begin, VmShape
  <2>9. policy' = policy /\ (Run(p)' \notin past'.beside => Run(p) \notin past.beside)
    BY <1>3, <2>1, ImagesStay
  <2>10. CASE Stage(p)' = "images"
    <3>1. CASE Stage(p) = "conflicts"
      <4>1. Begin(p, "get")
        <5>1. ~ Fails(p)
          BY <1>1, <2>1, OnOff, OffIdle
        <5> QED BY <2>6, <3>1, <5>1 DEF CheckConflicts
      <4>2. \A n \in Nodes : work'[p][n] = "get"
        BY <2>8, <4>1
      <4> QED BY SMT, <2>10, <4>2 DEF Gathers, NoError, At
    <3>2. CASE proc' = proc
      <4>1. Stage(p) = "images"
        BY <2>4, <2>10, <3>2
      <4>2. Goroutine(p)
        <5>1. ~ CreateVirtualMachines(p)
          <6>1. ~ On(p) /\ ~ Off(p)
            <7>1. proc[p].pc \in 1 .. 24 /\ proc'[p].pc = proc[p].pc
              BY <1>1, <2>1, <3>2, MakingAt
            <7>2. proc'[p].pc # proc[p].pc + 1 /\ proc'[p].pc # 0
              BY SMT, <7>1
            <7> QED BY <7>2 DEF On, Off, Goes
          <6> QED BY <1>1, <2>1, <6>1, OnOff DEF CreateVirtualMachines
        <5> QED BY <2>6, <4>1, <5>1
      <4>3. /\ policy # "Always" /\ Run(p) \notin past.beside => NoError(p)'
            /\ Run(p) \notin past.beside => \A n \in Nodes : work'[p][n] \in {"wait", "done"} => ImageThere(n)'
        BY <2>1, <2>2, <4>1, <4>2, GatherStep
      <4>4. "images" # "machines" /\ "images" # "running"
        OBVIOUS
      <4> QED BY <2>9, <2>10, <4>3, <4>4 DEF Gathers
    <3> QED BY <1>1, <1>5, <2>1, <2>5, <2>10, <3>1, <3>2, CameFrom
  <2>11. CASE Stage(p)' \in {"machines", "running"}
    <3>1. Run(p)' \notin past'.beside => \A n \in Nodes : ImageThere(n)'
      <4> SUFFICES ASSUME Run(p)' \notin past'.beside PROVE \A n \in Nodes : ImageThere(n)
        BY <2>7
      <4>1. CASE Stage(p) \in {"machines", "running"}
        BY <2>2, <2>9, <4>1 DEF Gathers
      <4>2. CASE Stage(p) = "images"
        <5>1. ~ Goroutine(p)
          <6>1. Goroutine(p) => proc' = proc
            BY DEF Goroutine
          <6> QED BY SMTT(20), <2>4, <2>11, <4>2, <6>1
        <5>2. Joined(p) /\ ~ Failed(p)
          <6>1. ~ Fails(p)
            BY <1>1, <2>1, OnOff, OffIdle
          <6> QED BY <2>6, <4>2, <5>1, <6>1 DEF CreateVirtualMachines
        <5>3. \A n \in Nodes : work[p][n] = "done"
          BY <5>2 DEF Joined, Failed, At
        <5> QED BY <2>2, <2>9, <4>2, <5>3 DEF Gathers
      <4>3. Stage(p) \in {"images", "machines", "running"}
        BY <1>1, <1>5, <2>1, <2>4, <2>5, <2>11, CameFrom
      <4> QED BY <4>1, <4>2, <4>3
    <3>2. Stage(p)' = "machines" => NoError(p)'
      <4> SUFFICES ASSUME Stage(p)' = "machines" PROVE NoError(p)'
        OBVIOUS
      <4>1. CASE Stage(p) = "machines"
        <5>1. CASE Goroutine(p)
          BY <2>1, <2>2, <4>1, <5>1, GatherStep
        <5>2. CASE CreateVirtualMachines(p)
          <6>1. Begin(p, "done")
            BY SMT, <4>1, <5>2 DEF CreateVirtualMachines
          <6>2. \A n \in Nodes : work'[p][n] = "done"
            BY <2>8, <6>1
          <6> QED BY SMT, <6>2 DEF NoError, At
        <5> QED BY <2>6, <4>1, <5>1, <5>2
      <4>2. CASE Stage(p) = "images"
        <5>1. ~ Goroutine(p)
          <6>1. Goroutine(p) => proc' = proc
            BY DEF Goroutine
          <6> QED BY SMTT(20), <2>4, <4>2, <6>1
        <5>2. ~ Fails(p)
          BY <1>1, <2>1, OnOff, OffIdle
        <5>3. Begin(p, "disk")
          BY <2>6, <4>2, <5>1, <5>2 DEF CreateVirtualMachines
        <5>4. \A n \in Nodes : work'[p][n] = "disk"
          BY <2>8, <5>3
        <5> QED BY SMT, <5>4 DEF NoError, At
      <4> QED BY <1>1, <1>5, <2>1, <2>4, <2>5, <4>1, <4>2, CameFrom
    <3>3. Stage(p)' # "images"
      BY SMT, <2>11
    <3> QED BY <3>1, <3>2, <3>3 DEF Gathers
  <2> QED BY <2>10, <2>11
<1>6. \A i \in Images : images'[i] \in {"absent", "loading", "ready"}
  BY ImagesStay
<1> QED BY <1>4, <1>5, <1>6 DEF ImageInv

\* A run begins, or the world takes a step.
LEMMA ImageRest ==
    ASSUME BuildInv, ImageInv, (\E p \in Procs : Start(p)) \/ World \/ UNCHANGED vars
    PROVE  ImageInv'
<1>1. Shape /\ VmShape
  BY DEF BuildInv, Ground
<1>2. /\ policy' = policy /\ work' = work /\ \A i \in Images : images'[i] \in {images[i], "ready"}
      /\ past'.disturbed = past.disturbed /\ past.beside \subseteq past'.beside
  <2>1. CASE \E p \in Procs : Start(p)
    BY <1>1, <2>1, StartDoes
  <2>2. CASE World
    BY <1>1, <2>2, WorldKeeps DEF World
  <2>3. CASE UNCHANGED vars
    BY <2>3 DEF vars, vmVars, objects
  <2> QED BY <2>1, <2>2, <2>3
<1>3. ASSUME NEW q \in Procs, Making(q)', Run(q)' \notin past'.disturbed PROVE Gathers(q)'
  <2>1. CASE proc'[q] = proc[q]
    <3>1. Making(q) /\ Run(q)' = Run(q) /\ Stage(q)' = Stage(q)
      BY <1>3, <2>1, Unmoved
    <3>2. Gathers(q)
      BY <1>2, <1>3, <3>1 DEF ImageInv
    <3>3. \A n \in Nodes : ImageThere(n) => ImageThere(n)'
      BY SMT, <1>2, NodeFacts DEF ImageThere
    <3>4. NoError(q) => NoError(q)'
      BY <1>2 DEF NoError, At
    <3> QED BY <1>2, <3>1, <3>2, <3>3, <3>4 DEF Gathers
  <2>2. CASE Start(q)
    <3>1. Kind(q)' = "create" /\ ~ Idle(q)' /\ proc'[q].pc = 1
      BY <1>1, <1>3, <2>2, StartDoes DEF Making
    <3>2. Stage(q)' = "base"
      BY <3>1, CreateProgram DEF Stage, Kind
    <3> QED BY SMT, <3>2 DEF Gathers
  <2>3. proc'[q] = proc[q] \/ Start(q)
    <3>1. ASSUME NEW p \in Procs, Start(p) PROVE proc'[q] = proc[q] \/ Start(q)
      BY <1>1, <3>1, StartDoes
    <3>2. World \/ UNCHANGED vars => proc' = proc
      BY DEF World, vars
    <3> QED BY <3>1, <3>2
  <2> QED BY <2>1, <2>2, <2>3
<1>4. \A i \in Images : images'[i] \in {"absent", "loading", "ready"}
  BY <1>2 DEF ImageInv
<1> QED BY <1>3, <1>4 DEF ImageInv

\* What has been done before a step that needs it.
LEMMA Needs ==
    ASSUME Shape, NEW p \in Procs, Making(p)
    PROVE  /\ Stage(p) \in {"gather", "setup", "docker", "upload", "connYAML", "dhctl"} =>
                Done(p, "running") /\ ~ Done(p, "dhctl") /\ ~ Done(p, "use")
           /\ Stage(p) \in {"upload", "connYAML"} => Done(p, "prepare")
           /\ Stage(p) \in {"connect", "join"} => Done(p, "dhctl") /\ Done(p, "running") /\ ~ Done(p, "use")
           /\ Stage(p) = "joined" => Done(p, "join")
           /\ Stage(p) = "ready" => Done(p, "modules")
<1> DEFINE n == proc[p].pc
<1>1. n = Place["create"][Stage(p)]
  BY AtPlace DEF Making
<1>2. /\ Stage(p) \in {"gather", "setup", "docker", "upload", "connYAML", "dhctl"} => n \in {6, 8, 9, 11, 12, 13}
      /\ Stage(p) \in {"upload", "connYAML"} => n \in {11, 12}
      /\ Stage(p) \in {"connect", "join"} => n \in {14, 16}
      /\ Stage(p) = "joined" => n = 17
      /\ Stage(p) = "ready" => n = 19
  BY ZenonT(30), <1>1, CreatePlaces
<1> HIDE DEF n
<1>3. /\ n \in {6, 8, 9, 11, 12, 13} => n > 5 /\ ~ (n > 13) /\ ~ (n > 20)
      /\ n \in {11, 12} => n > 10
      /\ n \in {14, 16} => n > 13 /\ n > 5 /\ ~ (n > 20)
      /\ n = 17 => n > 16
      /\ n = 19 => n > 18
  BY SMT
<1> QED BY <1>2, <1>3, MakingDone DEF n

\* A run that builds can take its next step, but for an image or a file that another
\* run beside it has taken away.
LEMMA NotHopeless ==
    ASSUME BuildInv, ImageInv, NEW p \in Procs, Making(p), Hopeless(p), Run(p) \notin past.disturbed
    PROVE  Run(p) \in past.beside /\ Stage(p) \in {"running", "upload", "connYAML"}
<1> DEFINE r == Run(p)
<1>1. Shape /\ Ids /\ Ground /\ Progress
  BY DEF BuildInv, Ground
<1>2. Id(p) = r /\ r \in Runs /\ r # 0 /\ Kind(p) = "create"
  <2>1. 0 \notin Runs
    BY SMT DEF Runs
  <2> QED BY <1>1, <2>1, IdFacts DEF Making
<1>3. MachinesUp(p) /\ ConfigThere(p) /\ ClusterSoFar(p) /\ Gathers(p)
  BY <1>1 DEF Progress, ImageInv
<1>4. CASE Stage(p) = "running"
  <2>1. \E n \in Nodes : ~ ImageThere(n)
    BY <1>4 DEF Hopeless, ImageThere
  <2> QED BY <1>3, <1>4, <2>1 DEF Gathers
<1>5. ASSUME Done(p, "running"), ~ Done(p, "use") PROVE \A n \in Nodes \ {Setup} : Up(p, n)
  BY <1>2, <1>3, <1>5 DEF MachinesUp, NodesUp, Up
<1>6. ASSUME Done(p, "running"), ~ Done(p, "dhctl") PROVE Up(p, Setup)
  BY <1>2, <1>3, <1>6 DEF MachinesUp, Up
<1>7. CASE Stage(p) # "running"
  <2>0. ~ Can(p)
    BY <1>7 DEF Hopeless
  <2>1. CASE Stage(p) \in {"gather", "setup", "docker", "dhctl"}
    <3>1. Up(p, Setup) /\ \A n \in Nodes \ {Setup} : Up(p, n)
      BY <1>1, <1>5, <1>6, <2>1, Needs
    <3>2. Running(Id(p))
      BY <3>1 DEF Up, Running
    <3>3. Up(p, Head(Masters))
      BY <3>1, NodesAre
    <3> QED BY SMTT(20), <2>0, <2>1, <3>1, <3>2, <3>3 DEF Can
  <2>2. CASE Stage(p) \in {"upload", "connYAML"}
    <3>1. config = r \/ r \in past.beside
      BY <1>1, <1>3, <2>2, Needs DEF ConfigThere
    <3>2. config # 0 => Can(p)
      BY SMT, <2>2 DEF Can
    <3> QED BY <1>2, <2>0, <2>2, <3>1, <3>2
  <2>3. CASE Stage(p) \in {"connect", "join"}
    <3>1. cluster[Id(p)].booted /\ \A n \in Nodes \ {Setup} : Up(p, n)
      BY <1>1, <1>2, <1>3, <1>5, <2>3, Needs DEF ClusterSoFar
    <3>2. Up(p, Head(Masters)) /\ \A n \in Range(Workers) : Up(p, n)
      BY <3>1, NodesAre
    <3> QED BY SMTT(20), <2>0, <2>3, <3>1, <3>2 DEF Can
  <2>4. CASE Stage(p) \in {"joined", "ready"}
    <3>1. /\ Stage(p) = "joined" => cluster[Id(p)].joined = Range(Workers)
          /\ Stage(p) = "ready" => cluster[Id(p)].modules = env.modules
      BY <1>1, <1>2, <1>3, Needs DEF ClusterSoFar
    <3> QED BY SMTT(20), <2>0, <2>4, <3>1 DEF Can
  <2>5. CASE Stage(p) \notin {"running", "gather", "setup", "docker", "upload", "connYAML", "dhctl", "connect", "join",
                              "joined", "ready", "find"}
    BY SMTT(20), <2>0, <2>5 DEF Can
  <2>6. Stage(p) # "find"
    <3>1. Kind(p) \notin Locking /\ ~ Idle(p)
      BY DEF Making, Locking
    <3> QED BY <1>1, <3>1, AtOther
  <2> QED BY <1>7, <2>1, <2>2, <2>3, <2>4, <2>5, <2>6
<1> QED BY <1>4, <1>7

\* What HealthyCreateSucceeds says of one process.
Healthy(p) ==
    proc[p].ended = "failed" /\ Kind(p) = "create" /\ Run(p) \notin past.disturbed =>
        \/ policy = "Always" /\ proc[p].at \in {"conflicts", "images"}
        \/ Run(p) \in past.beside /\ proc[p].at \in {"images", "running", "upload", "connYAML"}

\* A run fails.
LEMMA FailsWell ==
    ASSUME BuildInv, ImageInv, HealthyCreateSucceeds, NEW p \in Procs, Acts(p)
    PROVE  Healthy(p)'
<1> SUFFICES ASSUME proc'[p].ended = "failed", Kind(p)' = "create", Run(p)' \notin past'.disturbed
             PROVE  \/ policy' = "Always" /\ proc'[p].at \in {"conflicts", "images"}
                    \/ Run(p)' \in past'.beside /\ proc'[p].at \in {"images", "running", "upload", "connYAML"}
  BY DEF Healthy
<1>1. Shape /\ Ids
  BY DEF BuildInv, Ground
<1>2. Moves(p) /\ Frame
  BY <1>1, ActionMoves DEF Acts
<1>3. /\ past.beside \subseteq past'.beside /\ past.disturbed \subseteq past'.disturbed /\ policy' = policy
      /\ Run(p)' = Run(p) /\ Kind(p)' = Kind(p)
  BY <1>2, ImagesStay, SelfBefore DEF Frame, Grows
<1>4. CASE Idle(p)
  <2>1. proc'[p] = proc[p]
    BY <1>2, <1>4 DEF Moves
  <2> QED BY <1>3, <2>1 DEF HealthyCreateSucceeds
<1>5. CASE ~ Idle(p)
  <2>1. Making(p) /\ Kind(p) \notin Locking
    BY <1>3, <1>5 DEF Making, Locking
  <2>2. proc[p].ended # "failed"
    BY SMTT(20), <1>1, <2>1 DEF Ids
  <2>3. Off(p)
    <3>1. proc' # proc /\ ~ On(p) /\ ~ Skips(p)
      BY <2>2 DEF On, Skips, Same
    <3>2. ~ Loads(p)
      BY <1>1, <2>1, StageKinds DEF Loads, Making
    <3> QED BY <1>1, <1>5, <2>1, <3>1, <3>2, ProcEffect
  <2>4. Reason(p) /\ proc'[p].at = Stage(p) /\ Run(p) \notin past.disturbed /\ Run(p) \notin past'.disturbed
    BY <1>1, <1>3, <2>1, <2>3, PastEffect DEF PastSteps, Off
  <2>5. Gathers(p)
    BY <2>1, <2>4 DEF ImageInv
  <2>6. CASE Hopeless(p)
    BY <1>3, <2>1, <2>4, <2>6, NotHopeless
  <2>7. CASE Stage(p) = "conflicts" /\ checkResourceConflicts # {}
    <3>1. policy = "Always"
      BY <2>7 DEF checkResourceConflicts
    <3> QED BY <1>3, <2>4, <2>7, <3>1
  <2>8. CASE Stage(p) \in {"images", "machines"} /\ Failed(p)
    <3>1. ~ NoError(p)
      BY <2>8 DEF Failed, NoError
    <3>2. Stage(p) = "images" /\ (policy = "Always" \/ Run(p) \in past.beside)
      BY <2>5, <2>8, <3>1 DEF Gathers
    <3> QED BY <1>3, <2>4, <3>2
  <2> QED BY <2>4, <2>6, <2>7, <2>8 DEF Reason
<1> QED BY <1>4, <1>5

\* With no call failing CreateTestCluster succeeds: it may stop at an image with
\* IMAGE_PULL_POLICY=Always, and it may lose an image or config.yml to a run beside it.
THEOREM HealthyCreateSucceedsHolds == Spec => []HealthyCreateSucceeds
<1> DEFINE Inv == Shape /\ LockInv /\ BuildInv /\ ImageInv /\ HealthyCreateSucceeds
<1>1. Init => Inv
  <2> SUFFICES ASSUME Init PROVE Inv
    OBVIOUS
  <2>1. proc = [p \in Procs |-> NoProc] /\ \A p \in Procs : proc[p].ended # "failed" /\ Idle(p)
    BY SMT DEF Init, NoProc, Idle
  <2>2. HealthyCreateSucceeds
    BY <2>1 DEF HealthyCreateSucceeds
  <2>3. \A i \in Images : images[i] = "absent"
    BY DEF Init, VmInit
  <2>4. ImageInv
    BY <2>1, <2>3 DEF ImageInv, Making
  <2> QED BY <2>2, <2>4, LockInit, BuildInit
<1>2. Inv /\ [Next]_vars => Inv'
  <2> SUFFICES ASSUME Shape, LockInv, BuildInv, ImageInv, HealthyCreateSucceeds, [Next]_vars PROVE Inv'
    OBVIOUS
  <2>1. Shape' /\ LockInv' /\ BuildInv'
    BY LockNext, BuildNext
  <2>2. (\E p \in Procs : Acts(p)) \/ (\E p \in Procs : Start(p)) \/ World \/ UNCHANGED vars
    BY DEF Next, Acts
  <2>3. ImageInv'
    BY <2>1, <2>2, ImageStep, ImageRest
  <2>4. \A q \in Procs : Healthy(q)
    BY DEF HealthyCreateSucceeds, Healthy
  <2>5. ASSUME NEW q \in Procs, proc'[q] = proc[q], policy' = policy, past.beside \subseteq past'.beside,
               past.disturbed \subseteq past'.disturbed
        PROVE  Healthy(q)'
    <3>1. Kind(q)' = Kind(q) /\ Run(q)' = Run(q)
      BY <2>5, Unmoved
    <3> QED BY <2>4, <2>5, <3>1 DEF Healthy
  <2>6. ASSUME NEW p \in Procs, Acts(p), NEW q \in Procs PROVE Healthy(q)'
    <3>1. CASE q = p
      BY <2>6, <3>1, FailsWell
    <3>2. CASE q # p
      <4>1. Moves(p) /\ Frame
        BY <2>6, ActionMoves DEF Acts
      <4>2. /\ proc'[q] = proc[q] /\ policy' = policy /\ past.beside \subseteq past'.beside
            /\ past.disturbed \subseteq past'.disturbed
        BY <2>6, <3>2, <4>1, ImagesStay DEF Moves, Frame, Grows
      <4> QED BY <2>5, <4>2
    <3> QED BY <3>1, <3>2
  <2>7. ASSUME NEW p \in Procs, Start(p), NEW q \in Procs PROVE Healthy(q)'
    <3>1. /\ policy' = policy /\ past.beside \subseteq past'.beside /\ past'.disturbed = past.disturbed
          /\ proc'[p].ended = "none" /\ (q # p => proc'[q] = proc[q])
      BY <2>7, StartDoes
    <3>2. CASE q = p
      BY SMT, <3>1, <3>2 DEF Healthy
    <3>3. CASE q # p
      BY <2>5, <3>1, <3>3
    <3> QED BY <3>2, <3>3
  <2>8. ASSUME World \/ UNCHANGED vars, NEW q \in Procs PROVE Healthy(q)'
    <3>1. VmShape
      BY DEF BuildInv, Ground
    <3>2. proc' = proc /\ past' = past /\ policy' = policy
      BY <2>8, <3>1, WorldKeeps DEF World, vars, vmVars
    <3> QED BY <2>5, <3>2
  <2>9. HealthyCreateSucceeds'
    BY <2>2, <2>6, <2>7, <2>8 DEF HealthyCreateSucceeds, Healthy
  <2> QED BY <2>1, <2>3, <2>9
<1>3. Inv => HealthyCreateSucceeds
  OBVIOUS
<1> QED BY <1>1, <1>2, <1>3, PTL DEF Spec

=============================================================================
