------------------------------- MODULE DvpProofs -------------------------------
(***************************************************************************)
(* Proofs about the machines and the disks of the DVP provider.            *)
(*                                                                         *)
(* VmFleet, for any cluster definition, any limit and any number of        *)
(* commands and failures: machines keep their disks while they run, a      *)
(* teardown takes away what is ours and nothing else, and a Provision that *)
(* succeeds has delivered every machine.                                   *)
(*                                                                         *)
(* DvpDisks, for any disks, nodes, sizes and callers: no disk is asked to  *)
(* shrink, and what was reported attached stays attached.                  *)
(***************************************************************************)
EXTENDS VmFleet, DvpDisks, TLAPS

Creating == {"class", "images", "create", "running"}
Deleting == {"vms", "disks", "node"}
Statuses == {"absent", "pending", "ready", "deleting"}

\* Who may be in the group of a stage.
Members(s) ==
    CASE s = "class"  -> {"main"}
      [] s = "images" -> Images
      [] s \in {"create", "running"} -> Nodes
      [] s = "vms"    -> Nodes
      [] s = "disks"  -> Nodes
      [] s = "node"   -> {SetupNode}

-----------------------------------------------------------------------------
(* The calls of a goroutine.                                               *)

\* Two pairs in a row.
LEMMA ConcatTwo ==
    ASSUME NEW a, NEW b, NEW c, NEW d
    PROVE  LET q == <<a, b>> \o <<c, d>>
           IN  Len(q) = 4 /\ q[1] = a /\ q[2] = b /\ q[3] = c /\ q[4] = d
<1> DEFINE S == {a, b, c, d}
<1>1. <<a, b>> \in Seq(S) /\ <<c, d>> \in Seq(S)
  OBVIOUS
<1> QED BY <1>1

\* A pair and one more.
LEMMA ConcatOne ==
    ASSUME NEW a, NEW b, NEW c
    PROVE  LET q == <<a, b>> \o <<c>>
           IN  Len(q) = 3 /\ q[1] = a /\ q[2] = b /\ q[3] = c
<1> DEFINE S == {a, b, c}
<1>1. <<a, b>> \in Seq(S) /\ <<c>> \in Seq(S)
  OBVIOUS
<1> QED BY <1>1

\* Class, images, machines and disks are objects.
LEMMA OurObjects ==
    /\ Class \in Objects
    /\ \A i \in Images : Image(i) \in Objects
    /\ \A n \in Machines : Vm(n) \in Objects /\ Disk(n) \in Objects
    /\ Nodes \subseteq Machines /\ Foreign \subseteq Machines
BY Zenon DEF Objects, Shared, Machines

\* Objects of different kinds, machines or disks are different.
LEMMA Distinct ==
    \A n, m : /\ Vm(n) # Disk(m) /\ Vm(n) # Class /\ Disk(n) # Class
              /\ Vm(n) # Image(m) /\ Disk(n) # Image(m)
              /\ Vm(n) = Vm(m) => n = m
              /\ Disk(n) = Disk(m) => n = m
BY Zenon DEF Vm, Disk, Class, Image

\* A Provision reads, creates and waits; a Get is followed by its Create.
LEMMA CreatingCalls ==
    ASSUME NEW s \in Creating, NEW g \in Members(s)
    PROVE  /\ Len(Calls(s, g)) \in 1 .. 4
           /\ \A i \in 1 .. Len(Calls(s, g)) :
                 /\ Calls(s, g)[i][1] \in {"get", "create", "await"}
                 /\ Calls(s, g)[i][2] \in Objects
                 /\ Calls(s, g)[i][1] = "get" => i < Len(Calls(s, g))
<1>1. CASE s = "class"
  <2>1. Calls(s, g) = << <<"get", Class>>, <<"create", Class>> >> \o << <<"await", Class>> >>
    BY Zenon, <1>1 DEF Calls, createIfAbsent
  <2> DEFINE q == Calls(s, g)
  <2>2. /\ Len(q) = 3 /\ q[1] = <<"get", Class>> /\ q[2] = <<"create", Class>>
        /\ q[3] = <<"await", Class>>
    BY <2>1, ConcatOne
  <2> HIDE DEF q
  <2>3. Class \in Objects
    BY Zenon, OurObjects
  <2> QED BY <2>2, <2>3 DEF q
<1>2. CASE s = "images"
  <2>1. Calls(s, g) = << <<"get", Image(g)>>, <<"create", Image(g)>> >> \o << <<"await", Image(g)>> >>
    BY Zenon, <1>2 DEF Calls, createIfAbsent
  <2> DEFINE q == Calls(s, g)
  <2>2. /\ Len(q) = 3 /\ q[1] = <<"get", Image(g)>> /\ q[2] = <<"create", Image(g)>>
        /\ q[3] = <<"await", Image(g)>>
    BY <2>1, ConcatOne
  <2> HIDE DEF q
  <2>3. Image(g) \in Objects
    BY Zenon, <1>2, OurObjects DEF Members
  <2> QED BY <2>2, <2>3 DEF q
<1>3. CASE s = "create"
  <2>1. Calls(s, g) = << <<"get", Disk(g)>>, <<"create", Disk(g)>> >>
                      \o << <<"get", Vm(g)>>, <<"create", Vm(g)>> >>
    BY Zenon, <1>3 DEF Calls, createIfAbsent
  <2> DEFINE q == Calls(s, g)
  <2>2. /\ Len(q) = 4 /\ q[1] = <<"get", Disk(g)>> /\ q[2] = <<"create", Disk(g)>>
        /\ q[3] = <<"get", Vm(g)>> /\ q[4] = <<"create", Vm(g)>>
    BY <2>1, ConcatTwo
  <2> HIDE DEF q
  <2>3. Disk(g) \in Objects /\ Vm(g) \in Objects
    BY Zenon, <1>3, OurObjects DEF Members
  <2> QED BY <2>2, <2>3 DEF q
<1>4. CASE s = "running"
  <2>1. Calls(s, g) = << <<"await", Vm(g)>> >>
    BY Zenon, <1>4 DEF Calls
  <2>2. Vm(g) \in Objects
    BY Zenon, <1>4, OurObjects DEF Members
  <2> QED BY <2>1, <2>2
<1> QED BY Zenon, <1>1, <1>2, <1>3, <1>4 DEF Creating

\* A Teardown deletes an object and waits until it is gone.
LEMMA TeardownCalls ==
    ASSUME NEW g
    PROVE  /\ Len(Calls("vms", g)) = 2
           /\ Calls("vms", g)[1] = <<"delete", Vm(g)>> /\ Calls("vms", g)[2] = <<"gone", Vm(g)>>
           /\ Len(Calls("disks", g)) = 2
           /\ Calls("disks", g)[1] = <<"delete", Disk(g)>> /\ Calls("disks", g)[2] = <<"gone", Disk(g)>>
BY Zenon DEF Calls, deleteAndWait

\* DeleteNode waits for the machine before it deletes the disk.
LEMMA NodeCalls ==
    ASSUME NEW g
    PROVE  /\ Len(Calls("node", g)) = 4
           /\ Calls("node", g)[1] = <<"delete", Vm(g)>> /\ Calls("node", g)[2] = <<"gone", Vm(g)>>
           /\ Calls("node", g)[3] = <<"delete", Disk(g)>> /\ Calls("node", g)[4] = <<"gone", Disk(g)>>
<1>1. Calls("node", g) = << <<"delete", Vm(g)>>, <<"gone", Vm(g)>> >>
                         \o << <<"delete", Disk(g)>>, <<"gone", Disk(g)>> >>
  BY Zenon DEF Calls, deleteAndWait
<1> QED BY <1>1, ConcatTwo

-----------------------------------------------------------------------------
(* The inductive invariant.                                                *)

FleetTypeOK ==
    /\ status \in [Objects -> Statuses] /\ pc \in [Workers -> Nat]
    /\ cmd \in Commands \cup {"none"} /\ stage \in {"none"} \cup Creating \cup Deleting

\* A stage belongs to its command, and knows the stages after it.
Plan ==
    /\ cmd = "none" => stage = "none"
    /\ stage = "none" => group = {} /\ (cmd # "none" => stages = Stages(cmd))
    /\ stage = "class" => cmd = "provision" /\ stages = <<"images", "create", "running">>
    /\ stage = "images" => cmd = "provision" /\ stages = <<"create", "running">>
    /\ stage = "create" => cmd = "provision" /\ stages = <<"running">>
    /\ stage = "running" => cmd = "provision" /\ stages = <<>>
    /\ stage = "vms" => cmd = "teardown" /\ stages = <<"disks">>
    /\ stage = "disks" => cmd = "teardown" /\ stages = <<>>
    /\ stage = "node" => cmd = "deleteNode" /\ stages = <<>>

\* The goroutines of a stage are at one of their calls, before or after them.
Places ==
    stage # "none" =>
        /\ group \subseteq Members(stage)
        /\ \A g \in group : pc[g] \in 0 .. Len(Calls(stage, g)) + 1 \/ pc[g] = Failed

\* What a deletion has done by each of its places.
Deleted ==
    /\ stage = "vms" => \A n \in Nodes : n \notin group \/ pc[n] = 3 => status[Vm(n)] = "absent"
    /\ stage = "disks" => \A n \in Nodes :
          /\ status[Vm(n)] = "absent"
          /\ n \notin group \/ pc[n] = 3 => status[Disk(n)] = "absent"
    /\ stage = "node" /\ pc[SetupNode] \in 3 .. 5 => status[Vm(SetupNode)] = "absent"

Machinery == FleetTypeOK /\ Plan /\ Places
IInv == Machinery /\ Deleted /\ RunningVmKeepsDisk /\ TeardownExact

\* Goroutines are workers.
LEMMA MembersWork == \A s \in Creating \cup Deleting : Members(s) \subseteq Workers
BY Zenon, FleetAssumption DEF Creating, Deleting, Members, Workers, Machines

\* The invariant holds at the start.
LEMMA InitIInv == Init => IInv
<1> SUFFICES ASSUME Init PROVE IInv
  OBVIOUS
<1>1. FleetTypeOK
  BY Zenon DEF Init, FleetTypeOK, Statuses, Queued
<1>2. Plan /\ Places /\ Deleted
  BY Zenon DEF Init, Plan, Places, Deleted
<1>3. RunningVmKeepsDisk /\ TeardownExact
  BY Zenon, OurObjects DEF Init, RunningVmKeepsDisk, TeardownExact, Machines
<1> QED BY Zenon, <1>1, <1>2, <1>3 DEF IInv, Machinery

-----------------------------------------------------------------------------
(* Goroutines.                                                             *)

\* What a goroutine does: it starts, fails (its last write may have been done), or goes
\* on to the next call.
Starts(g) == pc[g] = 0 /\ pc'[g] = 1 /\ status' = status
Stops(g) == Running(g) /\ pc'[g] = Failed /\ Unanswered(g)
Goes(g) ==
    /\ Running(g)
    /\ \/ /\ At(g, "get") /\ status' = status
          /\ pc'[g] = pc[g] + 1 \/ (pc'[g] = pc[g] + 2 /\ Target(g) # "absent")
       \/ /\ At(g, "create") /\ pc'[g] = pc[g] + 1
          /\ \/ status' = status /\ Target(g) # "absent"
             \/ Target(g) = "absent" /\ Write(g, "pending")
       \/ At(g, "await") /\ Target(g) = "ready" /\ status' = status /\ pc'[g] = pc[g] + 1
       \/ /\ At(g, "delete") /\ pc'[g] = pc[g] + 1
          /\ status' = status \/ (Target(g) # "absent" /\ Write(g, "deleting"))
       \/ At(g, "gone") /\ Target(g) = "absent" /\ status' = status /\ pc'[g] = pc[g] + 1

\* Every action of a goroutine is one of these.
LEMMA GoroutineEffect ==
    ASSUME FleetTypeOK, NEW g \in Workers, Goroutine(g)
    PROVE  /\ g \in group /\ pc' = [pc EXCEPT ![g] = pc'[g]]
           /\ UNCHANGED <<cmd, stages, stage, group, outcome, found>>
           /\ Starts(g) \/ Stops(g) \/ Goes(g)
<1>0. pc \in [Workers -> Nat]
  BY Zenon DEF FleetTypeOK
<1>1. CASE Launch(g)
  BY Zenon, <1>0, <1>1 DEF Launch, Starts, rest, Queued
<1>2. CASE Get(g)
  BY Zenon, <1>0, <1>2 DEF Get, Goes, rest, At, Running, GoOn
<1>3. CASE Create(g)
  BY Zenon, <1>0, <1>3 DEF Create, Goes, rest, At, Running, GoOn
<1>4. CASE Await(g)
  BY Zenon, <1>0, <1>4 DEF Await, Goes, rest, At, Running, GoOn
<1>5. CASE Delete(g)
  BY Zenon, <1>0, <1>5 DEF Delete, Goes, rest, At, Running, GoOn
<1>6. CASE Gone(g)
  BY Zenon, <1>0, <1>6 DEF Gone, Goes, rest, At, Running, GoOn
<1>7. CASE NoClass(g) \/ CallFails(g) \/ WaitFails(g) \/ Cancelled(g)
  BY Zenon, <1>0, <1>7
     DEF NoClass, CallFails, WaitFails, Cancelled, Stops, rest, At, Running, Fail, Unanswered
<1> QED BY Zenon, <1>1, <1>2, <1>3, <1>4, <1>5, <1>6, <1>7 DEF Goroutine

\* A goroutine makes one to four calls, and a Get is never the last.
LEMMA CallsHaveLength ==
    ASSUME NEW s \in Creating \cup Deleting, NEW g \in Members(s)
    PROVE  /\ Len(Calls(s, g)) \in 1 .. 4
           /\ \A i \in 1 .. Len(Calls(s, g)) :
                 /\ Calls(s, g)[i][1] = "get" => i < Len(Calls(s, g))
                 /\ Calls(s, g)[i][2] \in Objects
<1>1. CASE s \in Creating
  BY Zenon, <1>1, CreatingCalls
<1>2. CASE s \in {"vms", "disks"}
  <2>1. Vm(g) \in Objects /\ Disk(g) \in Objects
    BY Zenon, <1>2, OurObjects DEF Members
  <2>2. CASE s = "vms"
    <3> DEFINE q == Calls("vms", g)
    <3>1. Len(q) = 2 /\ q[1] = <<"delete", Vm(g)>> /\ q[2] = <<"gone", Vm(g)>>
      BY Zenon, TeardownCalls
    <3> HIDE DEF q
    <3> QED BY <2>1, <2>2, <3>1 DEF q
  <2>3. CASE s = "disks"
    <3> DEFINE q == Calls("disks", g)
    <3>1. Len(q) = 2 /\ q[1] = <<"delete", Disk(g)>> /\ q[2] = <<"gone", Disk(g)>>
      BY Zenon, TeardownCalls
    <3> HIDE DEF q
    <3> QED BY <2>1, <2>3, <3>1 DEF q
  <2> QED BY Zenon, <1>2, <2>2, <2>3
<1>3. CASE s = "node"
  <2>1. Vm(g) \in Objects /\ Disk(g) \in Objects
    BY Zenon, <1>3, OurObjects, FleetAssumption DEF Members
  <2> DEFINE q == Calls("node", g)
  <2>2. /\ Len(q) = 4 /\ q[1] = <<"delete", Vm(g)>> /\ q[2] = <<"gone", Vm(g)>>
        /\ q[3] = <<"delete", Disk(g)>> /\ q[4] = <<"gone", Disk(g)>>
    BY Zenon, NodeCalls
  <2> HIDE DEF q
  <2> QED BY <1>3, <2>1, <2>2 DEF q
<1> QED BY Zenon, <1>1, <1>2, <1>3 DEF Deleting

\* A running goroutine is at a call of its own.
LEMMA RunningAtCall ==
    ASSUME Machinery, NEW g \in group, Running(g)
    PROVE  /\ stage \in Creating \cup Deleting /\ g \in Members(stage)
           /\ pc[g] \in 1 .. Len(Calls(stage, g)) /\ Len(Calls(stage, g)) \in 1 .. 4
           /\ Call(g)[2] \in Objects
<1>1. stage \in Creating \cup Deleting /\ g \in Members(stage)
  BY Zenon DEF Machinery, Plan, Places, FleetTypeOK
<1>2. Len(Calls(stage, g)) \in 1 .. 4
  BY Zenon, <1>1, CallsHaveLength
<1>3. pc[g] \in 1 .. Len(Calls(stage, g))
  <2>1. pc[g] \in 0 .. Len(Calls(stage, g)) + 1 \/ pc[g] = Failed
    BY Zenon, <1>1 DEF Machinery, Places, Creating, Deleting
  <2> QED BY <1>2, <2>1 DEF Running, Returned, Queued, Failed
<1> QED BY Zenon, <1>1, <1>2, <1>3, CallsHaveLength DEF Call

\* A goroutine goes on to a call of its own, or to its end.
LEMMA GoroutineStays ==
    ASSUME Machinery, NEW g \in Workers, Goroutine(g)
    PROVE  Machinery'
<1>0. /\ g \in group /\ pc' = [pc EXCEPT ![g] = pc'[g]]
      /\ UNCHANGED <<cmd, stages, stage, group, outcome>>
      /\ Starts(g) \/ Stops(g) \/ Goes(g)
  BY Zenon, GoroutineEffect DEF Machinery
<1>1. stage \in Creating \cup Deleting /\ g \in Members(stage) /\ Len(Calls(stage, g)) \in 1 .. 4
  BY Zenon, <1>0, CallsHaveLength DEF Machinery, Plan, Places, FleetTypeOK
<1>2. pc'[g] \in 0 .. Len(Calls(stage, g)) + 1 \/ pc'[g] = Failed
  <2>1. CASE Starts(g) \/ Stops(g)
    BY <1>1, <2>1 DEF Starts, Stops
  <2>2. CASE Goes(g)
    <3>1. pc[g] \in 1 .. Len(Calls(stage, g))
      BY Zenon, <1>0, <2>2, RunningAtCall DEF Goes
    <3>2. At(g, "get") => pc[g] < Len(Calls(stage, g))
      BY Zenon, <1>1, <3>1, CallsHaveLength DEF At, Call
    <3>3. pc'[g] = pc[g] + 1 \/ (At(g, "get") /\ pc'[g] = pc[g] + 2)
      BY Zenon, <2>2 DEF Goes
    <3> QED BY <1>1, <3>1, <3>2, <3>3
  <2> QED BY Zenon, <1>0, <2>1, <2>2
<1>3. pc' \in [Workers -> Nat] /\ \A h \in group \ {g} : pc'[h] = pc[h]
  <2>1. pc'[g] \in Nat
    BY <1>1, <1>2 DEF Failed
  <2>2. pc \in [Workers -> Nat]
    BY Zenon DEF Machinery, FleetTypeOK
  <2> DEFINE v == pc'[g]
  <2>3. v \in Nat /\ pc' = [pc EXCEPT ![g] = v]
    BY Zenon, <1>0, <2>1
  <2> HIDE DEF v
  <2>4. group \subseteq Workers
    BY Zenon, <1>1, MembersWork DEF Machinery, Places, Creating, Deleting
  <2> QED BY Zenon, <2>2, <2>3, <2>4
<1>4. status' \in [Objects -> Statuses]
  <2>1. CASE status' = status
    BY Zenon, <2>1 DEF Machinery, FleetTypeOK
  <2>2. CASE Running(g) /\ \E v \in {"pending", "deleting"} : Write(g, v)
    BY Zenon, <1>0, <2>2, RunningAtCall DEF Machinery, FleetTypeOK, Write, Statuses
  <2> QED BY Zenon, <1>0, <2>1, <2>2 DEF Starts, Stops, Goes, Unanswered
<1>5. FleetTypeOK' /\ Plan'
  BY Zenon, <1>0, <1>3, <1>4 DEF Machinery, FleetTypeOK, Plan
<1>6. Places'
  BY Zenon, <1>0, <1>2, <1>3 DEF Machinery, Places
<1> QED BY Zenon, <1>5, <1>6 DEF Machinery

\* What is written is the object of a call that creates or deletes.
LEMMA Writes ==
    ASSUME Machinery, NEW g \in Workers, Goroutine(g)
    PROVE  \/ status' = status
           \/ /\ At(g, "create") /\ Target(g) = "absent"
              /\ Write(g, "pending")
           \/ /\ At(g, "delete") /\ Target(g) # "absent"
              /\ Write(g, "deleting")
BY Zenon, GoroutineEffect DEF Machinery, Starts, Stops, Goes, Unanswered

\* A Provision only writes objects that are not there.
LEMMA CreatingStep ==
    ASSUME IInv, NEW g \in Workers, Goroutine(g), stage \in Creating
    PROVE  IInv'
<1>0. Machinery' /\ g \in group /\ UNCHANGED <<cmd, stage, outcome>> /\ cmd # "none"
  BY Zenon, GoroutineStays, GoroutineEffect DEF IInv, Machinery, Plan, Creating
<1>1. Deleted'
  BY Zenon, <1>0 DEF Deleted, Creating
<1>2. CASE status' = status
  BY Zenon, <1>0, <1>1, <1>2 DEF IInv, RunningVmKeepsDisk, TeardownExact
<1>3. CASE At(g, "create") /\ Target(g) = "absent" /\ Write(g, "pending")
  <2>1. PICK o \in Objects : status[o] = "absent" /\ status' = [status EXCEPT ![o] = "pending"]
    BY Zenon, <1>0, <1>3, RunningAtCall DEF IInv, At, Target, Write
  <2>2. status \in [Objects -> Statuses]
    BY Zenon DEF IInv, Machinery, FleetTypeOK
  <2>3. RunningVmKeepsDisk'
    <3> SUFFICES ASSUME NEW n \in Machines, status'[Vm(n)] = "ready"
                 PROVE  status'[Disk(n)] \in {"pending", "ready"}
      BY Zenon DEF RunningVmKeepsDisk
    <3>1. Vm(n) \in Objects /\ Disk(n) \in Objects
      BY Zenon, OurObjects
    <3> HIDE DEF Vm, Disk
    <3>2. status[Vm(n)] = "ready"
      BY Zenon, <2>1, <2>2, <3>1
    <3>3. status[Disk(n)] \in {"pending", "ready"}
      BY Zenon, <3>2 DEF IInv, RunningVmKeepsDisk
    <3> QED BY Zenon, <2>1, <2>2, <3>1, <3>3
  <2>4. TeardownExact'
    <3>1. cmd' # "none"
      BY Zenon, <1>0
    <3>2. ASSUME NEW n \in Foreign
          PROVE  status'[Vm(n)] = "ready" /\ status'[Disk(n)] = "ready"
      <4>1. Vm(n) \in Objects /\ Disk(n) \in Objects
        BY Zenon, OurObjects
      <4>2. status[Vm(n)] = "ready" /\ status[Disk(n)] = "ready"
        BY Zenon DEF IInv, TeardownExact
      <4> QED BY Zenon, <2>1, <2>2, <4>1, <4>2
    <3> QED BY Zenon, <3>1, <3>2 DEF TeardownExact
  <2> QED BY Zenon, <1>0, <1>1, <2>3, <2>4 DEF IInv
<1>4. CASE At(g, "delete")
  <2>1. pc[g] \in 1 .. Len(Calls(stage, g)) /\ g \in Members(stage)
    BY Zenon, <1>0, <1>4, RunningAtCall DEF IInv, At
  <2>2. Call(g)[1] \in {"get", "create", "await"}
    BY Zenon, <2>1, CreatingCalls DEF Call
  <2> QED BY Zenon, <1>4, <2>2 DEF At
<1> QED BY Zenon, <1>2, <1>3, <1>4, Writes DEF IInv

\* Deleting a machine of ours, or the disk of a machine that is gone, harms no other.
LEMMA DeletionIsOurs ==
    ASSUME IInv, NEW g \in Nodes, NEW o \in {Vm(g), Disk(g)},
           o = Disk(g) => status[Vm(g)] = "absent",
           status' = [status EXCEPT ![o] = "deleting"],
           cmd' # "none"
    PROVE  RunningVmKeepsDisk' /\ TeardownExact'
<1>0. status \in [Objects -> Statuses] /\ o \in Objects
  BY Zenon, OurObjects DEF IInv, Machinery, FleetTypeOK
<1>1. RunningVmKeepsDisk'
  <2> SUFFICES ASSUME NEW n \in Machines, status'[Vm(n)] = "ready"
               PROVE  status'[Disk(n)] \in {"pending", "ready"}
    BY Zenon DEF RunningVmKeepsDisk
  <2>1. Vm(n) \in Objects /\ Disk(n) \in Objects
    BY Zenon, OurObjects
  <2>2. Vm(n) # o /\ status[Vm(n)] = "ready"
    BY Zenon, <1>0, <2>1
  <2>3. Disk(n) # o
    BY Zenon, <2>2, Distinct
  <2>4. status[Disk(n)] \in {"pending", "ready"}
    BY Zenon, <2>2 DEF IInv, RunningVmKeepsDisk
  <2> QED BY Zenon, <1>0, <2>1, <2>3, <2>4
<1>2. ASSUME NEW n \in Foreign
      PROVE  status'[Vm(n)] = "ready" /\ status'[Disk(n)] = "ready"
  <2>1. Vm(n) \in Objects /\ Disk(n) \in Objects
    BY Zenon, OurObjects
  <2>2. n # g
    BY Zenon, FleetAssumption
  <2>3. Vm(n) # o /\ Disk(n) # o
    BY Zenon, <2>2, Distinct
  <2>4. status[Vm(n)] = "ready" /\ status[Disk(n)] = "ready"
    BY Zenon DEF IInv, TeardownExact
  <2> QED BY Zenon, <1>0, <2>1, <2>3, <2>4
<1> QED BY Zenon, <1>1, <1>2 DEF TeardownExact

\* A step of a goroutine leaves the places of the others alone.
LEMMA OthersStay ==
    ASSUME Machinery, NEW g \in Workers, Goroutine(g), NEW h \in Workers, h # g
    PROVE  pc'[h] = pc[h]
<1> DEFINE v == pc'[g]
<1>1. pc \in [Workers -> Nat] /\ pc' = [pc EXCEPT ![g] = v]
  BY Zenon, GoroutineEffect DEF Machinery, FleetTypeOK
<1> HIDE DEF v
<1> QED BY Zenon, <1>1

\* The first stage of a teardown.
LEMMA VmsStep ==
    ASSUME IInv, NEW g \in Workers, Goroutine(g), stage = "vms"
    PROVE  IInv'
<1>0. /\ Machinery' /\ g \in group /\ UNCHANGED <<cmd, stage, group, outcome>> /\ cmd # "none"
      /\ pc' = [pc EXCEPT ![g] = pc'[g]]
      /\ Starts(g) \/ Stops(g) \/ Goes(g)
  BY Zenon, GoroutineStays, GoroutineEffect DEF IInv, Machinery, Plan
<1>1. g \in Nodes /\ group \subseteq Nodes /\ Vm(g) \in Objects
  BY Zenon, <1>0, OurObjects DEF IInv, Machinery, Places, Members
<1>2. status \in [Objects -> Statuses] /\ pc \in [Workers -> Nat]
  BY Zenon DEF IInv, Machinery, FleetTypeOK
<1> DEFINE q == Calls("vms", g)
<1>3. /\ Len(q) = 2 /\ q[1][1] = "delete" /\ q[1][2] = Vm(g)
      /\ q[2][1] = "gone" /\ q[2][2] = Vm(g)
  BY TeardownCalls
<1>4. Running(g) => pc[g] \in 1 .. 2 /\ Call(g) = q[pc[g]]
  BY Zenon, <1>0, <1>3, RunningAtCall DEF IInv, Call
<1> HIDE DEF q
<1>5. /\ At(g, "delete") => pc[g] = 1 /\ Call(g)[2] = Vm(g)
      /\ At(g, "gone") => pc[g] = 2 /\ Target(g) = status[Vm(g)]
      /\ ~At(g, "get") /\ ~At(g, "create") /\ ~At(g, "await")
  BY <1>3, <1>4 DEF At, Target
<1>6. \/ status' = status
      \/ pc[g] = 1 /\ status[Vm(g)] # "absent" /\ status' = [status EXCEPT ![Vm(g)] = "deleting"]
  BY Zenon, <1>5, Writes DEF IInv, Write, Target
<1>7. pc'[g] = 3 => status' = status /\ status[Vm(g)] = "absent"
  BY <1>0, <1>5 DEF Starts, Stops, Goes, Failed
<1>8. Deleted'
  <2> SUFFICES ASSUME NEW n \in Nodes, n \notin group \/ pc'[n] = 3
               PROVE  status'[Vm(n)] = "absent"
    BY Zenon, <1>0 DEF Deleted
  <2>1. Vm(n) \in Objects /\ n \in Workers
    BY Zenon, OurObjects DEF Workers
  <2>2. CASE n = g
    BY Zenon, <1>0, <1>7, <2>2
  <2>3. CASE n # g
    <3>1. n \notin group \/ pc[n] = 3
      BY Zenon, <2>1, <2>3, OthersStay DEF IInv
    <3>2. status[Vm(n)] = "absent" /\ Vm(n) # Vm(g)
      BY Zenon, <2>3, <3>1, Distinct DEF IInv, Deleted
    <3> QED BY Zenon, <1>2, <1>6, <2>1, <3>2
  <2> QED BY Zenon, <2>2, <2>3
<1>9. RunningVmKeepsDisk' /\ TeardownExact'
  <2>1. CASE status' = status
    BY Zenon, <1>0, <2>1 DEF IInv, RunningVmKeepsDisk, TeardownExact
  <2>2. CASE status' = [status EXCEPT ![Vm(g)] = "deleting"]
    <3>1. Vm(g) # Disk(g)
      BY Zenon, Distinct
    <3> QED BY Zenon, <1>0, <1>1, <2>2, <3>1, DeletionIsOurs
  <2> QED BY Zenon, <1>6, <2>1, <2>2
<1> QED BY Zenon, <1>0, <1>8, <1>9 DEF IInv

\* The second one, after all machines are gone.
LEMMA DisksStep ==
    ASSUME IInv, NEW g \in Workers, Goroutine(g), stage = "disks"
    PROVE  IInv'
<1>0. /\ Machinery' /\ g \in group /\ UNCHANGED <<cmd, stage, group, outcome>> /\ cmd # "none"
      /\ pc' = [pc EXCEPT ![g] = pc'[g]]
      /\ Starts(g) \/ Stops(g) \/ Goes(g)
  BY Zenon, GoroutineStays, GoroutineEffect DEF IInv, Machinery, Plan
<1>1. g \in Nodes /\ group \subseteq Nodes /\ Disk(g) \in Objects
  BY Zenon, <1>0, OurObjects DEF IInv, Machinery, Places, Members
<1>2. status \in [Objects -> Statuses] /\ pc \in [Workers -> Nat]
  BY Zenon DEF IInv, Machinery, FleetTypeOK
<1> DEFINE q == Calls("disks", g)
<1>3. /\ Len(q) = 2 /\ q[1][1] = "delete" /\ q[1][2] = Disk(g)
      /\ q[2][1] = "gone" /\ q[2][2] = Disk(g)
  BY TeardownCalls
<1>4. Running(g) => pc[g] \in 1 .. 2 /\ Call(g) = q[pc[g]]
  BY Zenon, <1>0, <1>3, RunningAtCall DEF IInv, Call
<1> HIDE DEF q
<1>5. /\ At(g, "delete") => pc[g] = 1 /\ Call(g)[2] = Disk(g)
      /\ At(g, "gone") => pc[g] = 2 /\ Target(g) = status[Disk(g)]
      /\ ~At(g, "get") /\ ~At(g, "create") /\ ~At(g, "await")
  BY <1>3, <1>4 DEF At, Target
<1>6. \/ status' = status
      \/ pc[g] = 1 /\ status[Disk(g)] # "absent" /\ status' = [status EXCEPT ![Disk(g)] = "deleting"]
  BY Zenon, <1>5, Writes DEF IInv, Write, Target
<1>7. pc'[g] = 3 => status' = status /\ status[Disk(g)] = "absent"
  BY <1>0, <1>5 DEF Starts, Stops, Goes, Failed
<1>8. Deleted'
  <2> SUFFICES ASSUME NEW n \in Nodes
               PROVE  /\ status'[Vm(n)] = "absent"
                      /\ n \notin group \/ pc'[n] = 3 => status'[Disk(n)] = "absent"
    BY Zenon, <1>0 DEF Deleted
  <2>1. Vm(n) \in Objects /\ Disk(n) \in Objects /\ n \in Workers
    BY Zenon, OurObjects DEF Workers
  <2>2. status'[Vm(n)] = "absent"
    <3>1. status[Vm(n)] = "absent" /\ Vm(n) # Disk(g)
      BY Zenon, Distinct DEF IInv, Deleted
    <3> QED BY Zenon, <1>2, <1>6, <2>1, <3>1
  <2>3. CASE n = g
    BY Zenon, <1>0, <1>7, <2>2, <2>3
  <2>4. CASE n # g
    <3>1. pc'[n] = pc[n] /\ Disk(n) # Disk(g)
      BY Zenon, <2>1, <2>4, Distinct, OthersStay DEF IInv
    <3>2. n \notin group \/ pc[n] = 3 => status[Disk(n)] = "absent"
      BY Zenon DEF IInv, Deleted
    <3>3. status'[Disk(n)] = status[Disk(n)]
      BY Zenon, <1>2, <1>6, <2>1, <3>1
    <3> QED BY Zenon, <2>2, <3>1, <3>2, <3>3
  <2> QED BY Zenon, <2>3, <2>4
<1>9. RunningVmKeepsDisk' /\ TeardownExact'
  <2>1. CASE status' = status
    BY Zenon, <1>0, <2>1 DEF IInv, RunningVmKeepsDisk, TeardownExact
  <2>2. CASE status' = [status EXCEPT ![Disk(g)] = "deleting"]
    <3>1. status[Vm(g)] = "absent"
      BY Zenon, <1>1 DEF IInv, Deleted
    <3> QED BY Zenon, <1>0, <1>1, <2>2, <3>1, DeletionIsOurs
  <2> QED BY Zenon, <1>6, <2>1, <2>2
<1> QED BY Zenon, <1>0, <1>8, <1>9 DEF IInv

\* DeleteNode deletes the disk after the machine is gone.
LEMMA NodeStep ==
    ASSUME IInv, NEW g \in Workers, Goroutine(g), stage = "node"
    PROVE  IInv'
<1>0. /\ Machinery' /\ g \in group /\ UNCHANGED <<cmd, stage, group, outcome>> /\ cmd # "none"
      /\ Starts(g) \/ Stops(g) \/ Goes(g)
  BY Zenon, GoroutineStays, GoroutineEffect DEF IInv, Machinery, Plan
<1>1. g = SetupNode /\ g \in Nodes /\ Vm(g) \in Objects /\ Disk(g) \in Objects
  BY Zenon, <1>0, OurObjects, FleetAssumption DEF IInv, Machinery, Places, Members
<1>2. status \in [Objects -> Statuses] /\ pc \in [Workers -> Nat]
  BY Zenon DEF IInv, Machinery, FleetTypeOK
<1> DEFINE q == Calls("node", g)
<1>3. /\ Len(q) = 4 /\ q[1][1] = "delete" /\ q[1][2] = Vm(g) /\ q[2][1] = "gone" /\ q[2][2] = Vm(g)
      /\ q[3][1] = "delete" /\ q[3][2] = Disk(g) /\ q[4][1] = "gone" /\ q[4][2] = Disk(g)
  BY NodeCalls
<1>4. Running(g) => pc[g] \in 1 .. 4 /\ Call(g) = q[pc[g]]
  BY Zenon, <1>0, <1>3, RunningAtCall DEF IInv, Call
<1> HIDE DEF q
<1>5. /\ At(g, "delete") => \/ pc[g] = 1 /\ Call(g)[2] = Vm(g)
                            \/ pc[g] = 3 /\ Call(g)[2] = Disk(g)
      /\ At(g, "gone") => \/ pc[g] = 2 /\ Target(g) = status[Vm(g)]
                          \/ pc[g] = 4
      /\ ~At(g, "get") /\ ~At(g, "create") /\ ~At(g, "await")
  BY <1>3, <1>4 DEF At, Target
<1>6. pc[g] \in 3 .. 5 => status[Vm(g)] = "absent"
  BY Zenon, <1>1 DEF IInv, Deleted
<1>7. \/ status' = status
      \/ pc[g] = 1 /\ status' = [status EXCEPT ![Vm(g)] = "deleting"]
      \/ status[Vm(g)] = "absent" /\ status' = [status EXCEPT ![Disk(g)] = "deleting"]
  BY <1>5, <1>6, Writes DEF IInv, Write
<1>8. pc'[g] \in 3 .. 5 => pc[g] \in 3 .. 4 \/ (pc[g] = 2 /\ status[Vm(g)] = "absent")
  BY <1>0, <1>4, <1>5 DEF Starts, Stops, Goes, Failed
<1>9. Deleted'
  <2> SUFFICES ASSUME pc'[g] \in 3 .. 5 PROVE status'[Vm(g)] = "absent"
    BY Zenon, <1>0, <1>1 DEF Deleted
  <2>1. status[Vm(g)] = "absent" /\ pc[g] # 1 /\ Vm(g) # Disk(g)
    BY <1>6, <1>8, Distinct
  <2> QED BY Zenon, <1>1, <1>2, <1>7, <2>1
<1>10. RunningVmKeepsDisk' /\ TeardownExact'
  <2>1. CASE status' = status
    BY Zenon, <1>0, <2>1 DEF IInv, RunningVmKeepsDisk, TeardownExact
  <2>2. CASE status' = [status EXCEPT ![Vm(g)] = "deleting"]
    <3>1. Vm(g) # Disk(g)
      BY Zenon, Distinct
    <3> QED BY Zenon, <1>0, <1>1, <2>2, <3>1, DeletionIsOurs
  <2>3. CASE status[Vm(g)] = "absent" /\ status' = [status EXCEPT ![Disk(g)] = "deleting"]
    BY Zenon, <1>0, <1>1, <2>3, DeletionIsOurs
  <2> QED BY Zenon, <1>7, <2>1, <2>2, <2>3
<1> QED BY Zenon, <1>0, <1>9, <1>10 DEF IInv

-----------------------------------------------------------------------------
(* The base cluster.                                                       *)

\* An object gets ready or disappears by itself, or another run creates a shared one:
\* machines and disks that are absent stay so, and those that are ready stay so too.
LEMMA WorldStep ==
    ASSUME IInv,
           \/ \E o \in Objects : GetsReady(o) \/ Disappears(o)
           \/ \E o \in Shared : OtherRunCreates(o)
    PROVE  IInv'
<1>0. UNCHANGED <<cmd, stages, stage, group, pc, outcome>>
  BY Zenon DEF GetsReady, Disappears, OtherRunCreates, procVars
<1>1. status \in [Objects -> Statuses]
  BY Zenon DEF IInv, Machinery, FleetTypeOK
<1>2. PICK o \in Objects, s \in {"ready", "absent", "pending"} :
        /\ status' = [status EXCEPT ![o] = s]
        /\ s = "ready" => /\ status[o] = "pending"
                          /\ \A n \in Machines : o = Vm(n) => status[Disk(n)] \in {"pending", "ready"}
        /\ s = "absent" => status[o] = "deleting"
        /\ s = "pending" => status[o] = "absent" /\ o \in Shared
  BY Zenon DEF GetsReady, Disappears, OtherRunCreates, Objects
<1>3. status' \in [Objects -> Statuses]
  BY Zenon, <1>1, <1>2 DEF Statuses
<1>4. \A n \in Machines : Vm(n) \notin Shared /\ Disk(n) \notin Shared
  BY Zenon, Distinct DEF Shared
<1>5. ASSUME NEW n \in Machines
      PROVE  /\ Vm(n) \in Objects /\ Disk(n) \in Objects
             /\ status[Vm(n)] = "absent" => status'[Vm(n)] = "absent"
             /\ status[Disk(n)] = "absent" => status'[Disk(n)] = "absent"
             /\ status[Vm(n)] = "ready" => status'[Vm(n)] = "ready"
             /\ status[Disk(n)] = "ready" => status'[Disk(n)] = "ready"
             /\ status[Disk(n)] = "pending" => status'[Disk(n)] \in {"pending", "ready"}
             /\ status'[Vm(n)] = "ready" =>
                   status[Vm(n)] = "ready" \/ status[Disk(n)] \in {"pending", "ready"}
  <2>1. Vm(n) \in Objects /\ Disk(n) \in Objects
    BY Zenon, OurObjects
  <2>2. Vm(n) \notin Shared /\ Disk(n) \notin Shared
    BY Zenon, <1>4
  <2> QED BY Zenon, <1>1, <1>2, <2>1, <2>2
<1>6. Machinery'
  BY Zenon, <1>0, <1>3 DEF IInv, Machinery, FleetTypeOK, Plan, Places
<1>7. Deleted'
  BY Zenon, <1>0, <1>5, OurObjects, FleetAssumption DEF IInv, Deleted
<1>8. RunningVmKeepsDisk'
  BY Zenon, <1>5 DEF IInv, RunningVmKeepsDisk
<1>9. TeardownExact'
  BY Zenon, <1>0, <1>5, OurObjects DEF IInv, TeardownExact
<1> QED BY Zenon, <1>6, <1>7, <1>8, <1>9 DEF IInv

-----------------------------------------------------------------------------
(* Commands.                                                               *)

\* When a stage of a teardown has returned without an error, its objects are gone.
LEMMA StageDone ==
    ASSUME IInv, GroupReturned, NoError
    PROVE  /\ stage = "vms" => \A n \in Nodes : status[Vm(n)] = "absent"
           /\ stage = "disks" => \A n \in Nodes : status[Vm(n)] = "absent" /\ status[Disk(n)] = "absent"
<1>1. \A g \in group : pc[g] = Len(Calls(stage, g)) + 1
  BY Zenon DEF GroupReturned, NoError, Returned
<1>2. stage \in {"vms", "disks"} => \A g \in group : pc[g] = 3
  <2> SUFFICES ASSUME stage \in {"vms", "disks"}, NEW g \in group PROVE pc[g] = 3
    OBVIOUS
  <2>1. Len(Calls(stage, g)) = 2
    BY Zenon, TeardownCalls
  <2>2. pc[g] = Len(Calls(stage, g)) + 1
    BY Zenon, <1>1
  <2> QED BY <2>1, <2>2
<1> QED BY Zenon, <1>2 DEF IInv, Deleted

\* The next stage starts with what the one before it has done.
LEMMA NextStageStep == ASSUME IInv, NextStage PROVE IInv'
<1>0. /\ UNCHANGED <<status, cmd, outcome>> /\ cmd # "none"
      /\ pc' = [g \in Workers |-> 0]
      /\ stage' = Head(stages) /\ stages' = Tail(stages) /\ stages # <<>>
      /\ group' = Goroutines(stage')
  BY Zenon DEF NextStage, GroupReturned, Queued
<1>1. \/ stage = "none" /\ cmd = "provision" /\ stage' = "class" /\ stages' = <<"images", "create", "running">>
      \/ stage = "none" /\ cmd = "deleteNode" /\ stage' = "node" /\ stages' = <<>>
      \/ stage = "none" /\ cmd = "teardown" /\ stage' = "vms" /\ stages' = <<"disks">>
      \/ stage = "class" /\ cmd = "provision" /\ stage' = "images" /\ stages' = <<"create", "running">>
      \/ stage = "images" /\ cmd = "provision" /\ stage' = "create" /\ stages' = <<"running">>
      \/ stage = "create" /\ cmd = "provision" /\ stage' = "running" /\ stages' = <<>>
      \/ stage = "vms" /\ cmd = "teardown" /\ stage' = "disks" /\ stages' = <<>>
  <2>1. cmd \in Commands /\ stage \in {"none"} \cup Creating \cup Deleting
    BY Zenon, <1>0 DEF IInv, Machinery, FleetTypeOK
  <2>2. CASE stage = "none"
    <3>1. stages = Stages(cmd)
      BY Zenon, <1>0, <2>2 DEF IInv, Machinery, Plan
    <3>2. CASE cmd = "provision"
      <4>1. stages = <<"class", "images", "create", "running">>
        BY Zenon, <3>1, <3>2 DEF Stages
      <4> QED BY <1>0, <2>2, <3>2, <4>1
    <3>3. CASE cmd = "deleteNode"
      <4>1. stages = <<"node">>
        BY Zenon, <3>1, <3>3 DEF Stages
      <4> QED BY <1>0, <2>2, <3>3, <4>1
    <3>4. CASE cmd = "teardown"
      <4>1. stages = <<"vms", "disks">>
        BY Zenon, <3>1, <3>4 DEF Stages
      <4> QED BY <1>0, <2>2, <3>4, <4>1
    <3> QED BY Zenon, <2>1, <3>2, <3>3, <3>4 DEF Commands
  <2>3. CASE stage # "none"
    <3>1. stage \notin {"running", "disks", "node"}
      BY Zenon, <1>0 DEF IInv, Machinery, Plan
    <3>2. CASE stage = "class"
      <4>1. cmd = "provision" /\ stages = <<"images", "create", "running">>
        BY Zenon, <3>2 DEF IInv, Machinery, Plan
      <4> QED BY <1>0, <3>2, <4>1
    <3>3. CASE stage = "images"
      <4>1. cmd = "provision" /\ stages = <<"create", "running">>
        BY Zenon, <3>3 DEF IInv, Machinery, Plan
      <4> QED BY <1>0, <3>3, <4>1
    <3>4. CASE stage = "create"
      <4>1. cmd = "provision" /\ stages = <<"running">>
        BY Zenon, <3>4 DEF IInv, Machinery, Plan
      <4> QED BY <1>0, <3>4, <4>1
    <3>5. CASE stage = "vms"
      <4>1. cmd = "teardown" /\ stages = <<"disks">>
        BY Zenon, <3>5 DEF IInv, Machinery, Plan
      <4> QED BY <1>0, <3>5, <4>1
    <3> QED BY Zenon, <2>1, <2>3, <3>1, <3>2, <3>3, <3>4, <3>5 DEF Creating, Deleting
  <2> QED BY Zenon, <2>2, <2>3
<1>2. stage' \in Creating \cup Deleting
  BY Zenon, <1>1 DEF Creating, Deleting
<1>3. group' \subseteq Members(stage')
  BY Zenon, <1>0, <1>2 DEF Goroutines, Members, isManaged, Creating, Deleting
<1>4. FleetTypeOK'
  BY Zenon, <1>0, <1>2 DEF IInv, Machinery, FleetTypeOK
<1>5. Plan'
  BY Zenon, <1>0, <1>1 DEF Plan
<1>6. Places'
  <2>1. ASSUME NEW g \in group'
        PROVE  pc'[g] \in 0 .. Len(Calls(stage', g)) + 1
    <3>1. g \in Members(stage') /\ g \in Workers
      BY Zenon, <1>2, <1>3, <2>1, MembersWork
    <3>2. Len(Calls(stage', g)) \in 1 .. 4
      BY Zenon, <1>2, <3>1, CallsHaveLength
    <3> QED BY <1>0, <3>1, <3>2
  <2> QED BY Zenon, <1>3, <2>1 DEF Places
<1>7. Deleted'
  <2>1. ASSUME NEW n \in Nodes PROVE pc'[n] = 0 /\ n \in Machines
    BY Zenon, <1>0, OurObjects DEF Workers
  <2>2. CASE stage' = "vms"
    <3>1. group' = {n \in Machines : isManaged(n) /\ status[Vm(n)] # "absent"}
      BY Zenon, <1>0, <2>2 DEF Goroutines
    <3> QED BY <1>0, <2>1, <2>2, <3>1 DEF Deleted, isManaged
  <2>3. CASE stage' = "disks"
    <3>1. group' = {n \in Machines : isManaged(n) /\ status[Disk(n)] # "absent"}
      BY Zenon, <1>0, <2>3 DEF Goroutines
    <3>2. stage = "vms"
      BY Zenon, <1>1, <2>3
    <3>3. \A n \in Nodes : status[Vm(n)] = "absent"
      BY Zenon, <3>2, StageDone DEF NextStage
    <3> QED BY <1>0, <2>1, <2>3, <3>1, <3>3 DEF Deleted, isManaged
  <2>4. CASE stage' \notin {"vms", "disks"}
    BY <2>1, <2>4, FleetAssumption DEF Deleted
  <2> QED BY Zenon, <2>2, <2>3, <2>4
<1>8. RunningVmKeepsDisk' /\ TeardownExact'
  BY Zenon, <1>0 DEF IInv, RunningVmKeepsDisk, TeardownExact
<1> QED BY Zenon, <1>4, <1>5, <1>6, <1>7, <1>8 DEF IInv, Machinery

\* A teardown that ends without an error ends after its last stage.
LEMMA EndStep ==
    ASSUME IInv, NEW result, Ends(result), cmd # "none",
           result = "ok" => GroupReturned /\ NoError /\ stages = <<>>
    PROVE  IInv'
<1>0. /\ outcome' = <<cmd, result>> /\ cmd' = "none" /\ stage' = "none" /\ group' = {}
      /\ pc' = [g \in Workers |-> 0] /\ status' = status
  BY Zenon DEF Ends, Queued
<1>1. Machinery' /\ Deleted' /\ RunningVmKeepsDisk'
  <2>1. pc' \in [Workers -> Nat]
    BY Zenon, <1>0
  <2>2. FleetTypeOK'
    BY Zenon, <1>0, <2>1 DEF IInv, Machinery, FleetTypeOK
  <2>3. Plan' /\ Places' /\ Deleted'
    BY Zenon, <1>0 DEF Plan, Places, Deleted
  <2>4. RunningVmKeepsDisk'
    BY Zenon, <1>0 DEF IInv, RunningVmKeepsDisk
  <2> QED BY Zenon, <2>2, <2>3, <2>4 DEF Machinery
<1>2. ASSUME cmd = "teardown", result = "ok"
      PROVE  \A n \in Nodes : status[Vm(n)] = "absent" /\ status[Disk(n)] = "absent"
  <2>1. stage # "none" /\ stage # "vms"
    BY <1>2 DEF IInv, Machinery, Plan, Stages
  <2>2. stage = "disks"
    BY Zenon, <1>2, <2>1 DEF IInv, Machinery, Plan, FleetTypeOK, Creating, Deleting
  <2> QED BY Zenon, <1>2, <2>2, StageDone
<1>3. TeardownExact'
  BY Zenon, <1>0, <1>2 DEF IInv, TeardownExact
<1> QED BY Zenon, <1>1, <1>3 DEF IInv

\* A command begins.
LEMMA BeginStep == ASSUME IInv, NEW c \in Commands, Begin(c) PROVE IInv'
<1>0. /\ cmd' = c /\ c # "none" /\ stages' = Stages(c) /\ stage' = "none" /\ group' = {}
      /\ UNCHANGED <<status, pc, outcome>>
  BY Zenon DEF Begin, Commands
<1>1. FleetTypeOK' /\ Plan' /\ Places' /\ Deleted'
  BY Zenon, <1>0 DEF IInv, Machinery, FleetTypeOK, Plan, Places, Deleted
<1>2. RunningVmKeepsDisk' /\ TeardownExact'
  BY Zenon, <1>0 DEF IInv, RunningVmKeepsDisk, TeardownExact
<1> QED BY Zenon, <1>1, <1>2 DEF IInv, Machinery

\* Every step keeps the invariant.
LEMMA NextIInv == IInv /\ [Next]_vars => IInv'
<1> SUFFICES ASSUME IInv, [Next]_vars PROVE IInv'
  OBVIOUS
<1>1. CASE \E c \in Commands : Begin(c)
  BY Zenon, <1>1, BeginStep
<1>2. CASE Process
  <2>1. CASE NextStage
    BY Zenon, <2>1, NextStageStep
  <2>2. CASE Succeeds
    BY Zenon, <2>2, EndStep DEF Succeeds, GroupReturned
  <2>3. CASE Fails
    BY Zenon, <2>3, EndStep DEF Fails, GroupReturned
  <2> QED BY Zenon, <1>2, <2>1, <2>2, <2>3 DEF Process
<1>3. CASE ListFails
  BY Zenon, <1>3, EndStep DEF ListFails, GroupReturned
<1>4. CASE Killed
  BY Zenon, <1>4, EndStep DEF Killed
<1>5. CASE \E g \in Workers : Goroutine(g)
  <2>1. PICK g \in Workers : Goroutine(g)
    BY Zenon, <1>5
  <2>2. stage \in Creating \cup Deleting
    BY Zenon, <2>1, GoroutineEffect DEF IInv, Machinery, FleetTypeOK, Plan
  <2> QED BY Zenon, <2>1, <2>2, CreatingStep, VmsStep, DisksStep, NodeStep DEF Deleting
<1>6. CASE (\E o \in Objects : GetsReady(o) \/ Disappears(o)) \/ (\E o \in Shared : OtherRunCreates(o))
  BY Zenon, <1>6, WorldStep
<1>7. CASE Finished \/ UNCHANGED vars
  <2>1. UNCHANGED <<status, cmd, stages, stage, group, pc, outcome>>
    BY Zenon, <1>7 DEF Finished, vars, procVars
  <2>2. Machinery' /\ Deleted'
    BY Zenon, <2>1 DEF IInv, Machinery, FleetTypeOK, Plan, Places, Deleted
  <2> QED BY Zenon, <2>1, <2>2 DEF IInv, RunningVmKeepsDisk, TeardownExact
<1> QED BY Zenon, <1>1, <1>2, <1>3, <1>4, <1>5, <1>6, <1>7 DEF Next

\* In every behaviour, for every definition, limit and number of commands and failures,
\* the disk of a running machine is there: DeleteNode and Teardown delete a disk only
\* after they have seen its machine gone.
THEOREM RunningVmKeepsDiskHolds == Spec => []RunningVmKeepsDisk
<1>1. IInv => RunningVmKeepsDisk
  BY Zenon DEF IInv
<1> QED BY <1>1, InitIInv, NextIInv, PTL DEF Spec

\* A Teardown that returns without an error has removed every machine and disk of ours,
\* and no command touches a machine or disk without the managed-by label.
THEOREM TeardownExactHolds == Spec => []TeardownExact
<1>1. IInv => TeardownExact
  BY Zenon DEF IInv
<1> QED BY <1>1, InitIInv, NextIInv, PTL DEF Spec

-----------------------------------------------------------------------------
(* What a Provision has done by each of its places.                        *)

Provisioned ==
    /\ cmd = "provision" /\ found = {} => \A o \in Objects : status[o] # "deleting"
    /\ stage \in {"create", "running"} => group = Nodes
    /\ stage = "create" /\ found = {} => \A n \in Nodes : pc[n] = 5 => status[Vm(n)] # "absent"
    /\ stage = "running" => \A n \in Nodes : pc[n] = 2 => status[Vm(n)] = "ready"
    /\ stage = "running" /\ found = {} => \A n \in Nodes : status[Vm(n)] # "absent"
    /\ outcome = <<"provision", "ok">> /\ cmd = "none" => \A n \in Nodes : status[Vm(n)] = "ready"

\* It is what Provision promises.
LEMMA ProvisionedDelivers == IInv /\ Provisioned => ProvisionDelivers
<1> SUFFICES ASSUME IInv, Provisioned PROVE ProvisionDelivers
  OBVIOUS
<1>1. ASSUME outcome = <<"provision", "ok">>, cmd = "none", NEW n \in Nodes
      PROVE  status[Vm(n)] = "ready" /\ status[Disk(n)] \in {"pending", "ready"}
  BY Zenon, <1>1, OurObjects DEF Provisioned, IInv, RunningVmKeepsDisk
<1>2. ASSUME cmd = "provision", stage = "running", found = {}, NEW n \in Nodes
      PROVE  status[Vm(n)] \in {"pending", "ready"}
  <2>1. Vm(n) \in Objects /\ status[Vm(n)] \in Statuses
    BY Zenon, OurObjects DEF IInv, Machinery, FleetTypeOK
  <2> QED BY Zenon, <1>2, <2>1 DEF Provisioned, Statuses
<1> QED BY Zenon, <1>1, <1>2 DEF ProvisionDelivers

\* Where the machine of a node is created and waited for.
LEMMA MachineCalls ==
    ASSUME NEW g
    PROVE  /\ Len(Calls("create", g)) = 4
           /\ Calls("create", g)[3] = <<"get", Vm(g)>> /\ Calls("create", g)[4] = <<"create", Vm(g)>>
           /\ Calls("create", g)[1][1] = "get" /\ Calls("create", g)[2][1] = "create"
           /\ Len(Calls("running", g)) = 1 /\ Calls("running", g)[1] = <<"await", Vm(g)>>
<1>1. Calls("create", g) = << <<"get", Disk(g)>>, <<"create", Disk(g)>> >>
                           \o << <<"get", Vm(g)>>, <<"create", Vm(g)>> >>
  BY Zenon DEF Calls, createIfAbsent
<1>2. Calls("running", g) = << <<"await", Vm(g)>> >>
  BY Zenon DEF Calls
<1>3. /\ Len(Calls("create", g)) = 4
      /\ Calls("create", g)[1] = <<"get", Disk(g)>> /\ Calls("create", g)[2] = <<"create", Disk(g)>>
      /\ Calls("create", g)[3] = <<"get", Vm(g)>> /\ Calls("create", g)[4] = <<"create", Vm(g)>>
  BY <1>1, ConcatTwo
<1> QED BY <1>2, <1>3

\* While a Provision runs, no call of it deletes: what exists stays, and what is ready
\* stays ready.
LEMMA CreatingKeeps ==
    ASSUME IInv, NEW g \in Workers, Goroutine(g), stage \in Creating
    PROVE  \A o \in Objects : /\ status[o] # "absent" => status'[o] = status[o]
                              /\ status'[o] # status[o] => status'[o] = "pending"
<1>1. CASE status' = status
  BY Zenon, <1>1
<1>2. CASE At(g, "create") /\ Target(g) = "absent" /\ Write(g, "pending")
  <2>1. g \in group
    BY Zenon, GoroutineEffect DEF IInv, Machinery
  <2>2. PICK o \in Objects : status[o] = "absent" /\ status' = [status EXCEPT ![o] = "pending"]
    BY Zenon, <1>2, <2>1, RunningAtCall DEF IInv, At, Target, Write
  <2>3. status \in [Objects -> Statuses]
    BY Zenon DEF IInv, Machinery, FleetTypeOK
  <2> QED BY Zenon, <2>2, <2>3
<1>3. CASE At(g, "delete")
  <2>1. g \in group
    BY Zenon, GoroutineEffect DEF IInv, Machinery
  <2>2. pc[g] \in 1 .. Len(Calls(stage, g)) /\ g \in Members(stage)
    BY Zenon, <1>3, <2>1, RunningAtCall DEF IInv, At
  <2>3. Call(g)[1] \in {"get", "create", "await"}
    BY Zenon, <2>2, CreatingCalls DEF Call
  <2> QED BY Zenon, <1>3, <2>3 DEF At
<1> QED BY Zenon, <1>1, <1>2, <1>3, Writes DEF IInv

\* A goroutine that creates a machine has seen or made it when it ends.
LEMMA CreateEnds ==
    ASSUME IInv, NEW g \in Workers, Goroutine(g), stage = "create", pc'[g] = 5
    PROVE  g \in Nodes /\ status'[Vm(g)] # "absent"
<1>1. g \in group /\ (Starts(g) \/ Stops(g) \/ Goes(g))
  BY Zenon, GoroutineEffect DEF IInv, Machinery
<1>2. g \in Nodes /\ Vm(g) \in Objects
  BY Zenon, <1>1, OurObjects DEF IInv, Machinery, Places, Members
<1>3. Goes(g)
  BY <1>1 DEF Starts, Stops, Failed
<1> DEFINE q == Calls("create", g)
<1>4. /\ Len(q) = 4 /\ q[1][1] = "get" /\ q[2][1] = "create"
      /\ q[3][1] = "get" /\ q[3][2] = Vm(g) /\ q[4][1] = "create" /\ q[4][2] = Vm(g)
  BY MachineCalls
<1>5. pc[g] \in 1 .. 4 /\ Call(g) = q[pc[g]]
  BY Zenon, <1>1, <1>3, <1>4, RunningAtCall DEF IInv, Call, Goes
<1> HIDE DEF q
<1>6. /\ At(g, "get") => pc[g] \in {1, 3} /\ (pc[g] = 3 => Call(g)[2] = Vm(g))
      /\ At(g, "create") => pc[g] \in {2, 4} /\ (pc[g] = 4 => Call(g)[2] = Vm(g))
      /\ ~At(g, "await") /\ ~At(g, "delete") /\ ~At(g, "gone")
  BY <1>4, <1>5 DEF At
<1>7. \/ pc[g] = 3 /\ status' = status /\ Target(g) # "absent" /\ Call(g)[2] = Vm(g)
      \/ /\ pc[g] = 4 /\ Call(g)[2] = Vm(g)
         /\ \/ status' = status /\ Target(g) # "absent"
            \/ Target(g) = "absent" /\ Write(g, "pending")
  BY <1>3, <1>6 DEF Goes
<1>8. status \in [Objects -> Statuses]
  BY Zenon DEF IInv, Machinery, FleetTypeOK
<1> QED BY Zenon, <1>2, <1>7, <1>8 DEF Target, Write

\* A goroutine that waits for a machine has seen it running when it ends.
LEMMA AwaitEnds ==
    ASSUME IInv, NEW g \in Workers, Goroutine(g), stage = "running", pc'[g] = 2
    PROVE  g \in Nodes /\ status'[Vm(g)] = "ready"
<1>1. g \in group /\ (Starts(g) \/ Stops(g) \/ Goes(g))
  BY Zenon, GoroutineEffect DEF IInv, Machinery
<1>2. g \in Nodes
  BY Zenon, <1>1 DEF IInv, Machinery, Places, Members
<1>3. Goes(g)
  BY <1>1 DEF Starts, Stops, Failed
<1> DEFINE q == Calls("running", g)
<1>4. Len(q) = 1 /\ q[1][1] = "await" /\ q[1][2] = Vm(g)
  BY MachineCalls
<1>5. pc[g] = 1 /\ Call(g) = q[1]
  BY <1>1, <1>3, <1>4, RunningAtCall DEF IInv, Call, Goes
<1> HIDE DEF q
<1> QED BY Zenon, <1>2, <1>3, <1>4, <1>5 DEF Goes, At, Target


\* A step of a goroutine keeps it.
LEMMA GoroutineProvisions ==
    ASSUME IInv, Provisioned, NEW g \in Workers, Goroutine(g)
    PROVE  Provisioned'
<1>0. UNCHANGED <<cmd, stages, stage, group, outcome, found>> /\ g \in group
  BY Zenon, GoroutineEffect DEF IInv, Machinery
<1>1. stage \in Creating \cup Deleting /\ cmd # "none"
  BY Zenon, <1>0 DEF IInv, Machinery, FleetTypeOK, Plan
<1>2. CASE stage \in Deleting
  <2>1. cmd # "provision" /\ stage \notin {"create", "running"}
    BY Zenon, <1>2 DEF IInv, Machinery, Plan, Deleting
  <2> QED BY Zenon, <1>0, <1>1, <2>1 DEF Provisioned
<1>3. CASE stage \in Creating
  <2>1. \A o \in Objects : /\ status[o] # "absent" => status'[o] = status[o]
                           /\ status'[o] # status[o] => status'[o] = "pending"
    BY Zenon, <1>3, CreatingKeeps
  <2>2. \A n \in Nodes : n \in Workers /\ Vm(n) \in Objects
    BY Zenon, OurObjects DEF Workers
  <2>3. \A n \in Nodes \ {g} : pc'[n] = pc[n]
    BY Zenon, <2>2, OthersStay DEF IInv
  <2>4. cmd' = "provision" /\ found' = {} => \A o \in Objects : status'[o] # "deleting"
    BY Zenon, <1>0, <2>1 DEF Provisioned
  <2>5. ASSUME stage = "create", found = {}, NEW n \in Nodes, pc'[n] = 5
        PROVE  status'[Vm(n)] # "absent"
    <3>1. CASE n = g
      BY Zenon, <2>5, <3>1, CreateEnds
    <3>2. CASE n # g
      BY Zenon, <2>1, <2>2, <2>3, <2>5, <3>2 DEF Provisioned
    <3> QED BY Zenon, <3>1, <3>2
  <2>6. ASSUME stage = "running", NEW n \in Nodes, pc'[n] = 2
        PROVE  status'[Vm(n)] = "ready"
    <3>1. CASE n = g
      BY Zenon, <2>6, <3>1, AwaitEnds
    <3>2. CASE n # g
      BY Zenon, <2>1, <2>2, <2>3, <2>6, <3>2 DEF Provisioned
    <3> QED BY Zenon, <3>1, <3>2
  <2>7. ASSUME stage = "running", found = {}, NEW n \in Nodes PROVE status'[Vm(n)] # "absent"
    BY Zenon, <2>1, <2>2, <2>7 DEF Provisioned
  <2> QED BY Zenon, <1>0, <1>1, <2>4, <2>5, <2>6, <2>7 DEF Provisioned
<1> QED BY Zenon, <1>1, <1>2, <1>3

\* What the base cluster does by itself keeps it.
LEMMA WorldProvisions ==
    ASSUME IInv, Provisioned,
           \/ \E o \in Objects : GetsReady(o) \/ Disappears(o)
           \/ \E o \in Shared : OtherRunCreates(o)
    PROVE  Provisioned'
<1>0. UNCHANGED <<cmd, stages, stage, group, pc, outcome, found>>
  BY Zenon DEF GetsReady, Disappears, OtherRunCreates, procVars
<1>1. status \in [Objects -> Statuses]
  BY Zenon DEF IInv, Machinery, FleetTypeOK
<1>2. PICK o \in Objects, s \in {"ready", "absent", "pending"} :
        /\ status' = [status EXCEPT ![o] = s]
        /\ s = "ready" => status[o] = "pending"
        /\ s = "absent" => status[o] = "deleting"
        /\ s = "pending" => status[o] = "absent"
  BY Zenon DEF GetsReady, Disappears, OtherRunCreates, Objects
<1>3. \A x \in Objects : /\ status'[x] = "deleting" => status[x] = "deleting"
                         /\ status[x] = "ready" => status'[x] = "ready"
                         /\ status'[x] = "absent" => status[x] \in {"absent", "deleting"}
  BY Zenon, <1>1, <1>2
<1>4. \A n \in Nodes : Vm(n) \in Objects
  BY Zenon, OurObjects
<1>5. stage \in {"create", "running"} => cmd = "provision"
  BY Zenon DEF IInv, Machinery, Plan
<1> QED BY Zenon, <1>0, <1>3, <1>4, <1>5 DEF Provisioned

\* When a stage of a Provision has returned without an error, its machines exist, or run.
LEMMA StageProvides ==
    ASSUME IInv, Provisioned, GroupReturned, NoError
    PROVE  /\ stage = "create" /\ found = {} => \A n \in Nodes : status[Vm(n)] # "absent"
           /\ stage = "running" => \A n \in Nodes : status[Vm(n)] = "ready"
<1>1. \A g \in group : pc[g] = Len(Calls(stage, g)) + 1
  BY Zenon DEF GroupReturned, NoError, Returned
<1>2. ASSUME stage = "create", NEW n \in Nodes PROVE pc[n] = 5
  <2>1. Len(Calls(stage, n)) = 4
    BY Zenon, <1>2, MachineCalls
  <2>2. n \in group
    BY Zenon, <1>2 DEF Provisioned
  <2>3. pc[n] = Len(Calls(stage, n)) + 1
    BY Zenon, <1>1, <2>2
  <2> QED BY <2>1, <2>3
<1>3. ASSUME stage = "running", NEW n \in Nodes PROVE pc[n] = 2
  <2>1. Len(Calls(stage, n)) = 1
    BY Zenon, <1>3, MachineCalls
  <2>2. n \in group
    BY Zenon, <1>3 DEF Provisioned
  <2>3. pc[n] = Len(Calls(stage, n)) + 1
    BY Zenon, <1>1, <2>2
  <2> QED BY <2>1, <2>3
<1> QED BY Zenon, <1>2, <1>3 DEF Provisioned

\* Stages and commands begin and end.
LEMMA CommandProvisions ==
    ASSUME IInv, Provisioned, (\E c \in Commands : Begin(c)) \/ NextStage
    PROVE  Provisioned'
<1>1. CASE \E c \in Commands : Begin(c)
  <2>1. /\ cmd' # "none" /\ stage' = "none" /\ status' = status
        /\ found' = {o \in Objects : status[o] = "deleting"}
    BY Zenon, <1>1 DEF Begin, Commands
  <2> QED BY Zenon, <2>1 DEF Provisioned
<1>2. CASE NextStage
  <2>0. /\ UNCHANGED <<status, cmd, outcome, found>> /\ cmd # "none"
        /\ pc' = [g \in Workers |-> 0] /\ GroupReturned /\ NoError
        /\ stage' = Head(stages) /\ stages # <<>> /\ group' = Goroutines(stage')
    BY Zenon, <1>2 DEF NextStage, GroupReturned, Queued
  <2>1. \A n \in Nodes : pc'[n] = 0
    BY Zenon, <2>0, OurObjects DEF Workers
  <2>2. stage' \in {"create", "running"} => group' = Nodes
    BY Zenon, <2>0 DEF Goroutines
  <2>3. stage' = "running" => stage = "create"
    <3>1. stage \in {"none", "class", "images", "vms", "create", "running", "disks", "node"}
      BY Zenon DEF IInv, Machinery, FleetTypeOK, Creating, Deleting
    <3>2. stage = "none" => Head(stages) \in {"class", "node", "vms"}
      <4>1. ASSUME stage = "none" PROVE stages = Stages(cmd) /\ cmd \in Commands
        BY Zenon, <2>0, <4>1 DEF IInv, Machinery, Plan, FleetTypeOK
      <4> QED BY <4>1 DEF Stages, Commands
    <3>3. /\ stage = "class" => Head(stages) = "images"
          /\ stage = "images" => Head(stages) = "create"
          /\ stage = "vms" => Head(stages) = "disks"
          /\ stage \notin {"running", "disks", "node"}
      BY <2>0 DEF IInv, Machinery, Plan
    <3> QED BY Zenon, <2>0, <3>1, <3>2, <3>3
  <2>4. stage' = "running" /\ found = {} => \A n \in Nodes : status[Vm(n)] # "absent"
    BY Zenon, <2>0, <2>3, StageProvides
  <2> QED BY <2>0, <2>1, <2>2, <2>4 DEF Provisioned
<1> QED BY Zenon, <1>1, <1>2

\* A Provision that ends without an error ends after its last stage.
LEMMA EndProvisions ==
    ASSUME IInv, Provisioned, NEW result, Ends(result), cmd # "none",
           result = "ok" => GroupReturned /\ NoError /\ stages = <<>>
    PROVE  Provisioned'
<1>0. outcome' = <<cmd, result>> /\ cmd' = "none" /\ stage' = "none" /\ status' = status
  BY Zenon DEF Ends
<1>1. ASSUME cmd = "provision", result = "ok" PROVE \A n \in Nodes : status[Vm(n)] = "ready"
  <2>1. stage = "running"
    BY <1>1 DEF IInv, Machinery, Plan, Stages, FleetTypeOK, Creating, Deleting
  <2> QED BY Zenon, <1>1, <2>1, StageProvides
<1> QED BY Zenon, <1>0, <1>1 DEF Provisioned

\* Every step keeps it.
LEMMA NextProvisions == IInv /\ Provisioned /\ [Next]_vars => Provisioned'
<1> SUFFICES ASSUME IInv, Provisioned, [Next]_vars PROVE Provisioned'
  OBVIOUS
<1>1. CASE (\E c \in Commands : Begin(c)) \/ NextStage
  BY Zenon, <1>1, CommandProvisions
<1>2. CASE Succeeds \/ Fails \/ ListFails \/ Killed
  BY Zenon, <1>2, EndProvisions DEF Succeeds, Fails, ListFails, Killed, GroupReturned
<1>3. CASE \E g \in Workers : Goroutine(g)
  BY Zenon, <1>3, GoroutineProvisions
<1>4. CASE (\E o \in Objects : GetsReady(o) \/ Disappears(o)) \/ (\E o \in Shared : OtherRunCreates(o))
  BY Zenon, <1>4, WorldProvisions
<1>5. CASE Finished \/ UNCHANGED vars
  BY Zenon, <1>5 DEF Finished, vars, procVars, Provisioned
<1> QED BY Zenon, <1>1, <1>2, <1>3, <1>4, <1>5 DEF Next, Process

\* Provision returns without an error only if every machine of the definition runs on its
\* disk, and a machine it waits for exists if nothing was being deleted when it began, for
\* every definition, limit, and history of commands, failures and kills before it.
THEOREM ProvisionDeliversHolds == Spec => []ProvisionDelivers
<1>1. Init => Provisioned
  BY DEF Init, Provisioned
<1> QED BY <1>1, InitIInv, NextIInv, NextProvisions, ProvisionedDelivers, PTL DEF Spec

-----------------------------------------------------------------------------
(* DvpDisks.                                                               *)

\* The types.
Vds == [phase : {"None", "Pending", "WaitForFirstConsumer", "Ready", "Resizing", "Failed"},
        size : Nat, capacity : Nat, deleting : BOOLEAN]
Atts == [phase : {"None", "Pending", "Attached", "Failed"}, binds : SUBSET Pairs, deleting : BOOLEAN]
CallRecords == [op : {"none", "create", "delete", "attach", "detach", "resize"},
          at : {"idle", "verify", "update", "poll"},
          disk : Disks \cup {<<>>}, node : NodeNames \cup {<<>>}, size : Nat]

DisksTypeOK ==
    /\ vd \in [Disks -> Vds] /\ att \in [Keys -> Atts] /\ call \in [Callers -> CallRecords]
    /\ stale \subseteq Callers /\ sure \subseteq Callers /\ mounted \subseteq Pairs

\* What an operation is about at each of its places.
CallsAreWhole ==
    \A c \in Callers :
        /\ call[c].at = "verify" => call[c].op = "attach" /\ c \notin sure
        /\ call[c].at = "update" => call[c].op = "resize" /\ call[c].disk \in Disks
        /\ call[c].op = "attach" => call[c].disk \in Disks /\ call[c].node \in NodeNames

\* Whoever may still write a disk knows its size, and wants a larger one.
UpdatesAreFresh ==
    \A c \in Callers : call[c].at = "update" /\ c \notin stale =>
        vd[call[c].disk].phase # "None" /\ vd[call[c].disk].size < call[c].size

\* The attachment of a pair is there and nobody has deleted it.
Binds(k, p) == att[k].phase # "None" /\ att[k].binds = {p} /\ ~att[k].deleting

\* An attach that polls, and that no detach has met, polls its own attachment.
SurePolls ==
    \A c \in sure : call[c].op = "attach" /\ call[c].at = "poll" =>
        Binds(attachmentName(call[c].disk, call[c].node), <<call[c].disk, call[c].node>>)

MountedBinds ==
    \A p \in mounted : /\ att[attachmentName(p[1], p[2])].phase = "Attached"
                       /\ Binds(attachmentName(p[1], p[2]), p)

\* There is no attachment where there is none.
NoneBindsNothing == \A k \in Keys : att[k].phase = "None" => att[k].binds = {}

DiskInv == DisksTypeOK /\ CallsAreWhole /\ UpdatesAreFresh
DisksInv == DiskInv /\ SurePolls /\ MountedBinds /\ NoneBindsNothing

-----------------------------------------------------------------------------
\* The name of a pair's attachment is one of the names.
LEMMA PairHasKey == \A d \in Disks, n \in NodeNames : attachmentName(d, n) \in Keys
<1> SUFFICES ASSUME NEW d \in Disks, NEW n \in NodeNames PROVE attachmentName(d, n) \in Keys
  OBVIOUS
<1>1. <<d, n>> \in Pairs /\ <<d, n>>[1] = d /\ <<d, n>>[2] = n
  BY Zenon DEF Pairs
<1> QED BY Zenon, <1>1 DEF Keys

\* A pair is a disk and a node.
LEMMA MountedHaveKeys == \A p \in Pairs : p[1] \in Disks /\ p[2] \in NodeNames /\ p = <<p[1], p[2]>>
                                            /\ attachmentName(p[1], p[2]) \in Keys
BY PairHasKey DEF Pairs

\* No call, no disk and no attachment are values of their types.
LEMMA BlankTypes == Idle \in CallRecords /\ NoVd \in Vds /\ NoAtt \in Atts
<1>1. Idle \in CallRecords
  BY Zenon DEF CallRecords, Idle
<1>2. NoVd \in Vds
  BY Zenon DEF Vds, NoVd
<1>3. NoAtt \in Atts
  BY Zenon DEF Atts, NoAtt
<1> QED BY Zenon, <1>1, <1>2, <1>3

\* The invariant holds at the start.
LEMMA InitDisksInv == DiskInit => DisksInv
<1> SUFFICES ASSUME DiskInit PROVE DisksInv
  OBVIOUS
<1>1. DisksTypeOK
  BY Zenon, BlankTypes DEF DiskInit, DisksTypeOK
<1>2. CallsAreWhole /\ UpdatesAreFresh
  BY Zenon DEF DiskInit, Idle, CallsAreWhole, UpdatesAreFresh
<1>3. SurePolls /\ MountedBinds /\ NoneBindsNothing
  BY Zenon DEF DiskInit, NoAtt, SurePolls, MountedBinds, NoneBindsNothing
<1> QED BY Zenon, <1>1, <1>2, <1>3 DEF DisksInv, DiskInv

-----------------------------------------------------------------------------
(* What the parts of an action do.                                         *)

\* To puts one caller into a call, and leaves the others where they are.
LEMMA ToEffect ==
    ASSUME DisksTypeOK, NEW c \in Callers,
           NEW o \in {"create", "delete", "attach", "detach", "resize"},
           NEW p \in {"verify", "update", "poll"},
           NEW d \in Disks, NEW n \in NodeNames \cup {<<>>}, NEW s \in Nat, To(c, o, p, d, n, s)
    PROVE  /\ call' \in [Callers -> CallRecords]
           /\ call'[c].op = o /\ call'[c].at = p /\ call'[c].disk = d
           /\ call'[c].node = n /\ call'[c].size = s
           /\ \A e \in Callers \ {c} : call'[e] = call[e]
<1> DEFINE r == [op |-> o, at |-> p, disk |-> d, node |-> n, size |-> s]
<1>1. r \in CallRecords
  BY Zenon DEF CallRecords
<1>2. r.op = o /\ r.at = p /\ r.disk = d /\ r.node = n /\ r.size = s
  OBVIOUS
<1>3. call' = [call EXCEPT ![c] = r]
  BY Zenon DEF To
<1> HIDE DEF r
<1> QED BY Zenon, <1>1, <1>2, <1>3 DEF DisksTypeOK

\* Goto changes the place of one caller.
LEMMA GotoEffect ==
    ASSUME DisksTypeOK, NEW c \in Callers, NEW p \in {"verify", "update", "poll"}, Goto(c, p)
    PROVE  /\ call' \in [Callers -> CallRecords]
           /\ call'[c].at = p /\ call'[c].op = call[c].op /\ call'[c].disk = call[c].disk
           /\ call'[c].node = call[c].node
           /\ \A e \in Callers \ {c} : call'[e] = call[e]
BY DEF DisksTypeOK, CallRecords, Goto

\* Returns makes one caller idle.
LEMMA ReturnsEffect ==
    ASSUME DisksTypeOK, NEW c \in Callers, Returns(c)
    PROVE  /\ call' \in [Callers -> CallRecords]
           /\ call'[c].at = "idle" /\ call'[c].op = "none"
           /\ \A e \in Callers \ {c} : call'[e] = call[e]
<1>1. Idle.at = "idle" /\ Idle.op = "none"
  BY Zenon DEF Idle
<1> QED BY Zenon, <1>1, BlankTypes DEF DisksTypeOK, Returns

\* SetVd writes one disk, and makes every update of it that is under way stale.
LEMMA SetVdEffect ==
    ASSUME DisksTypeOK, NEW d \in Disks, NEW v \in Vds, SetVd(d, v)
    PROVE  /\ vd' \in [Disks -> Vds] /\ vd'[d] = v
           /\ \A e \in Disks \ {d} : vd'[e] = vd[e]
           /\ stale' \subseteq Callers /\ stale \subseteq stale'
           /\ \A c \in Callers : call[c].at = "update" /\ call[c].disk = d => c \in stale'
BY Zenon DEF DisksTypeOK, SetVd

\* SetAtt writes one attachment.
LEMMA SetAttEffect ==
    ASSUME DisksTypeOK, NEW k \in Keys, NEW a \in Atts, SetAtt(k, a)
    PROVE  att' \in [Keys -> Atts] /\ att'[k] = a /\ \A e \in Keys \ {k} : att'[e] = att[e]
BY Zenon DEF DisksTypeOK, SetAtt

\* A write of a disk makes everybody else's version stale, so no update becomes wrong.
LEMMA UpdatesStay ==
    ASSUME DiskInv,
           \A e \in Callers : call'[e] = call[e] \/ call'[e].at # "update",
           UNCHANGED <<vd, stale>> \/ \E d \in Disks : \E v \in Vds : SetVd(d, v)
    PROVE  UpdatesAreFresh'
<1> SUFFICES ASSUME NEW e \in Callers, call'[e].at = "update", e \notin stale'
             PROVE  vd'[call'[e].disk].phase # "None" /\ vd'[call'[e].disk].size < call'[e].size
  BY Zenon DEF UpdatesAreFresh
<1>1. call'[e] = call[e] /\ call[e].at = "update" /\ call[e].disk \in Disks
  BY Zenon DEF DiskInv, CallsAreWhole
<1>2. CASE UNCHANGED <<vd, stale>>
  BY Zenon, <1>1, <1>2 DEF DiskInv, UpdatesAreFresh
<1>3. CASE \E d \in Disks : \E v \in Vds : SetVd(d, v)
  <2> PICK d \in Disks, v \in Vds : SetVd(d, v)
    BY Zenon, <1>3
  <2>1. e \notin stale /\ vd'[call[e].disk] = vd[call[e].disk]
    BY Zenon, <1>1, SetVdEffect DEF DiskInv
  <2> QED BY Zenon, <1>1, <2>1 DEF DiskInv, UpdatesAreFresh
<1> QED BY Zenon, <1>2, <1>3

\* Operations that touch no attachment leave all that is known of them true.
LEMMA MountsKept ==
    ASSUME DisksInv, UNCHANGED <<att, sure, mounted>>,
           \A e \in Callers : call'[e] = call[e] \/ call'[e].op # "attach" \/ call'[e].at # "poll"
    PROVE  SurePolls' /\ MountedBinds' /\ NoneBindsNothing'
<1>1. SurePolls'
  BY Zenon DEF DisksInv, DiskInv, DisksTypeOK, SurePolls, Binds
<1>2. MountedBinds'
  BY Zenon DEF DisksInv, MountedBinds, Binds
<1>3. NoneBindsNothing'
  BY Zenon DEF DisksInv, NoneBindsNothing
<1> QED BY Zenon, <1>1, <1>2, <1>3

-----------------------------------------------------------------------------
(* The operations on disks.                                                *)

\* No disk shrinks in this step.
Grows == \A d \in Disks : vd[d].phase # "None" /\ vd'[d].phase # "None" => vd'[d].size >= vd[d].size

\* No disk shrinks when none is written.
LEMMA NothingWritten == ASSUME DisksTypeOK, UNCHANGED vd PROVE Grows
BY DEF DisksTypeOK, Vds, Grows

\* CreateDisk: the disk is new, or its size is left alone.
LEMMA CreateDiskStep ==
    ASSUME DisksInv, NEW c \in Callers, NEW d \in Disks, NEW s \in Sizes, CreateDisk(c, d, s)
    PROVE  DisksInv' /\ Grows
<1> DEFINE v == [NoVd EXCEPT !.phase = "Pending", !.size = s]
<1>0. s \in Nat /\ DisksTypeOK /\ v \in Vds
  BY Zenon, DisksAssumption, BlankTypes DEF DisksInv, DiskInv, Vds
<1>1. /\ call' \in [Callers -> CallRecords] /\ \A e \in Callers \ {c} : call'[e] = call[e]
      /\ call'[c].op \in {"none", "create"} /\ call'[c].at \in {"idle", "poll"}
  <2>1. CASE Returns(c)
    BY Zenon, <1>0, <2>1, ReturnsEffect
  <2>2. CASE To(c, "create", "poll", d, <<>>, s)
    BY Zenon, <1>0, <2>2, ToEffect
  <2> QED BY Zenon, <2>1, <2>2 DEF CreateDisk
<1> HIDE DEF v
<1>2. \/ vd[d].phase = "None" /\ SetVd(d, v)
      \/ UNCHANGED <<vd, stale>>
  BY Zenon DEF CreateDisk, v
<1>3. DisksTypeOK' /\ Grows
  <2>1. vd' \in [Disks -> Vds] /\ stale' \subseteq Callers /\ Grows
    <3>1. CASE vd[d].phase = "None" /\ SetVd(d, v)
      BY <1>0, <3>1, SetVdEffect DEF Grows, DisksTypeOK, Vds
    <3>2. CASE UNCHANGED <<vd, stale>>
      BY Zenon, <1>0, <3>2, NothingWritten DEF DisksTypeOK
    <3> QED BY Zenon, <1>2, <3>1, <3>2
  <2> QED BY Zenon, <1>0, <1>1, <2>1 DEF CreateDisk, history, DisksTypeOK
<1>4. CallsAreWhole'
  BY Zenon, <1>1 DEF CreateDisk, history, DisksInv, DiskInv, CallsAreWhole
<1>5. UpdatesAreFresh'
  BY Zenon, <1>0, <1>1, <1>2, UpdatesStay DEF DisksInv
<1>6. SurePolls' /\ MountedBinds' /\ NoneBindsNothing'
  BY Zenon, <1>1, MountsKept DEF CreateDisk, history
<1> QED BY Zenon, <1>3, <1>4, <1>5, <1>6 DEF DisksInv, DiskInv

\* DeleteDisk marks a disk as going and keeps its size.
LEMMA DeleteDiskStep ==
    ASSUME DisksInv, NEW c \in Callers, NEW d \in Disks, DeleteDisk(c, d)
    PROVE  DisksInv' /\ Grows
<1> DEFINE v == [vd[d] EXCEPT !.deleting = TRUE]
<1>0. DisksTypeOK /\ v \in Vds /\ v.size = vd[d].size /\ vd[d].size \in Nat
  BY Zenon DEF DisksInv, DiskInv, DisksTypeOK, Vds
<1>1. /\ call' \in [Callers -> CallRecords] /\ \A e \in Callers \ {c} : call'[e] = call[e]
      /\ call'[c].op \in {"none", "delete"} /\ call'[c].at \in {"idle", "poll"}
  <2>1. CASE Returns(c)
    BY Zenon, <1>0, <2>1, ReturnsEffect
  <2>2. CASE To(c, "delete", "poll", d, <<>>, 0)
    BY Zenon, <1>0, <2>2, ToEffect
  <2> QED BY Zenon, <2>1, <2>2 DEF DeleteDisk
<1> HIDE DEF v
<1>2. SetVd(d, v) \/ UNCHANGED <<vd, stale>>
  BY Zenon DEF DeleteDisk, v
<1>3. DisksTypeOK' /\ Grows
  <2>1. vd' \in [Disks -> Vds] /\ stale' \subseteq Callers /\ Grows
    <3>1. CASE SetVd(d, v)
      BY <1>0, <3>1, SetVdEffect DEF Grows, DisksTypeOK, Vds
    <3>2. CASE UNCHANGED <<vd, stale>>
      BY Zenon, <1>0, <3>2, NothingWritten DEF DisksTypeOK
    <3> QED BY Zenon, <1>2, <3>1, <3>2
  <2> QED BY Zenon, <1>0, <1>1, <2>1 DEF DeleteDisk, history, DisksTypeOK
<1>4. CallsAreWhole'
  BY Zenon, <1>1 DEF DeleteDisk, history, DisksInv, DiskInv, CallsAreWhole
<1>5. UpdatesAreFresh'
  BY Zenon, <1>0, <1>1, <1>2, UpdatesStay DEF DisksInv
<1>6. SurePolls' /\ MountedBinds' /\ NoneBindsNothing'
  BY Zenon, <1>1, MountsKept DEF DeleteDisk, history
<1> QED BY Zenon, <1>3, <1>4, <1>5, <1>6 DEF DisksInv, DiskInv

\* The size is compared with the one the Get has read.
LEMMA ResizeDiskStep ==
    ASSUME DisksInv, NEW c \in Callers, NEW d \in Disks, NEW s \in Sizes, ResizeDisk(c, d, s)
    PROVE  DisksInv' /\ Grows
<1>0. s \in Nat /\ DisksTypeOK /\ UNCHANGED <<vd, att, sure, mounted>>
  BY Zenon, DisksAssumption DEF DisksInv, DiskInv, ResizeDisk
<1>1. CASE Returns(c)
  <2>1. /\ call' \in [Callers -> CallRecords] /\ \A e \in Callers \ {c} : call'[e] = call[e]
        /\ call'[c].op = "none" /\ call'[c].at = "idle"
    BY Zenon, <1>0, <1>1, ReturnsEffect
  <2>2. stale' \in {stale, stale \ {c}}
    BY Zenon DEF ResizeDisk
  <2>3. DisksTypeOK' /\ CallsAreWhole'
    BY Zenon, <1>0, <2>1, <2>2 DEF DisksInv, DiskInv, DisksTypeOK, CallsAreWhole
  <2>4. UpdatesAreFresh'
    BY Zenon, <1>0, <2>1, <2>2 DEF DisksInv, DiskInv, UpdatesAreFresh
  <2>5. SurePolls' /\ MountedBinds' /\ NoneBindsNothing'
    BY Zenon, <1>0, <2>1, MountsKept
  <2> QED BY Zenon, <1>0, <2>3, <2>4, <2>5, NothingWritten DEF DisksInv, DiskInv
<1>2. CASE vd[d].phase # "None" /\ s > vd[d].size /\ To(c, "resize", "update", d, <<>>, s)
           /\ stale' = stale \ {c}
  <2>1. /\ call' \in [Callers -> CallRecords] /\ \A e \in Callers \ {c} : call'[e] = call[e]
        /\ call'[c].op = "resize" /\ call'[c].at = "update" /\ call'[c].disk = d /\ call'[c].size = s
    <3> DEFINE r == [op |-> "resize", at |-> "update", disk |-> d, node |-> <<>>, size |-> s]
    <3>1. r \in CallRecords
      BY Zenon, <1>0 DEF CallRecords
    <3>2. r.op = "resize" /\ r.at = "update" /\ r.disk = d /\ r.size = s
      BY Zenon
    <3>3. call' = [call EXCEPT ![c] = r]
      BY Zenon, <1>2 DEF To
    <3> HIDE DEF r
    <3> QED BY Zenon, <1>0, <3>1, <3>2, <3>3 DEF DisksTypeOK
  <2>2. vd[d].size \in Nat
    BY Zenon, <1>0 DEF DisksTypeOK, Vds
  <2>3. DisksTypeOK' /\ CallsAreWhole'
    BY Zenon, <1>0, <1>2, <2>1 DEF DisksInv, DiskInv, DisksTypeOK, CallsAreWhole
  <2>4. UpdatesAreFresh'
    BY Zenon, <1>0, <1>2, <2>1, <2>2 DEF DisksInv, DiskInv, UpdatesAreFresh
  <2>5. SurePolls' /\ MountedBinds' /\ NoneBindsNothing'
    BY Zenon, <1>0, <2>1, MountsKept
  <2> QED BY Zenon, <1>0, <2>3, <2>4, <2>5, NothingWritten DEF DisksInv, DiskInv
<1> QED BY Zenon, <1>1, <1>2 DEF ResizeDisk

\* The Update is refused if the disk has changed since the Get, so its size grows.
LEMMA ResizeUpdateStep ==
    ASSUME DisksInv, NEW c \in Callers, ResizeUpdate(c)
    PROVE  DisksInv' /\ Grows
<1> DEFINE d == call[c].disk
           v == [vd[d] EXCEPT !.size = call[c].size]
<1>0. DisksTypeOK /\ d \in Disks /\ call[c].size \in Nat /\ call[c].op = "resize"
  BY Zenon DEF DisksInv, DiskInv, DisksTypeOK, CallsAreWhole, ResizeUpdate, CallRecords
<1>a. v \in Vds /\ v.size = call[c].size /\ vd[d].size \in Nat
  BY <1>0 DEF DisksTypeOK, Vds
<1>1. /\ call' \in [Callers -> CallRecords] /\ \A e \in Callers \ {c} : call'[e] = call[e]
      /\ call'[c].op \in {"none", "resize"} /\ call'[c].at \in {"idle", "poll"}
  <2>1. CASE Returns(c)
    BY Zenon, <1>0, <2>1, ReturnsEffect
  <2>2. CASE Goto(c, "poll")
    BY Zenon, <1>0, <2>2, GotoEffect
  <2> QED BY Zenon, <2>1, <2>2 DEF ResizeUpdate
<1>2. \/ vd[d].size < v.size /\ SetVd(d, v)
      \/ UNCHANGED <<vd, stale>>
  BY Zenon, <1>a DEF ResizeUpdate, DisksInv, DiskInv, UpdatesAreFresh
<1> HIDE DEF v, d
<1>3. DisksTypeOK' /\ Grows
  <2>1. vd' \in [Disks -> Vds] /\ stale' \subseteq Callers /\ Grows
    <3>1. CASE vd[d].size < v.size /\ SetVd(d, v)
      <4>1. /\ vd' \in [Disks -> Vds] /\ vd'[d] = v /\ \A e \in Disks \ {d} : vd'[e] = vd[e]
            /\ stale' \subseteq Callers
        BY Zenon, <1>0, <1>a, <3>1, SetVdEffect
      <4>2. \A e \in Disks : vd[e].size \in Nat
        BY Zenon, <1>0 DEF DisksTypeOK, Vds
      <4> QED BY <1>0, <1>a, <3>1, <4>1, <4>2 DEF Grows
    <3>2. CASE UNCHANGED <<vd, stale>>
      BY Zenon, <1>0, <3>2, NothingWritten DEF DisksTypeOK
    <3> QED BY Zenon, <1>2, <3>1, <3>2
  <2> QED BY Zenon, <1>0, <1>1, <2>1 DEF ResizeUpdate, history, DisksTypeOK
<1>4. CallsAreWhole'
  BY Zenon, <1>1 DEF ResizeUpdate, history, DisksInv, DiskInv, CallsAreWhole
<1>5. UpdatesAreFresh'
  BY Zenon, <1>0, <1>a, <1>1, <1>2, UpdatesStay DEF DisksInv
<1>6. SurePolls' /\ MountedBinds' /\ NoneBindsNothing'
  BY Zenon, <1>1, MountsKept DEF ResizeUpdate, history
<1> QED BY Zenon, <1>3, <1>4, <1>5, <1>6 DEF DisksInv, DiskInv

-----------------------------------------------------------------------------
(* The operations on attachments.                                          *)

\* An attachment is created where there is none, or looked at before it is adopted.
LEMMA AttachDiskStep ==
    ASSUME DisksInv, NEW c \in Callers, NEW d \in Disks, NEW n \in NodeNames, AttachDisk(c, d, n)
    PROVE  DisksInv' /\ Grows
<1> DEFINE k == attachmentName(d, n)
           b == {<<d, n>>}
           a == [NoAtt EXCEPT !.phase = "Pending", !.binds = b]
<1>0. DisksTypeOK /\ k \in Keys /\ UNCHANGED <<vd, stale, mounted>>
  BY Zenon, PairHasKey DEF DisksInv, DiskInv, AttachDisk
<1>a. a \in Atts /\ a.phase = "Pending" /\ a.binds = {<<d, n>>} /\ ~a.deleting
  <2>1. b \in SUBSET Pairs
    BY DEF Pairs
  <2> HIDE DEF b
  <2>2. a \in Atts /\ a.phase = "Pending" /\ a.binds = b /\ ~a.deleting
    BY Zenon, <2>1 DEF Atts, NoAtt
  <2> HIDE DEF a
  <2> QED BY Zenon, <2>2 DEF b
<1>b. \/ att[k].phase = "None" /\ SetAtt(k, a) /\ (To(c, "attach", "poll", d, n, 0) \/ Returns(c))
      \/ UNCHANGED att /\ (To(c, "attach", "verify", d, n, 0) \/ Returns(c))
  BY Zenon DEF AttachDisk
<1>c. sure' = IF att'[k] # att[k] THEN sure \cup {c} ELSE sure \ {c}
  BY Zenon DEF AttachDisk
<1> HIDE DEF k, a
<1>1. /\ call' \in [Callers -> CallRecords] /\ \A e \in Callers \ {c} : call'[e] = call[e]
      /\ \/ call'[c].op = "none" /\ call'[c].at = "idle"
         \/ /\ call'[c].op = "attach" /\ call'[c].disk = d /\ call'[c].node = n
            /\ call'[c].at = "poll" => att[k].phase = "None" /\ SetAtt(k, a)
            /\ call'[c].at = "verify" => UNCHANGED att
            /\ call'[c].at \in {"verify", "poll"}
  <2>1. CASE Returns(c)
    BY Zenon, <1>0, <2>1, ReturnsEffect
  <2>2. CASE att[k].phase = "None" /\ SetAtt(k, a) /\ To(c, "attach", "poll", d, n, 0)
    BY <1>0, <2>2, ToEffect
  <2>3. CASE UNCHANGED att /\ To(c, "attach", "verify", d, n, 0)
    BY <1>0, <2>3, ToEffect
  <2> QED BY Zenon, <1>b, <2>1, <2>2, <2>3
<1>2. /\ att' \in [Keys -> Atts] /\ \A e \in Keys \ {k} : att'[e] = att[e]
      /\ att'[k] = att[k] \/ (att[k].phase = "None" /\ att'[k] = a)
      /\ SetAtt(k, a) => att'[k] = a
  <2>1. CASE att[k].phase = "None" /\ SetAtt(k, a)
    BY Zenon, <1>0, <1>a, <2>1, SetAttEffect
  <2>2. CASE UNCHANGED att
    BY Zenon, <1>0, <1>a, <2>2, SetAttEffect DEF DisksTypeOK
  <2> QED BY Zenon, <1>b, <2>1, <2>2
<1>3. DisksTypeOK'
  BY Zenon, <1>0, <1>1, <1>2, <1>c DEF DisksTypeOK
<1>4. CallsAreWhole'
  BY Zenon, <1>0, <1>1, <1>c DEF DisksInv, DiskInv, CallsAreWhole
<1>5. UpdatesAreFresh'
  BY Zenon, <1>0, <1>1, UpdatesStay DEF DisksInv
<1>6. SurePolls'
  <2> SUFFICES ASSUME NEW e \in sure', call'[e].op = "attach", call'[e].at = "poll"
               PROVE  Binds(attachmentName(call[e].disk, call[e].node), <<call[e].disk, call[e].node>>)'
    BY Zenon DEF SurePolls
  <2>1. e \in Callers
    BY Zenon, <1>3 DEF DisksTypeOK
  <2>2. CASE e = c
    BY Zenon, <1>a, <1>1, <1>2, <2>2 DEF Binds, k
  <2>3. CASE e # c
    <3>1. e \in sure /\ call'[e] = call[e]
      BY Zenon, <1>1, <1>c, <2>1, <2>3
    <3> DEFINE q == attachmentName(call[e].disk, call[e].node)
    <3>2. q \in Keys /\ Binds(q, <<call[e].disk, call[e].node>>)
      BY Zenon, <2>1, <3>1, PairHasKey DEF DisksInv, DiskInv, CallsAreWhole, SurePolls
    <3>3. att'[q] = att[q]
      BY Zenon, <1>2, <3>2 DEF Binds
    <3> QED BY Zenon, <3>1, <3>2, <3>3 DEF Binds
  <2> QED BY Zenon, <2>2, <2>3
<1>7. MountedBinds'
  <2> SUFFICES ASSUME NEW p \in mounted
               PROVE  att'[attachmentName(p[1], p[2])] = att[attachmentName(p[1], p[2])]
    BY Zenon, <1>0 DEF DisksInv, MountedBinds, Binds
  <2>1. attachmentName(p[1], p[2]) \in Keys
    BY Zenon, <1>0, MountedHaveKeys DEF DisksTypeOK
  <2> QED BY Zenon, <1>2, <2>1 DEF DisksInv, MountedBinds
<1>8. NoneBindsNothing'
  BY Zenon, <1>a, <1>2 DEF DisksInv, NoneBindsNothing
<1> QED BY Zenon, <1>0, <1>3, <1>4, <1>5, <1>6, <1>7, <1>8, NothingWritten DEF DisksInv, DiskInv

\* An attachment that is there is adopted if it binds this disk to this machine.
LEMMA AttachVerifyStep ==
    ASSUME DisksInv, NEW c \in Callers, AttachVerify(c)
    PROVE  DisksInv' /\ Grows
<1> DEFINE k == attachmentName(call[c].disk, call[c].node)
<1>0. DisksTypeOK /\ UNCHANGED <<vd, att, stale, mounted>> /\ call[c].at = "verify"
  BY Zenon DEF DisksInv, DiskInv, AttachVerify, objVars
<1>a. call[c].op = "attach" /\ c \notin sure /\ call[c].disk \in Disks /\ call[c].node \in NodeNames
  BY Zenon, <1>0 DEF DisksInv, DiskInv, CallsAreWhole
<1>b. k \in Keys
  BY Zenon, <1>a, PairHasKey
<1>c. sure' = IF att[k].deleting THEN sure ELSE sure \cup {c}
  BY Zenon DEF AttachVerify
<1>1. /\ call' \in [Callers -> CallRecords] /\ \A e \in Callers \ {c} : call'[e] = call[e]
      /\ \/ call'[c].op = "none" /\ call'[c].at = "idle"
         \/ /\ att[k].binds = {<<call[c].disk, call[c].node>>}
            /\ call'[c].at = "poll" /\ call'[c].op = "attach"
            /\ call'[c].disk = call[c].disk /\ call'[c].node = call[c].node
  <2>1. CASE Returns(c)
    BY Zenon, <1>0, <2>1, ReturnsEffect
  <2>2. CASE att[k].binds = {<<call[c].disk, call[c].node>>} /\ Goto(c, "poll")
    BY Zenon, <1>0, <1>a, <2>2, GotoEffect
  <2> QED BY Zenon, <2>1, <2>2 DEF AttachVerify
<1>3. DisksTypeOK'
  BY Zenon, <1>0, <1>1, <1>c DEF DisksTypeOK
<1>4. CallsAreWhole'
  BY Zenon, <1>a, <1>1, <1>c DEF DisksInv, DiskInv, CallsAreWhole
<1>5. UpdatesAreFresh'
  BY Zenon, <1>0, <1>1, UpdatesStay DEF DisksInv
<1>6. SurePolls'
  <2> SUFFICES ASSUME NEW e \in sure', call'[e].op = "attach", call'[e].at = "poll"
               PROVE  Binds(attachmentName(call[e].disk, call[e].node), <<call[e].disk, call[e].node>>)'
    BY Zenon DEF SurePolls
  <2>1. e \in Callers
    BY Zenon, <1>3 DEF DisksTypeOK
  <2>2. CASE e = c
    <3>1. ~att[k].deleting
      BY Zenon, <1>a, <1>c, <2>2
    <3>2. att[k].phase # "None"
      BY Zenon, <1>1, <2>2, <1>b DEF DisksInv, NoneBindsNothing
    <3> QED BY Zenon, <1>0, <1>1, <2>2, <3>1, <3>2 DEF Binds
  <2>3. CASE e # c
    <3>1. e \in sure /\ call'[e] = call[e]
      BY Zenon, <1>1, <1>c, <2>1, <2>3
    <3>2. Binds(attachmentName(call[e].disk, call[e].node), <<call[e].disk, call[e].node>>)
      BY Zenon, <3>1 DEF DisksInv, SurePolls
    <3> QED BY Zenon, <1>0, <3>1, <3>2 DEF Binds
  <2> QED BY Zenon, <2>2, <2>3
<1>7. MountedBinds'
  BY Zenon, <1>0 DEF DisksInv, MountedBinds, Binds
<1>8. NoneBindsNothing'
  BY Zenon, <1>0 DEF DisksInv, NoneBindsNothing
<1> QED BY Zenon, <1>0, <1>3, <1>4, <1>5, <1>6, <1>7, <1>8, NothingWritten DEF DisksInv, DiskInv

\* A detach takes what is known of its attachment with it.
LEMMA DetachDiskStep ==
    ASSUME DisksInv, NEW c \in Callers, NEW d \in Disks, NEW n \in NodeNames, DetachDisk(c, d, n)
    PROVE  DisksInv' /\ Grows
<1> DEFINE k == attachmentName(d, n)
           a == [att[k] EXCEPT !.deleting = TRUE]
<1>0. DisksTypeOK /\ k \in Keys /\ UNCHANGED <<vd, stale>>
  BY Zenon, PairHasKey DEF DisksInv, DiskInv, DetachDisk
<1>a. a \in Atts /\ a.phase = att[k].phase /\ a.binds = att[k].binds
  BY Zenon, <1>0 DEF DisksTypeOK, Atts
<1>b. SetAtt(k, a) \/ UNCHANGED att
  BY Zenon DEF DetachDisk
<1>c. /\ mounted' = {p \in mounted : attachmentName(p[1], p[2]) # k}
      /\ sure' = {e \in sure : attachmentName(call[e].disk, call[e].node) # k}
  BY Zenon DEF DetachDisk
<1> HIDE DEF k, a
<1>1. /\ call' \in [Callers -> CallRecords] /\ \A e \in Callers \ {c} : call'[e] = call[e]
      /\ call'[c].op \in {"none", "detach"} /\ call'[c].at \in {"idle", "poll"}
  <2>1. CASE Returns(c)
    BY Zenon, <1>0, <2>1, ReturnsEffect
  <2>2. CASE To(c, "detach", "poll", d, n, 0)
    BY Zenon, <1>0, <2>2, ToEffect
  <2> QED BY Zenon, <2>1, <2>2 DEF DetachDisk
<1>2. /\ att' \in [Keys -> Atts] /\ \A e \in Keys \ {k} : att'[e] = att[e]
      /\ att'[k].phase = att[k].phase /\ att'[k].binds = att[k].binds
  <2>1. CASE SetAtt(k, a)
    BY Zenon, <1>0, <1>a, <2>1, SetAttEffect
  <2>2. CASE UNCHANGED att
    BY Zenon, <1>0, <2>2 DEF DisksTypeOK
  <2> QED BY Zenon, <1>b, <2>1, <2>2
<1>3. DisksTypeOK'
  BY Zenon, <1>0, <1>1, <1>2, <1>c DEF DisksTypeOK
<1>4. CallsAreWhole'
  BY Zenon, <1>1, <1>c DEF DisksInv, DiskInv, CallsAreWhole
<1>5. UpdatesAreFresh'
  BY Zenon, <1>0, <1>1, UpdatesStay DEF DisksInv
<1>6. SurePolls'
  <2> SUFFICES ASSUME NEW e \in sure', call'[e].op = "attach", call'[e].at = "poll"
               PROVE  Binds(attachmentName(call[e].disk, call[e].node), <<call[e].disk, call[e].node>>)'
    BY Zenon DEF SurePolls
  <2> DEFINE q == attachmentName(call[e].disk, call[e].node)
  <2>1. e \in Callers /\ e \in sure /\ call'[e] = call[e] /\ q # k
    BY Zenon, <1>0, <1>1, <1>c DEF DisksTypeOK
  <2>2. q \in Keys /\ Binds(q, <<call[e].disk, call[e].node>>)
    BY Zenon, <2>1, PairHasKey DEF DisksInv, DiskInv, CallsAreWhole, SurePolls
  <2> QED BY Zenon, <1>2, <2>1, <2>2 DEF Binds
<1>7. MountedBinds'
  <2> SUFFICES ASSUME NEW p \in mounted, attachmentName(p[1], p[2]) # k
               PROVE  att'[attachmentName(p[1], p[2])] = att[attachmentName(p[1], p[2])]
    BY Zenon, <1>c DEF DisksInv, MountedBinds, Binds
  <2>1. attachmentName(p[1], p[2]) \in Keys
    BY Zenon, <1>0, MountedHaveKeys DEF DisksTypeOK
  <2> QED BY Zenon, <1>2, <2>1
<1>8. NoneBindsNothing'
  BY Zenon, <1>2 DEF DisksInv, NoneBindsNothing
<1> QED BY Zenon, <1>0, <1>3, <1>4, <1>5, <1>6, <1>7, <1>8, NothingWritten DEF DisksInv, DiskInv

\* What a poll finds attached is the attachment it was sure of.
LEMMA PollStep ==
    ASSUME DisksInv, NEW c \in Callers, PollDone(c) \/ PollFails(c)
    PROVE  DisksInv' /\ Grows
<1>0. DisksTypeOK /\ UNCHANGED <<vd, att, stale, sure>> /\ call[c].at = "poll" /\ Returns(c)
  BY Zenon DEF DisksInv, DiskInv, PollDone, PollFails, objVars, history
<1>1. /\ call' \in [Callers -> CallRecords] /\ \A e \in Callers \ {c} : call'[e] = call[e]
      /\ call'[c].op = "none" /\ call'[c].at = "idle"
  BY Zenon, <1>0, ReturnsEffect
<1> DEFINE p == <<call[c].disk, call[c].node>>
           k == attachmentName(call[c].disk, call[c].node)
<1>2. \/ mounted' = mounted
      \/ /\ call[c].op = "attach" /\ c \in sure /\ att[k].phase = "Attached"
         /\ mounted' = mounted \cup {p}
  BY Zenon DEF PollDone, PollFails, Reached, history
<1>3. DisksTypeOK'
  <2>1. mounted' \subseteq Pairs
    BY <1>0, <1>2 DEF DisksInv, DiskInv, DisksTypeOK, CallsAreWhole, Pairs
  <2> QED BY Zenon, <1>0, <1>1, <2>1 DEF DisksTypeOK
<1>4. CallsAreWhole'
  BY Zenon, <1>0, <1>1 DEF DisksInv, DiskInv, CallsAreWhole
<1>5. UpdatesAreFresh'
  BY Zenon, <1>0, <1>1, UpdatesStay DEF DisksInv
<1>6. SurePolls'
  <2> SUFFICES ASSUME NEW e \in sure, call'[e].op = "attach", call'[e].at = "poll"
               PROVE  Binds(attachmentName(call[e].disk, call[e].node), <<call[e].disk, call[e].node>>)'
    BY Zenon, <1>0 DEF SurePolls
  <2>1. e \in Callers /\ e # c
    BY Zenon, <1>0, <1>1 DEF DisksTypeOK
  <2>2. call'[e] = call[e]
    BY Zenon, <1>1, <2>1
  <2>3. Binds(attachmentName(call[e].disk, call[e].node), <<call[e].disk, call[e].node>>)
    BY Zenon, <2>2 DEF DisksInv, SurePolls
  <2> QED BY Zenon, <1>0, <2>2, <2>3 DEF Binds
<1>7. MountedBinds'
  <2>1. \A q \in mounted : /\ att'[attachmentName(q[1], q[2])].phase = "Attached"
                           /\ Binds(attachmentName(q[1], q[2]), q)'
    BY Zenon, <1>0 DEF DisksInv, MountedBinds, Binds
  <2>2. attachmentName(p[1], p[2]) = k
    OBVIOUS
  <2>3. ASSUME call[c].op = "attach", c \in sure, att[k].phase = "Attached"
        PROVE  att'[k].phase = "Attached" /\ att'[k].binds = {p} /\ ~att'[k].deleting
    <3>1. Binds(k, p)
      BY Zenon, <1>0, <2>3 DEF DisksInv, SurePolls
    <3> HIDE DEF p, k
    <3>2. att'[k] = att[k]
      BY Zenon, <1>0
    <3> QED BY Zenon, <2>3, <3>1, <3>2 DEF Binds
  <2> HIDE DEF p, k
  <2> SUFFICES ASSUME NEW q \in mounted'
               PROVE  /\ att'[attachmentName(q[1], q[2])].phase = "Attached"
                      /\ Binds(attachmentName(q[1], q[2]), q)'
    BY Zenon DEF MountedBinds, Binds
  <2>4. CASE q \in mounted
    BY Zenon, <2>1, <2>4
  <2>5. CASE q \notin mounted
    <3>1. q = p /\ att'[k].phase = "Attached" /\ att'[k].binds = {p} /\ ~att'[k].deleting
      BY Zenon, <1>2, <2>3, <2>5
    <3> QED BY Zenon, <2>2, <3>1 DEF Binds
  <2> QED BY Zenon, <2>4, <2>5
<1>8. NoneBindsNothing'
  BY Zenon, <1>0 DEF DisksInv, NoneBindsNothing
<1> QED BY Zenon, <1>0, <1>3, <1>4, <1>5, <1>6, <1>7, <1>8, NothingWritten DEF DisksInv, DiskInv

-----------------------------------------------------------------------------
(* The controllers.                                                        *)

\* The virtualization module never lowers the size in a disk's spec.
LEMMA DiskControllersStep ==
    ASSUME DisksInv, NEW d \in Disks, DiskProvisioned(d) \/ Expanded(d) \/ DiskGone(d)
    PROVE  DisksInv' /\ Grows
<1>0. DisksTypeOK /\ UNCHANGED <<att, call, sure, mounted>>
  BY Zenon DEF DisksInv, DiskInv, DiskProvisioned, Expanded, DiskGone, history
<1>1. PICK v \in Vds : SetVd(d, v) /\ (v.phase = "None" \/ v.size = vd[d].size)
  <2> DEFINE w == vd[d]
  <2>0. w \in Vds
    BY Zenon, <1>0 DEF DisksTypeOK
  <2>1. CASE DiskGone(d)
    BY Zenon, <2>1, BlankTypes DEF DiskGone, NoVd
  <2>2. CASE DiskProvisioned(d)
    <3>1. PICK v \in {[w EXCEPT !.phase = "Ready", !.capacity = w.size],
                      [w EXCEPT !.phase = "WaitForFirstConsumer"],
                      [w EXCEPT !.phase = "Failed"]} : SetVd(d, v)
      BY Zenon, <2>2 DEF DiskProvisioned
    <3> HIDE DEF w
    <3>2. v \in Vds /\ v.size = w.size
      BY Zenon, <2>0, <3>1 DEF Vds
    <3> QED BY Zenon, <3>1, <3>2 DEF w
  <2>3. CASE Expanded(d)
    <3>1. PICK v \in {[w EXCEPT !.phase = "Resizing"],
                      [w EXCEPT !.phase = "Ready", !.capacity = w.size]} : SetVd(d, v)
      BY Zenon, <2>3 DEF Expanded
    <3> HIDE DEF w
    <3>2. v \in Vds /\ v.size = w.size
      BY Zenon, <2>0, <3>1 DEF Vds
    <3> QED BY Zenon, <3>1, <3>2 DEF w
  <2> QED BY Zenon, <2>1, <2>2, <2>3
<1>2. /\ vd' \in [Disks -> Vds] /\ vd'[d] = v /\ \A e \in Disks \ {d} : vd'[e] = vd[e]
      /\ stale' \subseteq Callers
  BY Zenon, <1>0, <1>1, SetVdEffect
<1>3. \A e \in Disks : vd[e].size \in Nat
  BY Zenon, <1>0 DEF DisksTypeOK, Vds
<1>4. Grows
  BY <1>1, <1>2, <1>3 DEF Grows
<1>5. DisksTypeOK' /\ CallsAreWhole'
  BY Zenon, <1>0, <1>2 DEF DisksInv, DiskInv, DisksTypeOK, CallsAreWhole
<1>6. UpdatesAreFresh'
  BY Zenon, <1>0, <1>1, UpdatesStay DEF DisksInv
<1>7. SurePolls' /\ MountedBinds' /\ NoneBindsNothing'
  BY Zenon, <1>0, MountsKept
<1> QED BY Zenon, <1>4, <1>5, <1>6, <1>7 DEF DisksInv, DiskInv

\* It takes no attachment away that nobody has deleted.
LEMMA AttachmentControllersStep ==
    ASSUME DisksInv, NEW k \in Keys, Attaches(k) \/ AttachmentGone(k)
    PROVE  DisksInv' /\ Grows
<1>0. DisksTypeOK /\ UNCHANGED <<vd, stale, call, sure, mounted>>
  BY Zenon DEF DisksInv, DiskInv, Attaches, AttachmentGone, history
<1>1. PICK a \in Atts :
        /\ SetAtt(k, a)
        /\ \/ att[k].deleting /\ a = NoAtt
           \/ /\ att[k].phase = "Pending" /\ a.phase \in {"Attached", "Failed"}
              /\ a.binds = att[k].binds /\ a.deleting = att[k].deleting
  <2>1. CASE AttachmentGone(k)
    BY Zenon, <2>1, BlankTypes DEF AttachmentGone
  <2>2. CASE Attaches(k)
    <3> DEFINE w == att[k]
    <3>0. w \in Atts
      BY Zenon, <1>0 DEF DisksTypeOK
    <3>1. PICK a \in {[w EXCEPT !.phase = "Attached"], [w EXCEPT !.phase = "Failed"]} : SetAtt(k, a)
      BY Zenon, <2>2 DEF Attaches
    <3>2. w.phase = "Pending"
      BY Zenon, <2>2 DEF Attaches
    <3> HIDE DEF w
    <3>3. /\ a \in Atts /\ a.phase \in {"Attached", "Failed"}
          /\ a.binds = w.binds /\ a.deleting = w.deleting
      BY Zenon, <3>0, <3>1 DEF Atts
    <3> QED BY Zenon, <3>1, <3>2, <3>3 DEF w
  <2> QED BY Zenon, <2>1, <2>2
<1>2. att' \in [Keys -> Atts] /\ att'[k] = a /\ \A e \in Keys \ {k} : att'[e] = att[e]
  BY Zenon, <1>0, <1>1, SetAttEffect
<1>3. DisksTypeOK' /\ CallsAreWhole'
  BY Zenon, <1>0, <1>2 DEF DisksInv, DiskInv, DisksTypeOK, CallsAreWhole
<1>4. UpdatesAreFresh'
  BY Zenon, <1>0, UpdatesStay DEF DisksInv
<1>5. \A q \in Keys : \A p : Binds(q, p) =>
         att'[q].phase # "None" /\ att'[q].binds = {p} /\ ~att'[q].deleting
  BY Zenon, <1>1, <1>2 DEF Binds
<1>6. SurePolls'
  <2> SUFFICES ASSUME NEW e \in sure, call[e].op = "attach", call[e].at = "poll"
               PROVE  Binds(attachmentName(call[e].disk, call[e].node), <<call[e].disk, call[e].node>>)'
    BY Zenon, <1>0 DEF SurePolls
  <2>1. attachmentName(call[e].disk, call[e].node) \in Keys
    BY Zenon, <1>0, PairHasKey DEF DisksInv, DiskInv, CallsAreWhole, DisksTypeOK
  <2>2. Binds(attachmentName(call[e].disk, call[e].node), <<call[e].disk, call[e].node>>)
    BY Zenon DEF DisksInv, SurePolls
  <2> QED BY Zenon, <1>0, <1>5, <2>1, <2>2 DEF Binds
<1>7. MountedBinds'
  <2> SUFFICES ASSUME NEW p \in mounted
               PROVE  att'[attachmentName(p[1], p[2])] = att[attachmentName(p[1], p[2])]
    BY Zenon, <1>0 DEF DisksInv, MountedBinds, Binds
  <2>1. attachmentName(p[1], p[2]) \in Keys
    BY Zenon, <1>0, MountedHaveKeys DEF DisksTypeOK
  <2> QED BY Zenon, <1>1, <1>2, <2>1 DEF DisksInv, MountedBinds, Binds
<1>8. NoneBindsNothing'
  <2>1. a.phase = "None" => a.binds = {}
    BY <1>1 DEF NoAtt
  <2> QED BY Zenon, <1>2, <2>1 DEF DisksInv, NoneBindsNothing
<1> QED BY Zenon, <1>0, <1>3, <1>4, <1>6, <1>7, <1>8, NothingWritten DEF DisksInv, DiskInv

-----------------------------------------------------------------------------
\* Every step keeps the invariant and shrinks no disk.
LEMMA NextStep == DisksInv /\ [DiskNext]_diskVars => DisksInv' /\ Grows
<1> SUFFICES ASSUME DisksInv, [DiskNext]_diskVars PROVE DisksInv' /\ Grows
  OBVIOUS
<1>1. ASSUME NEW c \in Callers, Operation(c) PROVE DisksInv' /\ Grows
  BY Zenon, <1>1, CreateDiskStep, DeleteDiskStep, ResizeDiskStep, ResizeUpdateStep, AttachDiskStep,
     AttachVerifyStep, DetachDiskStep, PollStep DEF Operation
<1>2. CASE Controllers
  BY Zenon, <1>2, DiskControllersStep, AttachmentControllersStep DEF Controllers
<1>3. CASE UNCHANGED diskVars
  <2>1. UNCHANGED <<vd, att, stale, call, sure, mounted>>
    BY Zenon, <1>3 DEF diskVars, objVars, history
  <2>2. DisksTypeOK' /\ CallsAreWhole' /\ UpdatesAreFresh'
    BY Zenon, <2>1 DEF DisksInv, DiskInv, DisksTypeOK, CallsAreWhole, UpdatesAreFresh
  <2>3. SurePolls' /\ MountedBinds' /\ NoneBindsNothing'
    BY Zenon, <2>1, MountsKept
  <2> QED BY Zenon, <2>1, <2>2, <2>3, NothingWritten DEF DisksInv, DiskInv
<1> QED BY Zenon, <1>1, <1>2, <1>3 DEF DiskNext, OpsFinished

\* However many resizes of a disk run at once, none of them writes a smaller size than
\* the one that is there: ResizeDisk compares with its Get, and its Update is refused
\* when the disk has changed since.
THEOREM SizesGrowHolds == DiskSpec => SizesGrow
<1>1. DisksInv /\ [DiskNext]_diskVars => [\A d \in Disks : vd[d].phase # "None" /\ vd'[d].phase # "None" =>
                                  vd'[d].size >= vd[d].size]_diskVars
  BY Zenon, NextStep DEF Grows
<1> QED BY <1>1, InitDisksInv, NextStep, PTL DEF DiskSpec, SizesGrow

\* A disk that AttachDisk has reported attached is attached to that very node until a
\* pair of the same attachment name is detached, although names of attachments collide
\* and several goroutines attach and detach at once.
THEOREM MountsStayHolds == DiskSpec => []MountsStay
<1>1. DisksInv => MountsStay
  BY Zenon DEF DisksInv, MountedBinds, MountsStay, Binds
<1> QED BY <1>1, InitDisksInv, NextStep, PTL DEF DiskSpec

================================================================================
