--------------------------- MODULE DvpBootstrapProofs ---------------------------
(***************************************************************************)
(* Proofs about Bootstrap of the DVP provider and its last step, the       *)
(* modules.                                                                *)
(*                                                                         *)
(* DvpBootstrap, for any set of joining nodes and any number of commands,  *)
(* failures and kills: connections are closed, dhctl runs once on a clean  *)
(* master, nodes join once, and a Bootstrap that succeeds has delivered    *)
(* the cluster.                                                            *)
(*                                                                         *)
(* ModuleEnable, for every finite set of modules, every dependency graph   *)
(* and any number of failing calls.                                        *)
(***************************************************************************)
EXTENDS DvpBootstrap, ModuleEnable, FiniteSetTheorems, SequenceTheorems, TLAPS

-----------------------------------------------------------------------------
(* Bootstrap and Remove.                                                   *)

BasePlaces == {"provision", "docker", "dockerInfo", "dhctl", "inspect", "dockerWait", "probe",
               "health", "rm", "run", "running", "delSetup", "masterConn"}
MasterPlaces == {"install", "list", "join", "ready", "modules"}
SetupPlaces == {"dockerInfo", "inspect", "dockerWait", "probe", "health", "rm", "run", "running"}
AfterDhctl == {"delSetup", "masterConn", "install", "list", "join", "ready", "modules"}

\* What is open has an owner that will close it: the cleanup stack, the function at this
\* place, or the goroutine that joins the node.
Owned(c) ==
    \/ c = "base" /\ cleanups # <<>>
    \/ c = "master" /\ cleanups = <<"base", "master">>
    \/ c = "setup" /\ place \in SetupPlaces
    \/ c = "probe" /\ place = "health"
    \/ c \in Joiners /\ place = "join" /\ jpc[c] \in {"exec", "script"}

ConnInv ==
    /\ place \in {"off", "connect", "rmConnect"} => cleanups = <<>>
    /\ place \in BasePlaces \cup {"rmVms"} => cleanups = <<"base">>
    /\ place \in MasterPlaces => cleanups = <<"base", "master">>
    /\ cleanups \in {<<>>, <<"base">>, <<"base", "master">>}
    /\ \A c \in conns : Owned(c)

DhctlInv ==
    /\ "mine" \in pulls => place = "running"
    /\ "orphan" \in pulls => outlived
    /\ overHalf => outlived
    /\ place \in AfterDhctl => master = "ready"
    /\ ~outlived =>
         /\ place \in {"probe", "health", "rm", "run"} \cup AfterDhctl => container # "running"
         /\ place \in {"rm", "run"} => master = "clean"
         /\ "mine" \in pulls => master = "clean" /\ container # "running"

Delivered ==
    /\ master = "ready" /\ Joiners \subseteq registered
    /\ \A n \in Joiners : joined[n] = cluster

JoinInv ==
    /\ \A n \in Joiners : joined[n] <= cluster /\ (joined[n] = cluster => n \in registered)
    /\ place = "join" => \A n \in Joiners :
         /\ tries[n] > 0
         /\ jpc[n] \in {"connect", "exec"} /\ joined[n] = cluster => tries[n] > 1 \/ n \in late

-----------------------------------------------------------------------------
(* Types.                                                                  *)

BootTypeOK ==
    /\ jpc \in [Joiners -> {"none", "connect", "exec", "script", "ok", "failed"}]
    /\ tries \in [Joiners -> Nat] /\ joined \in [Joiners -> Nat] /\ orphans \in [Joiners -> Nat]
    /\ cluster \in Nat \ {0} /\ registered \subseteq Joiners
    /\ pulls \subseteq {"mine", "orphan"}

\* The variables keep their types.
LEMMA BootTypeStep == BootTypeOK /\ [BootNext]_bootVars => BootTypeOK'
<1> SUFFICES ASSUME BootTypeOK, [BootNext]_bootVars PROVE BootTypeOK'
  OBVIOUS
<1>0. /\ jpc \in [Joiners -> {"none", "connect", "exec", "script", "ok", "failed"}]
      /\ tries \in [Joiners -> Nat] /\ joined \in [Joiners -> Nat] /\ orphans \in [Joiners -> Nat]
      /\ cluster \in Nat \ {0} /\ registered \subseteq Joiners
      /\ pulls \subseteq {"mine", "orphan"}
  BY Zenon DEF BootTypeOK
<1> USE DEF procVars, vmVars, dockerVars, clusterVars, past, counts, proc, dhctlRest, joinRest, Mishap
<1>1. Bootstrap \/ Remove \/ Unwind \/ ConnectBase \/ Provision \/ ProvisionFails \/ Removed \/ Over
      => UNCHANGED <<jpc, tries, joined, orphans, cluster, registered, pulls>>
  BY Zenon
     DEF Bootstrap, Remove, Unwind, ConnectBase, Provision, ProvisionFails, Removed, Over, bootVars
<1>2. OpenSetup \/ DockerReady \/ Inspect \/ DockerWait \/ Probe \/ Health \/ HalfBootstrapped
      \/ RemoveLeftover \/ DhctlReturns \/ DhctlInstalls \/ DhctlExits
      => UNCHANGED <<jpc, tries, joined, orphans, cluster, registered, pulls>>
  BY Zenon DEF OpenSetup, DockerReady, Inspect, DockerWait, Probe, Health, HalfBootstrapped,
     RemoveLeftover, DhctlReturns, DhctlInstalls, DhctlExits
<1>3. ConnectMaster \/ Install \/ Joined \/ NodesReady \/ EnableModules
      => UNCHANGED <<jpc, tries, joined, orphans, cluster, registered, pulls>>
  BY Zenon DEF ConnectMaster, Install, Joined, NodesReady, EnableModules
<1>4. RequestFails \/ DockerRun \/ DeleteSetup \/ (\E w \in {"mine", "orphan"} : Pulled(w))
      => /\ UNCHANGED <<jpc, tries, joined, orphans, cluster, registered>>
         /\ pulls' \subseteq {"mine", "orphan"}
  BY Zenon, <1>0 DEF RequestFails, DropSession, DockerRun, DeleteSetup, Pulled
<1>5. Killed => BootTypeOK'
  <2>1. Killed => orphans' \in [Joiners -> Nat]
    <3>1. Killed => \/ orphans' = orphans
                    \/ orphans' = [n \in Joiners |-> IF jpc[n] = "script" THEN 1 ELSE orphans[n]]
      BY Zenon DEF Killed
    <3> QED BY <1>0, <3>1
  <2>2. Killed => /\ UNCHANGED <<tries, joined, cluster, registered>>
                  /\ jpc' = [n \in Joiners |-> "none"]
    BY Zenon DEF Killed
  <2>3. Killed => pulls' \subseteq {"mine", "orphan"}
    BY Zenon, <1>0 DEF Killed, DropSession
  <2> QED BY Zenon, <1>0, <2>1, <2>2, <2>3 DEF BootTypeOK
<1>6. ListNodes => BootTypeOK'
  BY <1>0 DEF ListNodes, BootTypeOK
<1>7. ASSUME NEW n \in Joiners
      PROVE  /\ JoinConnect(n) \/ JoinExec(n) \/ JoinOk(n) => BootTypeOK'
             /\ JoinRetry(n) => BootTypeOK'
             /\ JoinFails(n) \/ JoinCancelled(n) => BootTypeOK'
             /\ ScriptJoins(n) => BootTypeOK'
             /\ OrphanEnds(n) => BootTypeOK'
  <2>1. JoinConnect(n) \/ JoinExec(n) \/ JoinOk(n) => BootTypeOK'
    BY Zenon, <1>0 DEF JoinConnect, JoinExec, JoinOk, BootTypeOK
  <2>2. JoinRetry(n) => BootTypeOK'
    BY <1>0 DEF JoinRetry, BootTypeOK
  <2>3. JoinFails(n) \/ JoinCancelled(n) => BootTypeOK'
    <3>1. JoinFails(n) \/ JoinCancelled(n)
          => /\ UNCHANGED <<tries, joined, cluster, registered, pulls>>
             /\ jpc' = [jpc EXCEPT ![n] = "failed"]
             /\ orphans' = orphans \/ orphans' = [orphans EXCEPT ![n] = 1]
      BY Zenon DEF JoinFails, JoinCancelled, GiveUp
    <3>2. orphans' = orphans \/ orphans' = [orphans EXCEPT ![n] = 1] => orphans' \in [Joiners -> Nat]
      BY <1>0
    <3> QED BY Zenon, <1>0, <3>1, <3>2 DEF BootTypeOK
  <2>4. ScriptJoins(n) => BootTypeOK'
    BY <1>0 DEF ScriptJoins, BootTypeOK
  <2>5. OrphanEnds(n) => BootTypeOK'
    BY <1>0 DEF OrphanEnds, BootTypeOK
  <2> QED BY Zenon, <2>1, <2>2, <2>3, <2>4, <2>5
<1>8. ASSUME NEW n \in Nodes
      PROVE  (TeardownVm(n) => BootTypeOK') /\ (TeardownDisk(n) => BootTypeOK')
  <2>1. TeardownVm(n) => BootTypeOK'
    <3>1. TeardownVm(n) => orphans' \in [Joiners -> Nat]
      BY <1>0 DEF TeardownVm, HaltNode
    <3>2. TeardownVm(n) => /\ UNCHANGED <<jpc, tries, joined, cluster, registered>>
                           /\ pulls' \subseteq pulls
      BY Zenon DEF TeardownVm, HaltNode
    <3> QED BY Zenon, <1>0, <3>1, <3>2 DEF BootTypeOK
  <2>2. TeardownDisk(n) => BootTypeOK'
    BY <1>0 DEF TeardownDisk, WipeNode, BootTypeOK
  <2> QED BY Zenon, <2>1, <2>2
<1>9. UNCHANGED bootVars => BootTypeOK'
  BY Zenon DEF bootVars, BootTypeOK
<1>10. UNCHANGED <<jpc, tries, joined, orphans, cluster, registered>> /\ pulls' \subseteq {"mine", "orphan"}
       => BootTypeOK'
  BY Zenon DEF BootTypeOK
<1> QED BY <1>0, <1>1, <1>2, <1>3, <1>4, <1>5, <1>6, <1>7, <1>8, <1>9, <1>10
        DEF BootNext, Process, Dhctls, Installs, Remote, Joining

-----------------------------------------------------------------------------
(* Connections.                                                            *)

\* A sequence of one element, and a second pushed onto it.
LEMMA PushSecond ==
    ASSUME NEW S, NEW s \in Seq(S), NEW t \in Seq(S), NEW e \in S,
           Len(s) = 1, Len(t) = 2, t[1] = s[1], t[2] = e
    PROVE  Append(s, e) = t
<1>1. /\ Append(s, e) \in Seq(S)
      /\ Len(Append(s, e)) = Len(s) + 1
      /\ \A i \in 1 .. Len(s) : Append(s, e)[i] = s[i]
      /\ Append(s, e)[Len(s) + 1] = e
  BY ONLY AppendProperties, s \in Seq(S), e \in S
<1>2. ASSUME NEW a \in Seq(S), Len(a) = Len(s) + 1,
             \A i \in 1 .. Len(s) : a[i] = s[i], a[Len(s) + 1] = e
      PROVE  a = t
  BY <1>2, SeqEqual
<1> QED BY <1>1, <1>2, Zenon

\* The cleanup stack with its two entries.
LEMMA StackPushPop ==
    /\ Append(<<"base">>, "master") = <<"base", "master">>
    /\ SubSeq(<<"base", "master">>, 1, 1) = <<"base">>
<1> DEFINE S == {"base", "master"}
           s == <<"base">>
           t == <<"base", "master">>
           b == SubSeq(t, 1, 1)
<1>1. /\ "base" \in S /\ "master" \in S /\ s \in Seq(S) /\ Len(s) = 1 /\ s[1] = "base"
      /\ t \in Seq(S) /\ Len(t) = 2 /\ t[1] = "base" /\ t[2] = "master"
  OBVIOUS
<1> HIDE DEF S, s, t
<1>2. Append(s, "master") = t
  BY Zenon, <1>1, PushSecond
<1>3. b \in Seq(S) /\ Len(b) = 1 /\ b[1] = "base"
  BY <1>1, SubSeqProperties
<1> HIDE DEF b
<1>4. b = s
  BY <1>1, <1>3, SeqEqual
<1> QED BY Zenon, <1>2, <1>4 DEF b, s, t

\* Opening, closing and handing over connections keeps their owners.
LEMMA ConnStep == BootTypeOK /\ ConnInv /\ [BootNext]_bootVars => ConnInv'
<1> SUFFICES ASSUME BootTypeOK, ConnInv, [BootNext]_bootVars PROVE ConnInv'
  OBVIOUS
<1> USE DEF procVars, vmVars, dockerVars, clusterVars, past, counts, proc, dhctlRest, joinRest, Mishap, Goto, Return
<1>0. /\ place \in {"off", "connect", "rmConnect"} => cleanups = <<>>
      /\ place \in BasePlaces \cup {"rmVms"} => cleanups = <<"base">>
      /\ place \in MasterPlaces => cleanups = <<"base", "master">>
      /\ cleanups \in {<<>>, <<"base">>, <<"base", "master">>}
      /\ \A c \in conns : Owned(c)
      /\ jpc \in [Joiners -> {"none", "connect", "exec", "script", "ok", "failed"}]
  BY Zenon DEF ConnInv, BootTypeOK
<1>1. Bootstrap \/ Remove => ConnInv'
  BY Zenon, <1>0 DEF Bootstrap, Remove, ConnInv, Owned, BasePlaces, MasterPlaces, SetupPlaces
<1>2. Unwind => ConnInv'
  <2>1. CASE cleanups = <<>>
    BY Zenon, <1>0, <2>1 DEF Unwind, ConnInv, Owned, BasePlaces, MasterPlaces, SetupPlaces
  <2>2. CASE cleanups = <<"base">>
    <3>1. SubSeq(cleanups, 1, Len(cleanups) - 1) = <<>> /\ cleanups[Len(cleanups)] = "base"
      BY <2>2
    <3>2. Unwind => place' = "unwind" /\ place = "unwind" /\ cleanups' = <<>> /\ conns' = conns \ {"base"}
      BY Zenon, <2>2, <3>1 DEF Unwind, Close
    <3> QED BY Zenon, <1>0, <2>2, <3>2 DEF ConnInv, Owned, BasePlaces, MasterPlaces, SetupPlaces
  <2>3. CASE cleanups = <<"base", "master">>
    <3>1. SubSeq(cleanups, 1, Len(cleanups) - 1) = <<"base">> /\ cleanups[Len(cleanups)] = "master"
      BY <2>3, StackPushPop
    <3>2. Unwind => /\ place' = "unwind" /\ place = "unwind"
                    /\ cleanups' = <<"base">> /\ conns' = conns \ {"master"}
      BY Zenon, <2>3, <3>1 DEF Unwind, Close
    <3> QED BY <1>0, <2>3, <3>2 DEF ConnInv, Owned, BasePlaces, MasterPlaces, SetupPlaces
  <2> QED BY Zenon, <1>0, <2>1, <2>2, <2>3
<1>3. RequestFails => ConnInv'
  BY Zenon, <1>0 DEF RequestFails, CloseBoth, ConnInv, Owned, BasePlaces, MasterPlaces, SetupPlaces
<1>4. ConnectBase => ConnInv'
  <2>1. ConnectBase => /\ place \in {"connect", "rmConnect"} /\ place' \in {"provision", "rmVms"}
                       /\ cleanups' = Append(<<>>, "base") /\ conns' = conns \cup {"base"}
    BY Zenon, <1>0 DEF ConnectBase, Open, Push
  <2>2. Append(<<>>, "base") = <<"base">>
    OBVIOUS
  <2> QED BY <1>0, <2>1, <2>2 DEF ConnInv, Owned, BasePlaces, MasterPlaces, SetupPlaces
<1>5. Provision \/ ProvisionFails \/ Removed => ConnInv'
  BY Zenon, <1>0
     DEF Provision, ProvisionFails, Removed, ConnInv, Owned, BasePlaces, MasterPlaces, SetupPlaces
<1>6. OpenSetup \/ DockerReady => ConnInv'
  BY Zenon, <1>0
     DEF OpenSetup, DockerReady, Open, Close, ConnInv, Owned, BasePlaces, MasterPlaces, SetupPlaces
<1>7. Inspect \/ DockerWait \/ RemoveLeftover \/ DockerRun => ConnInv'
  BY Zenon, <1>0 DEF Inspect, DockerWait, RemoveLeftover, DockerRun, ConnInv, Owned,
     BasePlaces, MasterPlaces, SetupPlaces
<1>8. Probe => ConnInv'
  BY Zenon, <1>0 DEF Probe, Open, ConnInv, Owned, BasePlaces, MasterPlaces, SetupPlaces
<1>9. Health \/ HalfBootstrapped => ConnInv'
  BY Zenon, <1>0
     DEF Health, HalfBootstrapped, CloseBoth, ConnInv, Owned, BasePlaces, MasterPlaces, SetupPlaces
<1>10. DhctlReturns => ConnInv'
  BY Zenon, <1>0 DEF DhctlReturns, Close, ConnInv, Owned, BasePlaces, MasterPlaces, SetupPlaces
<1>11. DeleteSetup \/ Install \/ NodesReady \/ EnableModules => ConnInv'
  BY Zenon, <1>0 DEF DeleteSetup, Install, NodesReady, EnableModules, ConnInv, Owned,
     BasePlaces, MasterPlaces, SetupPlaces
<1>12. ConnectMaster => ConnInv'
  <2>1. ConnectMaster => /\ place = "masterConn" /\ place' = "install"
                         /\ cleanups' = Append(<<"base">>, "master") /\ conns' = conns \cup {"master"}
    BY Zenon, <1>0 DEF ConnectMaster, Open, Push, BasePlaces
  <2>2. Append(<<"base">>, "master") = <<"base", "master">>
    BY Zenon, StackPushPop
  <2> QED BY <1>0, <2>1, <2>2 DEF ConnInv, Owned, BasePlaces, MasterPlaces, SetupPlaces
<1>13. ListNodes => ConnInv'
  BY Zenon, <1>0 DEF ListNodes, ConnInv, Owned, BasePlaces, MasterPlaces, SetupPlaces
<1>14. Joined => ConnInv'
  BY Zenon, <1>0 DEF Joined, ConnInv, Owned, BasePlaces, MasterPlaces, SetupPlaces
<1>15. Killed => ConnInv'
  BY Zenon DEF Killed, ConnInv, BasePlaces, MasterPlaces
<1>16. ASSUME NEW n \in Joiners, Joining(n) PROVE ConnInv'
  <2>1. JoinConnect(n) \/ JoinOk(n) => ConnInv'
    BY <1>0 DEF JoinConnect, JoinOk, Open, Close, ConnInv, Owned, BasePlaces, MasterPlaces, SetupPlaces
  <2>2. JoinExec(n) \/ JoinRetry(n) => ConnInv'
    BY Zenon, <1>0 DEF JoinExec, JoinRetry, ConnInv, Owned, BasePlaces, MasterPlaces, SetupPlaces
  <2>3. JoinFails(n) \/ JoinCancelled(n) => ConnInv'
    BY Zenon, <1>0 DEF JoinFails, JoinCancelled, GiveUp, Close, ConnInv, Owned,
       BasePlaces, MasterPlaces, SetupPlaces
  <2> QED BY Zenon, <1>16, <2>1, <2>2, <2>3 DEF Joining
<1>17. \/ Remote \/ Over \/ UNCHANGED bootVars
       \/ \E n \in Nodes : TeardownVm(n) \/ TeardownDisk(n)
       \/ \E n \in Joiners : ScriptJoins(n) \/ OrphanEnds(n)
       => UNCHANGED <<place, conns, cleanups, jpc>>
  BY Zenon DEF Remote, Pulled, DhctlInstalls, DhctlExits, Over, bootVars, TeardownVm, TeardownDisk,
     ScriptJoins, OrphanEnds
<1>18. UNCHANGED <<place, conns, cleanups, jpc>> => ConnInv'
  BY Zenon DEF ConnInv, Owned
<1> QED BY Zenon, <1>1, <1>2, <1>3, <1>4, <1>5, <1>6, <1>7, <1>8, <1>9, <1>10, <1>11, <1>12, <1>13,
           <1>14, <1>15, <1>16, <1>17, <1>18
        DEF BootNext, Process, Dhctls, Installs

-----------------------------------------------------------------------------
(* dhctl and the first master.                                             *)

\* Whatever fails or is killed, and whatever goes on without its session, dhctl
\* keeps its master to itself.
LEMMA DhctlStep == DhctlInv /\ [BootNext]_bootVars => DhctlInv'
<1> SUFFICES ASSUME DhctlInv, [BootNext]_bootVars PROVE DhctlInv'
  OBVIOUS
<1> USE DEF procVars, vmVars, dockerVars, clusterVars, past, counts, proc, dhctlRest, joinRest, Mishap, Goto, Return
<1>1. Bootstrap \/ Remove \/ Unwind \/ ConnectBase \/ Provision \/ ProvisionFails \/ Removed
      \/ OpenSetup \/ DockerReady
      => /\ place' \notin {"running", "probe", "health", "rm", "run"} \cup AfterDhctl
         /\ place # "running"
         /\ UNCHANGED <<pulls, outlived, overHalf, master, container>>
  BY Zenon
     DEF Bootstrap, Remove, Unwind, ConnectBase, Provision, ProvisionFails, Removed, OpenSetup,
     DockerReady, AfterDhctl
<1>2. /\ place' \notin {"running", "probe", "health", "rm", "run"} \cup AfterDhctl
      /\ place # "running"
      /\ UNCHANGED <<pulls, outlived, overHalf, master, container>>
      => DhctlInv'
  BY DEF DhctlInv
<1>3. RequestFails \/ Killed => DhctlInv'
  <2>1. RequestFails \/ Killed => place' \in {"unwind", "off"} /\ DropSession
    BY Zenon DEF RequestFails, Killed
  <2>2. place' \in {"unwind", "off"} /\ DropSession => DhctlInv'
    BY DEF DropSession, DhctlInv, AfterDhctl
  <2> QED BY Zenon, <2>1, <2>2
<1>4. Inspect \/ DockerWait \/ Probe => DhctlInv'
  BY DEF Inspect, DockerWait, Probe, DhctlInv, AfterDhctl
<1>5. Health \/ HalfBootstrapped => DhctlInv'
  BY DEF Health, HalfBootstrapped, DhctlInv, AfterDhctl
<1>6. RemoveLeftover \/ DockerRun => DhctlInv'
  BY DEF RemoveLeftover, DockerRun, DhctlInv, AfterDhctl
<1>7. DhctlReturns => DhctlInv'
  BY DEF DhctlReturns, DhctlInv, AfterDhctl
<1>8. DeleteSetup => DhctlInv'
  BY DEF DeleteSetup, DhctlInv, AfterDhctl
<1>9. ConnectMaster \/ Install \/ ListNodes \/ Joined \/ NodesReady \/ EnableModules
      => /\ place \in AfterDhctl /\ place' \in AfterDhctl \cup {"unwind"}
         /\ UNCHANGED <<pulls, outlived, overHalf, master, container>>
  BY Zenon DEF ConnectMaster, Install, ListNodes, Joined, NodesReady, EnableModules, AfterDhctl
<1>10. /\ place \in AfterDhctl /\ place' \in AfterDhctl \cup {"unwind"}
       /\ UNCHANGED <<pulls, outlived, overHalf, master, container>>
       => DhctlInv'
  BY DEF DhctlInv, AfterDhctl
<1>11. ASSUME NEW w \in {"mine", "orphan"}, Pulled(w) PROVE DhctlInv'
  <2>1. /\ w \in pulls /\ pulls' = pulls \ {w} /\ UNCHANGED <<place, master, outlived>>
    BY Zenon, <1>11 DEF Pulled
  <2>4. overHalf' => overHalf \/ master # "clean"
    BY <1>11, Zenon DEF Pulled
  <2>2. CASE w = "orphan"
    BY Zenon, <2>1, <2>2, <2>4 DEF DhctlInv, AfterDhctl
  <2>3. CASE w = "mine"
    BY Zenon, <2>1, <2>3, <2>4 DEF DhctlInv, AfterDhctl
  <2> QED BY Zenon, <2>2, <2>3
<1>12. DhctlInstalls \/ DhctlExits => DhctlInv'
  BY DEF DhctlInstalls, DhctlExits, Dhctl, DhctlInv, AfterDhctl
<1>13. ASSUME NEW n \in Nodes, TeardownVm(n) \/ TeardownDisk(n) PROVE DhctlInv'
  <2>1. /\ place = "rmVms" /\ place' = "rmVms" /\ pulls' \subseteq pulls
        /\ UNCHANGED <<outlived, overHalf>>
    BY Zenon, <1>13 DEF TeardownVm, TeardownDisk, HaltNode, WipeNode
  <2> QED BY Zenon, <2>1 DEF DhctlInv, AfterDhctl
<1>14. \/ Over \/ UNCHANGED bootVars
       \/ \E n \in Joiners : Joining(n) \/ ScriptJoins(n) \/ OrphanEnds(n)
       => UNCHANGED <<place, pulls, outlived, overHalf, master, container>>
  BY Zenon DEF Over, bootVars, Joining, JoinConnect, JoinExec, JoinOk, JoinRetry, JoinFails,
     JoinCancelled, GiveUp, ScriptJoins, OrphanEnds
<1>15. UNCHANGED <<place, pulls, outlived, overHalf, master, container>> => DhctlInv'
  BY DEF DhctlInv
<1> QED BY Zenon, <1>1, <1>2, <1>3, <1>4, <1>5, <1>6, <1>7, <1>8, <1>9, <1>10, <1>11, <1>12, <1>13,
           <1>14, <1>15
        DEF BootNext, Process, Dhctls, Installs, Remote

-----------------------------------------------------------------------------
(* The nodes that join.                                                    *)

\* A node that belongs to the present cluster is registered in it, and no goroutine
\* is about to join it but for a retry or a script that came late.
LEMMA JoinStep == BootTypeOK /\ JoinInv /\ [BootNext]_bootVars => JoinInv'
<1> SUFFICES ASSUME BootTypeOK, JoinInv, [BootNext]_bootVars PROVE JoinInv'
  OBVIOUS
<1> USE DEF procVars, vmVars, dockerVars, clusterVars, past, counts, proc, dhctlRest, joinRest, Mishap, Goto, Return
<1>0. /\ jpc \in [Joiners -> {"none", "connect", "exec", "script", "ok", "failed"}]
      /\ tries \in [Joiners -> Nat] /\ joined \in [Joiners -> Nat]
      /\ cluster \in Nat \ {0} /\ registered \subseteq Joiners
  BY Zenon DEF BootTypeOK
<1>1. Bootstrap \/ Remove \/ Unwind \/ ConnectBase \/ Provision \/ ProvisionFails \/ Removed
      \/ OpenSetup \/ DockerReady \/ RequestFails \/ Killed
      => place' # "join" /\ UNCHANGED <<registered, joined, cluster>>
  BY Zenon
     DEF Bootstrap, Remove, Unwind, ConnectBase, Provision, ProvisionFails, Removed, OpenSetup,
     DockerReady, RequestFails, Killed
<1>2. Inspect \/ DockerWait \/ Probe \/ Health \/ HalfBootstrapped \/ RemoveLeftover
      \/ DockerRun \/ DhctlReturns
      => place' # "join" /\ UNCHANGED <<registered, joined, cluster>>
  BY Zenon
     DEF Inspect, DockerWait, Probe, Health, HalfBootstrapped, RemoveLeftover, DockerRun, DhctlReturns
<1>3. DeleteSetup \/ ConnectMaster \/ Install \/ Joined \/ NodesReady \/ EnableModules
      => place' # "join" /\ UNCHANGED <<registered, joined, cluster>>
  BY Zenon DEF DeleteSetup, ConnectMaster, Install, Joined, NodesReady, EnableModules
<1>4. place' # "join" /\ UNCHANGED <<registered, joined, cluster>> => JoinInv'
  BY Zenon DEF JoinInv
<1>5. ListNodes => JoinInv'
  BY <1>0 DEF ListNodes, JoinInv
<1>6. ASSUME NEW n \in Joiners, Joining(n) PROVE JoinInv'
  <2>1. place = "join" /\ UNCHANGED <<place, registered, joined, cluster, late>>
    BY Zenon, <1>6
       DEF Joining, JoinConnect, JoinExec, JoinOk, JoinRetry, JoinFails, JoinCancelled, GiveUp
  <2>2. \/ jpc[n] = "connect" /\ jpc' = [jpc EXCEPT ![n] = "exec"] /\ tries' = tries
        \/ jpc' = [jpc EXCEPT ![n] = "script"] /\ tries' = tries
        \/ jpc' = [jpc EXCEPT ![n] = "ok"] /\ tries' = tries
        \/ jpc' = [jpc EXCEPT ![n] = "failed"] /\ tries' = tries
        \/ jpc' = [jpc EXCEPT ![n] = "exec"] /\ tries' = [tries EXCEPT ![n] = @ + 1]
    BY Zenon, <1>6
       DEF Joining, JoinConnect, JoinExec, JoinOk, JoinRetry, JoinFails, JoinCancelled, GiveUp
  <2> QED BY <1>0, <2>1, <2>2 DEF JoinInv
<1>7. ASSUME NEW n \in Joiners, ScriptJoins(n) PROVE JoinInv'
  <2>1. /\ registered' = registered \cup {n} /\ joined' = [joined EXCEPT ![n] = cluster]
        /\ late \subseteq late' /\ UNCHANGED <<place, jpc, tries, cluster>>
        /\ place = "join" => jpc[n] = "script" \/ n \in late'
    BY Zenon, <1>7 DEF ScriptJoins
  <2> QED BY <1>0, <2>1 DEF JoinInv
<1>8. ASSUME NEW n \in Nodes, TeardownVm(n) PROVE JoinInv'
  <2>1. place' = "rmVms" /\ UNCHANGED <<registered, joined, cluster>>
    BY Zenon, <1>8 DEF TeardownVm, HaltNode
  <2> QED BY Zenon, <2>1, <1>4
<1>9. ASSUME NEW n \in Nodes, TeardownDisk(n) PROVE JoinInv'
  <2>1. /\ place' = "rmVms"
        /\ joined' = [j \in Joiners |-> IF j = n THEN 0 ELSE joined[j]]
        /\ \/ cluster' = cluster + 1
           \/ cluster' = cluster /\ registered' = registered
    BY Zenon, <1>9 DEF TeardownDisk, WipeNode
  <2> QED BY <1>0, <2>1 DEF JoinInv
<1>10. \/ Remote \/ Over \/ UNCHANGED bootVars \/ \E n \in Joiners : OrphanEnds(n)
       => UNCHANGED <<place, jpc, tries, joined, cluster, registered, late>>
  BY Zenon DEF Remote, Pulled, DhctlInstalls, DhctlExits, Over, bootVars, OrphanEnds
<1>11. UNCHANGED <<place, jpc, tries, joined, cluster, registered, late>> => JoinInv'
  BY Zenon DEF JoinInv
<1> QED BY Zenon, <1>1, <1>2, <1>3, <1>4, <1>5, <1>6, <1>7, <1>8, <1>9, <1>10, <1>11
        DEF BootNext, Process, Dhctls, Installs

-----------------------------------------------------------------------------
(* What a Bootstrap that succeeds has delivered.                           *)

\* waitNodesReady counts nodes, and as many as there should be are all of them.
LEMMA EnoughIsAll ==
    BootTypeOK /\ JoinInv /\ master = "ready" /\ EnoughNodes => Delivered
<1> SUFFICES ASSUME BootTypeOK, JoinInv, master = "ready", EnoughNodes PROVE Delivered
  OBVIOUS
<1> DEFINE R == {n \in registered : joined[n] = cluster /\ n \in vms}
           J == Joiners
<1>1. IsFiniteSet(J) /\ "master" \notin J /\ R \subseteq J
  BY Zenon, BootstrapAssumption DEF BootTypeOK
<1>2. ReadyNodes = R \cup {"master"} /\ "master" \notin R
  BY Zenon, <1>1 DEF ReadyNodes
<1>3. Cardinality(ReadyNodes) >= Cardinality(J) + 1
  BY Zenon DEF EnoughNodes
<1>4. R = J => Delivered
  BY Zenon DEF BootTypeOK, Delivered
<1> HIDE DEF R, J
<1>5. IsFiniteSet(R) /\ Cardinality(R) <= Cardinality(J) /\ (Cardinality(R) = Cardinality(J) => R = J)
  BY Zenon, <1>1, FS_Subset
<1>6. Cardinality(R \cup {"master"}) = Cardinality(R) + 1
  BY Zenon, <1>2, <1>5, FS_AddElement
<1>7. Cardinality(R) \in Nat /\ Cardinality(J) \in Nat
  BY Zenon, <1>1, <1>5, FS_CardinalityType
<1>8. Cardinality(R) = Cardinality(J)
  BY <1>2, <1>3, <1>5, <1>6, <1>7
<1> QED BY Zenon, <1>4, <1>5, <1>8

\* A cluster that is delivered stays so until a disk is deleted.
LEMMA DeliveredStays ==
    /\ BootTypeOK /\ Delivered /\ [BootNext]_bootVars
    /\ ~(\E n \in Nodes : TeardownDisk(n))
    => Delivered'
<1> SUFFICES ASSUME BootTypeOK, Delivered, [BootNext]_bootVars, ~(\E n \in Nodes : TeardownDisk(n))
             PROVE  Delivered'
  OBVIOUS
<1> USE DEF procVars, vmVars, dockerVars, clusterVars, past, counts, proc, dhctlRest, joinRest, Mishap, Goto, Return
<1>1. Bootstrap \/ Remove \/ Unwind \/ ConnectBase \/ Provision \/ ProvisionFails \/ Removed
      \/ RequestFails \/ Killed \/ Over \/ UNCHANGED bootVars
      => UNCHANGED <<master, registered, joined, cluster>>
  BY Zenon
     DEF Bootstrap, Remove, Unwind, ConnectBase, Provision, ProvisionFails, Removed, RequestFails,
     Killed, Over, bootVars
<1>2. Dhctls => UNCHANGED <<master, registered, joined, cluster>>
  BY Zenon DEF Dhctls, OpenSetup, DockerReady, Inspect, DockerWait, Probe, Health, HalfBootstrapped,
     RemoveLeftover, DockerRun, DhctlReturns
<1>3. Installs => UNCHANGED <<master, registered, joined, cluster>>
  BY Zenon
     DEF Installs, DeleteSetup, ConnectMaster, Install, ListNodes, Joined, NodesReady, EnableModules
<1>4. (\E n \in Nodes : TeardownVm(n)) \/ Remote => UNCHANGED <<master, registered, joined, cluster>>
  BY Zenon DEF TeardownVm, HaltNode, Remote, Pulled, DhctlInstalls, DhctlExits, Delivered
<1>5. (\E n \in Joiners : Joining(n) \/ OrphanEnds(n)) => UNCHANGED <<master, registered, joined, cluster>>
  BY Zenon
     DEF Joining, JoinConnect, JoinExec, JoinOk, JoinRetry, JoinFails, JoinCancelled, GiveUp, OrphanEnds
<1>6. ASSUME NEW n \in Joiners, ScriptJoins(n) PROVE Delivered'
  <2>1. /\ UNCHANGED <<master, cluster>> /\ registered' = registered \cup {n}
        /\ joined' = [joined EXCEPT ![n] = cluster]
    BY Zenon, <1>6 DEF ScriptJoins
  <2> QED BY Zenon, <2>1 DEF Delivered, BootTypeOK
<1>7. UNCHANGED <<master, registered, joined, cluster>> => Delivered'
  BY Zenon DEF Delivered
<1> QED BY Zenon, <1>1, <1>2, <1>3, <1>4, <1>5, <1>6, <1>7 DEF BootNext, Process

\* Bootstrap is at a place where it claims to have delivered the cluster.
Claims ==
    \/ place = "modules"
    \/ place = "unwind" /\ result = "ok" /\ outcome = <<"bootstrap", "running">>
    \/ place = "off" /\ outcome = <<"bootstrap", "ok">>

\* The command that runs is the one the outcome names.
CommandInv ==
    /\ place \in BasePlaces \cup MasterPlaces \cup {"connect", "rmConnect", "rmVms", "unwind", "off"}
    /\ place \in BasePlaces \cup MasterPlaces \cup {"connect"} => outcome = <<"bootstrap", "running">>
    /\ place \in {"rmConnect", "rmVms"} => outcome = <<"remove", "running">>
    /\ place = "unwind" => outcome \in {<<"bootstrap", "running">>, <<"remove", "running">>}

DeliverInv == CommandInv /\ (Claims => Delivered)

\* A command keeps its name, and comes to claim success only by counting its nodes.
LEMMA CommandStep ==
    CommandInv /\ [BootNext]_bootVars
    => CommandInv' /\ (Claims' => Claims \/ (place = "ready" /\ EnoughNodes))
<1> SUFFICES ASSUME CommandInv, [BootNext]_bootVars
             PROVE  CommandInv' /\ (Claims' => Claims \/ (place = "ready" /\ EnoughNodes))
  OBVIOUS
<1> DEFINE Goal == CommandInv' /\ (Claims' => Claims \/ (place = "ready" /\ EnoughNodes))
           Before == BasePlaces \cup MasterPlaces \cup {"connect"}
<1> USE DEF procVars, vmVars, dockerVars, clusterVars, past, counts, proc, dhctlRest, joinRest, Mishap, Goto, Return
<1>1. Bootstrap \/ Remove \/ Killed => Goal
  BY DEF Bootstrap, Remove, Killed, CommandInv, Claims, BasePlaces, MasterPlaces
<1>2. Unwind => Goal
  <2>1. Unwind => \/ place = "unwind" /\ UNCHANGED <<place, result, outcome>>
                  \/ place = "unwind" /\ place' = "off" /\ outcome' = <<outcome[1], result>>
    BY Zenon DEF Unwind
  <2>2. place = "unwind" /\ UNCHANGED <<place, result, outcome>> => Goal
    BY Zenon DEF CommandInv, Claims
  <2>3. place = "unwind" /\ place' = "off" /\ outcome' = <<outcome[1], result>> => Goal
    BY DEF CommandInv, Claims, BasePlaces, MasterPlaces
  <2> QED BY Zenon, <2>1, <2>2, <2>3
<1>3. RequestFails \/ ProvisionFails \/ HalfBootstrapped
      => /\ place \in Before \cup {"rmConnect", "rmVms"}
         /\ place' = "unwind" /\ result' = "failed" /\ outcome' = outcome
  BY Zenon DEF RequestFails, ProvisionFails, HalfBootstrapped, CommandInv, BasePlaces, MasterPlaces
<1>4. /\ place \in Before \cup {"rmConnect", "rmVms"}
      /\ place' = "unwind" /\ result' = "failed" /\ outcome' = outcome
      => Goal
  BY Zenon DEF CommandInv, Claims, BasePlaces, MasterPlaces
<1>5. ConnectBase => Goal
  BY Zenon DEF ConnectBase, CommandInv, Claims, BasePlaces, MasterPlaces
<1>6. Provision \/ OpenSetup \/ DockerReady \/ Inspect \/ DockerWait \/ Probe \/ Health
      \/ RemoveLeftover \/ DockerRun
      => place \in Before /\ place' \in BasePlaces /\ outcome' = outcome
  BY Zenon
     DEF Provision, OpenSetup, DockerReady, Inspect, DockerWait, Probe, Health, RemoveLeftover,
     DockerRun, BasePlaces
<1>7. DeleteSetup \/ ConnectMaster \/ Install \/ ListNodes
      => place \in Before /\ place' \in {"masterConn", "install", "list", "join"} /\ outcome' = outcome
  BY Zenon DEF DeleteSetup, ConnectMaster, Install, ListNodes, BasePlaces, MasterPlaces
<1>8. /\ place \in Before /\ place' \in BasePlaces \cup {"masterConn", "install", "list", "join"}
      /\ outcome' = outcome
      => Goal
  BY Zenon DEF CommandInv, Claims, BasePlaces, MasterPlaces
<1>9. DhctlReturns => Goal
  BY Zenon DEF DhctlReturns, CommandInv, Claims, BasePlaces, MasterPlaces
<1>10. Joined => Goal
  BY Zenon DEF Joined, CommandInv, Claims, BasePlaces, MasterPlaces
<1>11. NodesReady \/ EnableModules => Goal
  <2>1. NodesReady => \/ place = "ready" /\ place' = "modules" /\ outcome' = outcome /\ EnoughNodes
                      \/ place = "ready" /\ place' = "unwind" /\ result' = "failed" /\ outcome' = outcome
    BY Zenon DEF NodesReady
  <2>2. EnableModules => place = "modules" /\ place' = "unwind" /\ outcome' = outcome
    BY Zenon DEF EnableModules
  <2> QED BY Zenon, <2>1, <2>2 DEF CommandInv, Claims, BasePlaces, MasterPlaces
<1>12. Removed => Goal
  BY DEF Removed, CommandInv, Claims, BasePlaces, MasterPlaces
<1>13. \/ Remote \/ Over \/ UNCHANGED bootVars
       \/ \E n \in Nodes : TeardownVm(n) \/ TeardownDisk(n)
       \/ \E n \in Joiners : Joining(n) \/ ScriptJoins(n) \/ OrphanEnds(n)
       => UNCHANGED <<place, result, outcome>>
  BY DEF Remote, Pulled, DhctlInstalls, DhctlExits, Over, bootVars, TeardownVm, TeardownDisk,
     ScriptJoins, OrphanEnds, Joining, JoinConnect, JoinExec, JoinOk, JoinRetry, JoinFails,
     JoinCancelled, GiveUp
<1>14. UNCHANGED <<place, result, outcome>> => Goal
  BY Zenon DEF CommandInv, Claims
<1> HIDE DEF Goal, Before
<1>15. Goal
  BY <1>1, <1>2, <1>3, <1>4, <1>5, <1>6, <1>7, <1>8, <1>9, <1>10, <1>11, <1>12, <1>13, <1>14
     DEF BootNext, Process, Dhctls, Installs
<1> QED BY Zenon, <1>15 DEF Goal

\* What Bootstrap claims is so.
LEMMA DeliverStep ==
    BootTypeOK /\ DhctlInv /\ JoinInv /\ DeliverInv /\ [BootNext]_bootVars => DeliverInv'
<1> SUFFICES ASSUME BootTypeOK, DhctlInv, JoinInv, DeliverInv, [BootNext]_bootVars PROVE DeliverInv'
  OBVIOUS
<1>1. CommandInv' /\ (Claims' => Claims \/ (place = "ready" /\ EnoughNodes))
  BY Zenon, CommandStep DEF DeliverInv
<1>2. Claims \/ (place = "ready" /\ EnoughNodes) => Delivered
  BY Zenon, EnoughIsAll DEF DeliverInv, DhctlInv, AfterDhctl
<1>3. ASSUME NEW n \in Nodes, TeardownDisk(n) PROVE ~Claims'
  <2>1. place = "rmVms" /\ place' = "rmVms"
    BY Zenon, <1>3 DEF TeardownDisk, procVars
  <2> QED BY Zenon, <2>1 DEF Claims
<1> QED BY Zenon, <1>1, <1>2, <1>3, DeliveredStays DEF DeliverInv

-----------------------------------------------------------------------------
(* Theorems.                                                               *)

BootInv == BootTypeOK /\ ConnInv /\ DhctlInv /\ JoinInv /\ DeliverInv

\* The inductive invariant: connections have owners, dhctl has its master to itself,
\* nodes of the present cluster are registered, and claims of success are true.
THEOREM BootInvariance == BootSpec => []BootInv
<1>1. BootInit => BootInv
  <2> SUFFICES ASSUME BootInit PROVE BootInv
    OBVIOUS
  <2>1. BootTypeOK
    BY DEF BootInit, BootTypeOK
  <2>2. ConnInv
    BY Zenon DEF BootInit, ConnInv, BasePlaces, MasterPlaces
  <2>3. DhctlInv
    BY Zenon DEF BootInit, DhctlInv, AfterDhctl
  <2>4. JoinInv
    BY DEF BootInit, JoinInv
  <2>5. DeliverInv
    BY Zenon DEF BootInit, DeliverInv, CommandInv, Claims, BasePlaces, MasterPlaces
  <2> QED BY Zenon, <2>1, <2>2, <2>3, <2>4, <2>5 DEF BootInv
<1>2. BootInv /\ [BootNext]_bootVars => BootInv'
  BY Zenon, BootTypeStep, ConnStep, DhctlStep, JoinStep, DeliverStep DEF BootInv
<1> QED BY <1>1, <1>2, PTL DEF BootSpec

\* A command that has returned has closed what it opened, whatever failed
\* (cleanupStack and the closeExec calls).
THEOREM NothingLeaksHolds == BootSpec => []NothingLeaks
<1>1. BootInv => NothingLeaks
  <2> SUFFICES ASSUME BootInv, place = "off" PROVE conns = {} /\ cleanups = <<>>
    BY Zenon DEF NothingLeaks
  <2>1. cleanups = <<>> /\ \A c \in conns : Owned(c)
    BY Zenon DEF BootInv, ConnInv
  <2>2. \A c \in conns : FALSE
    BY Zenon, <2>1 DEF Owned, SetupPlaces
  <2> QED BY Zenon, <2>1, <2>2
<1> QED BY <1>1, BootInvariance, PTL

\* dhctl starts only on a master without a kubeconfig, and the setup node is given up
\* only when the first master is installed, unless a docker run outlived its session
\* (ensureDhctlBootstrapped).
THEOREM DhctlRunsUndisturbedHolds == BootSpec => []DhctlRunsUndisturbed
<1>1. BootInv => DhctlRunsUndisturbed
  BY Zenon DEF BootInv, DhctlInv, AfterDhctl, DhctlRunsUndisturbed
<1> QED BY <1>1, BootInvariance, PTL

\* A Bootstrap that has succeeded has made every node a member of the cluster of the
\* present first master (waitNodesReady).
THEOREM BootstrapDeliversHolds == BootSpec => []BootstrapDelivers
<1>1. BootInv => BootstrapDelivers
  BY Zenon DEF BootInv, DeliverInv, Claims, Delivered, BootstrapDelivers
<1> QED BY <1>1, BootInvariance, PTL

\* The join script is run on a node that belongs to the cluster only in a retry, or
\* when a script without a session has joined it meanwhile (joinNodes).
THEOREM JoinsFreshNodesHolds == BootSpec => JoinsFreshNodes
<1> DEFINE Fresh == \A n \in Joiners : jpc[n] = "exec" /\ jpc'[n] = "script" /\ joined[n] = cluster
                       => tries[n] > 1 \/ n \in late
<1> USE DEF procVars, vmVars, dockerVars, clusterVars, past, counts, proc, dhctlRest, joinRest, Mishap
<1>1. BootInv /\ [BootNext]_bootVars => [Fresh]_bootVars
  <2> SUFFICES ASSUME BootInv, [BootNext]_bootVars, NEW n \in Joiners,
                      jpc[n] = "exec", jpc'[n] = "script", joined[n] = cluster
               PROVE  tries[n] > 1 \/ n \in late
    OBVIOUS
  <2>1. jpc \in [Joiners -> {"none", "connect", "exec", "script", "ok", "failed"}]
    BY Zenon DEF BootInv, BootTypeOK
  <2>2. jpc' # jpc
    OBVIOUS
  <2>3. Bootstrap \/ Remove \/ Process \/ Remote \/ Over \/ UNCHANGED bootVars
        => jpc' = jpc \/ ListNodes
    BY Zenon DEF Bootstrap, Remove, Process, Remote, Over, bootVars, Unwind, ConnectBase, Provision,
       ProvisionFails, Dhctls, OpenSetup, DockerReady, Inspect, DockerWait, Probe, Health,
       HalfBootstrapped, RemoveLeftover, DockerRun, DhctlReturns, Installs, DeleteSetup,
       ConnectMaster, Install, Joined, NodesReady, EnableModules, RequestFails, Removed, TeardownVm,
       TeardownDisk, Pulled, DhctlInstalls, DhctlExits
  <2>4. ListNodes \/ Killed => jpc'[n] # "script"
    BY Zenon DEF ListNodes, Killed
  <2>5. ASSUME NEW m \in Joiners, Joining(m) PROVE place = "join"
    BY Zenon, <2>5 DEF Joining, JoinConnect, JoinExec, JoinOk, JoinRetry, JoinFails, JoinCancelled
  <2>6. ASSUME NEW m \in Joiners, ScriptJoins(m) \/ OrphanEnds(m) PROVE jpc' = jpc
    BY Zenon, <2>6 DEF ScriptJoins, OrphanEnds
  <2>7. place = "join"
    BY Zenon, <2>2, <2>3, <2>4, <2>5, <2>6 DEF BootNext
  <2> QED BY Zenon, <2>7 DEF BootInv, JoinInv
<1> QED BY <1>1, BootInvariance, PTL DEF BootSpec, JoinsFreshNodes

-----------------------------------------------------------------------------
(* Modules.                                                                *)

\* Each module is either still to be sorted or in a level.
Partition ==
    \A m \in Modules : m \in left <=> \A i \in 1..Len(levels) : m \notin levels[i]

\* The indegree map counts the dependencies that are still to be sorted.
Counts ==
    phase \notin {"graph", "rejected"} =>
        \A m \in Modules : /\ deps[m] \subseteq Modules
                           /\ m \in left => indegree[m] = Cardinality(deps[m] \cap left)

\* Where the function is.
Progression ==
    /\ phase \in {"graph", "rejected"} => left = Modules /\ levels = <<>>
    /\ phase \in {"graph", "rejected", "sort", "cycle"} => level = 0 /\ touched = {}
    /\ phase \in {"apply", "ready", "next", "failed"} => left = {} /\ level \in 1..Len(levels)
    /\ phase = "done" => left = {} /\ level = Len(levels)

Complete(i) == i < level \/ (i = level /\ phase \in {"next", "done"})

\* The levels that are behind us.
LevelsComplete ==
    \A i \in 1..Len(levels) : Complete(i) =>
        \A m \in levels[i] : m \in applied /\ (m \in enabled => m \in seen)

\* The goroutines of the current level.
Current ==
    /\ phase = "apply" => \A m \in Level :
          /\ pc[m] \in {"mc", "mpo", "applied"} \cup Failed
          /\ pc[m] = "mpo" => m \in mcs
          /\ pc[m] = "applied" => m \in applied
    /\ phase = "ready" => \A m \in Level :
          /\ m \in applied
          /\ pc[m] \in {"wait", "ok", "failed"}
          /\ pc[m] = "ok" /\ m \in enabled => m \in seen

\* What was touched belongs to a level that was begun; what was applied is there.
Reached == \A m \in touched : \E i \in 1..level : m \in levels[i]
Stored == applied \subseteq touched /\ applied \subseteq mcs /\ (DevRegistry => applied \subseteq mpos)

IInv ==
    /\ TypeOK /\ Partition /\ Counts /\ LevelsRespectDeps /\ CycleErrorIsReal
    /\ Progression /\ LevelsComplete /\ Current /\ Reached /\ Stored

-----------------------------------------------------------------------------
(* Steps of the goroutines leave the sort and the phase alone.             *)

GoroutineStep(m) ==
    /\ m \in Modules /\ m \in Level
    /\ UNCHANGED <<defVars, sortVars, phase, level>>
    /\ \E x : pc' = [pc EXCEPT ![m] = x]
    /\ \/ /\ Writing(m)
          /\ mcs \subseteq mcs' /\ mpos \subseteq mpos' /\ seen' = seen
          /\ touched' \in {touched, touched \cup {m}}
          /\ pc'[m] \in {"mc", "mpo", "applied"} \cup Failed
          /\ pc'[m] = "mpo" => m \in mcs'
          /\ \/ applied' = applied /\ pc'[m] # "applied"
             \/ /\ applied' = applied \cup {m} /\ m \in touched'
                /\ m \in mcs' /\ (DevRegistry => m \in mpos')
       \/ /\ Waiting(m)
          /\ UNCHANGED <<kubeVars, touched, applied>>
          /\ \/ pc'[m] = "failed" /\ seen' = seen
             \/ pc'[m] = "ok" /\ seen' = seen \cup {m}

\* Every statement of a goroutine is such a step.
LEMMA GoroutineSteps ==
    ASSUME TypeOK, Current, NEW m \in Modules, Goroutine(m)
    PROVE  GoroutineStep(m)
<1> USE DEF GoroutineStep, TypeOK, Failed
<1>1. CASE Upsert(m)
  BY Zenon, <1>1 DEF Upsert, Writing, Store, Proceed, Current
<1>2. CASE CallFails(m)
  <2>1. pc' = [pc EXCEPT ![m] = pc'[m]]
    BY Zenon, <1>2 DEF CallFails
  <2> QED BY Zenon, <1>2, <2>1 DEF CallFails, Writing, Store, Current, kubeVars
<1>3. CASE CallRefused(m)
  BY Zenon, <1>3 DEF CallRefused, Writing, kubeVars, history
<1>4. CASE CreateBlindly(m)
  BY <1>4 DEF CreateBlindly, Writing, Store, Proceed, Current, kubeVars
<1>5. CASE Cancelled(m)
  BY Zenon, <1>5 DEF Cancelled, Writing, kubeVars, history
<1>6. CASE PollsReady(m)
  BY Zenon, <1>6 DEF PollsReady, Waiting, kubeVars
<1>7. CASE WaitFails(m)
  BY Zenon, <1>7 DEF WaitFails, Waiting, kubeVars, history
<1> QED BY Zenon, <1>1, <1>2, <1>3, <1>4, <1>5, <1>6, <1>7 DEF Goroutine

-----------------------------------------------------------------------------
(* Types.                                                                  *)

\* The invariant holds at the start.
LEMMA InitInv == Init => IInv
<1> SUFFICES ASSUME Init PROVE IInv OBVIOUS
<1>1. TypeOK
  BY DEF Init, TypeOK
<1>2. Partition /\ LevelsRespectDeps
  BY DEF Init, Partition, LevelsRespectDeps
<1> QED
  BY <1>1, <1>2 DEF Init, IInv, Counts, CycleErrorIsReal, Progression, LevelsComplete, Complete,
                    Current, Reached, Stored

\* Sets of modules are finite, and a set that counts nothing is empty.
LEMMA Counting ==
    ASSUME NEW S, NEW T, S \subseteq Modules, T \subseteq Modules
    PROVE  /\ Cardinality(S) \in Nat
           /\ Cardinality(S \ T) = Cardinality(S) - Cardinality(S \cap T)
           /\ Cardinality(S \cap T) <= Cardinality(S)
           /\ Cardinality(S) = 0 <=> S = {}
<1>1. IsFiniteSet(S)
  BY Zenon, ModulesAssumption, FS_Subset
<1>2. Cardinality(S \ T) = Cardinality(S) - Cardinality(S \cap T)
  BY Zenon, <1>1, FS_Difference
<1>3. Cardinality(S \cap T) <= Cardinality(S)
  <2>1. S \cap T \subseteq S OBVIOUS
  <2> QED BY Zenon, <1>1, <2>1, FS_Subset
<1> QED BY Zenon, <1>1, <1>2, <1>3, FS_CardinalityType, FS_EmptySet

\* One round of the sort keeps the count exact.
LEMMA SortCounts ==
    ASSUME TypeOK, Counts, phase = "sort", NEW m \in left \ Free
    PROVE  /\ indegree[m] - Cardinality(deps[m] \cap Free) \in Nat
           /\ indegree[m] - Cardinality(deps[m] \cap Free) = Cardinality(deps[m] \cap (left \ Free))
<1> DEFINE S == deps[m] \cap left
<1>1. m \in Modules /\ deps[m] \subseteq Modules /\ indegree[m] = Cardinality(S)
  BY Zenon DEF TypeOK, Counts
<1>2. S \subseteq Modules /\ Free \subseteq Modules /\ Free \subseteq left
  BY Zenon, <1>1 DEF TypeOK, Free
<1>3. S \cap Free = deps[m] \cap Free /\ S \ Free = deps[m] \cap (left \ Free)
  BY Zenon, <1>2
<1>4. /\ Cardinality(S) \in Nat /\ Cardinality(S \cap Free) \in Nat
      /\ Cardinality(S \ Free) = Cardinality(S) - Cardinality(S \cap Free)
      /\ Cardinality(S \cap Free) <= Cardinality(S)
  <2> HIDE DEF S
  <2>1. S \cap Free \subseteq Modules BY Zenon, <1>2
  <2> QED BY Zenon, <1>2, <2>1, Counting
<1>5. /\ Cardinality(deps[m] \cap Free) = Cardinality(S \cap Free)
      /\ Cardinality(deps[m] \cap (left \ Free)) = Cardinality(S \ Free)
  BY Zenon, <1>3
<1> HIDE DEF S
<1> QED BY <1>1, <1>4, <1>5

\* Every step keeps the types.
LEMMA TypeStep ==
    ASSUME TypeOK, Counts, Progression, [Next]_vars
    PROVE  TypeOK'
<1> USE EnableBounds DEF TypeOK
<1>1. CASE BuildGraph
  <2>1. \A m \in Modules : deps[m] \subseteq Modules => Cardinality(deps[m]) \in Nat
    BY Zenon, Counting
  <2>2. indegree' \in [Modules -> Nat]
    BY Zenon, <1>1, <2>1 DEF BuildGraph
  <2> QED BY Zenon, <1>1, <2>2 DEF BuildGraph, defVars, kubeVars, history, Ended
<1>2. CASE SortLevel
  <2>1. indegree' \in [Modules -> Nat]
    <3>1. CASE Free = {} BY Zenon, <1>2, <3>1 DEF SortLevel, sortVars
    <3>2. CASE Free # {} BY <1>2, <3>2, SortCounts, ZenonT(30) DEF SortLevel, sortVars
    <3> QED BY Zenon, <3>1, <3>2
  <2>2. Free \in SUBSET Modules BY Zenon DEF Free
  <2>3. levels' \in Seq(SUBSET Modules) /\ Len(levels) <= Len(levels')
    <3>1. CASE levels' = levels BY <3>1
    <3>2. CASE levels' = Append(levels, Free) BY <2>2, <3>2
    <3> QED BY Zenon, <1>2, <3>1, <3>2 DEF SortLevel, sortVars
  <2> QED BY <1>2, <2>1, <2>3 DEF SortLevel, sortVars, defVars, kubeVars, history, Ended
<1>3. CASE BeginLevel
  <2>1. pc' \in [Modules -> {"none", "mc", "mpo", "applied", "wait", "ok"} \cup Failed]
    BY Zenon, <1>3 DEF BeginLevel
  <2> QED BY <1>3, <2>1 DEF BeginLevel, sortVars, defVars, kubeVars, history, Ended
<1>4. CASE LevelApplied
  <2>1. pc' \in [Modules -> {"none", "mc", "mpo", "applied", "wait", "ok"} \cup Failed]
    BY Zenon, <1>4 DEF LevelApplied
  <2> QED BY Zenon, <1>4, <2>1 DEF LevelApplied, sortVars, defVars, kubeVars, history, Ended
<1>5. CASE LevelReady
  BY Zenon, <1>5 DEF LevelReady, sortVars, defVars, kubeVars, history, Ended
<1>6. ASSUME NEW m \in Modules, Goroutine(m) PROVE TypeOK'
  <2> USE <1>6 DEF sortVars, defVars, kubeVars, history, Failed
  <2>1. CASE Upsert(m) BY Zenon, <2>1 DEF Upsert, Store, Proceed
  <2>2. CASE CallFails(m)
    <3>1. mcs' \subseteq Modules /\ mpos' \subseteq Modules /\ touched' \subseteq Modules
      BY Zenon, <2>2 DEF CallFails, Store
    <3>2. attempt' \in [Modules -> Nat] /\ faults' \in Nat
      <4>1. attempt[m] + 1 \in Nat /\ faults' \in Nat
        BY <2>2 DEF CallFails, Fault
      <4>2. attempt' = attempt \/ attempt' = [attempt EXCEPT ![m] = @ + 1]
        BY Zenon, <2>2 DEF CallFails
      <4> QED BY Zenon, <4>1, <4>2
    <3>3. pc' \in [Modules -> {"none", "mc", "mpo", "applied", "wait", "ok"} \cup Failed]
      BY Zenon, <2>2 DEF CallFails
    <3> QED BY Zenon, <2>2, <3>1, <3>2, <3>3 DEF CallFails
  <2>3. CASE CallRefused(m) BY <2>3 DEF CallRefused, Fault
  <2>4. CASE CreateBlindly(m)
    <3>1. /\ mcs' \subseteq Modules /\ mpos' \subseteq Modules
          /\ touched' \subseteq Modules /\ applied' \subseteq Modules
      BY <2>4 DEF CreateBlindly, Store, Proceed
    <3>2. attempt' \in [Modules -> Nat] /\ faults' \in Nat
      BY <2>4 DEF CreateBlindly, Proceed, Fault
    <3>3. pc' \in [Modules -> {"none", "mc", "mpo", "applied", "wait", "ok"} \cup Failed]
      BY Zenon, <2>4 DEF CreateBlindly, Proceed
    <3> QED BY Zenon, <2>4, <3>1, <3>2, <3>3 DEF CreateBlindly
  <2>5. CASE Cancelled(m) BY Zenon, <2>5 DEF Cancelled
  <2>6. CASE PollsReady(m) BY Zenon, <2>6 DEF PollsReady
  <2>7. CASE WaitFails(m) BY Zenon, <2>7 DEF WaitFails
  <2> QED BY Zenon, <2>1, <2>2, <2>3, <2>4, <2>5, <2>6, <2>7 DEF Goroutine
<1>7. CASE UNCHANGED vars
  BY Zenon, <1>7 DEF vars, defVars, sortVars, runVars, kubeVars, history
<1> QED BY Zenon, <1>1, <1>2, <1>3, <1>4, <1>5, <1>6, <1>7 DEF Next, Step, Finished

-----------------------------------------------------------------------------
(* The invariant is inductive.                                             *)

\* The goroutine of one module writes, or waits for, its own module only.
LEMMA GoroutineKeepsInv ==
    ASSUME IInv, TypeOK', NEW m \in Modules, GoroutineStep(m)
    PROVE  IInv'
<1> USE DEF GoroutineStep, defVars, sortVars
<1>1. Partition' /\ Counts' /\ LevelsRespectDeps' /\ CycleErrorIsReal'
  BY Zenon DEF IInv, Partition, Counts, LevelsRespectDeps, CycleErrorIsReal
<1>2. phase \in {"apply", "ready"} /\ level \in 1..Len(levels) /\ m \in levels[level]
  BY Zenon DEF IInv, Progression, Writing, Waiting, Level
<1>3. Progression'
  BY Zenon, <1>2 DEF IInv, Progression
<1>4. applied \subseteq applied' /\ seen \subseteq seen'
  BY Zenon DEF kubeVars
<1>5. LevelsComplete'
  BY Zenon, <1>4 DEF IInv, LevelsComplete, Complete
<1>6. Current'
  <2>1. \A s \in Modules : s # m => pc'[s] = pc[s]
    BY Zenon DEF IInv, TypeOK
  <2>2. mcs \subseteq mcs'
    BY Zenon DEF kubeVars
  <2>3. Level' = Level /\ Level \subseteq Modules
    BY <1>2, SMTT(30) DEF Level, IInv, TypeOK
  <2>4. ASSUME NEW s \in Level, s # m
        PROVE  /\ phase' = "apply" => /\ pc'[s] \in {"mc", "mpo", "applied"} \cup Failed
                                      /\ pc'[s] = "mpo" => s \in mcs'
                                      /\ pc'[s] = "applied" => s \in applied'
               /\ phase' = "ready" => /\ s \in applied'
                                      /\ pc'[s] \in {"wait", "ok", "failed"}
                                      /\ pc'[s] = "ok" /\ s \in enabled' => s \in seen'
    BY Zenon, <1>4, <2>1, <2>2, <2>3, <2>4 DEF IInv, Current
  <2>5. /\ phase' = "apply" => /\ pc'[m] \in {"mc", "mpo", "applied"} \cup Failed
                               /\ pc'[m] = "mpo" => m \in mcs'
                               /\ pc'[m] = "applied" => m \in applied'
        /\ phase' = "ready" => /\ m \in applied'
                               /\ pc'[m] \in {"wait", "ok", "failed"}
                               /\ pc'[m] = "ok" /\ m \in enabled' => m \in seen'
    BY Zenon, <1>2, <1>4 DEF IInv, Current, Writing, Waiting
  <2> QED BY Zenon, <2>3, <2>4, <2>5 DEF Current
<1>7. Reached'
  BY <1>2 DEF IInv, Reached, kubeVars
<1>8. Stored'
  BY Zenon DEF IInv, Stored, kubeVars
<1> QED BY Zenon, <1>1, <1>3, <1>5, <1>6, <1>7, <1>8 DEF IInv

\* A round of the sort takes the modules without a dependency that is left.
LEMMA SortKeepsInv ==
    ASSUME IInv, TypeOK', SortLevel
    PROVE  IInv'
<1> USE DEF SortLevel, defVars, sortVars, kubeVars, history
<1>1. CASE Free = {}
  <2>1. \A m \in left : deps[m] \cap left # {}
    <3> TAKE m \in left
    <3>1. m \in Modules /\ indegree[m] = Cardinality(deps[m] \cap left) /\ indegree[m] # 0
      BY Zenon, <1>1 DEF IInv, TypeOK, Counts, Free
    <3>2. deps[m] \cap left \subseteq Modules BY Zenon DEF IInv, TypeOK
    <3> QED BY Zenon, <3>1, <3>2, Counting
  <2>2. CycleErrorIsReal' BY Zenon, <1>1, <2>1 DEF CycleErrorIsReal
  <2> QED
    BY Zenon, <1>1, <2>2
       DEF IInv, Partition, Counts, LevelsRespectDeps, Progression, LevelsComplete,
                      Complete, Current, Reached, Stored
<1>2. CASE Free # {}
  <2>1. /\ levels' = Append(levels, Free) /\ left' = left \ Free
        /\ phase' = "sort" /\ level' = 0 /\ level = 0 /\ deps' = deps
        /\ levels \in Seq(SUBSET Modules) /\ Free \subseteq left /\ left \subseteq Modules
    BY Zenon, <1>2 DEF IInv, TypeOK, Progression, Free
  <2>2. /\ Len(levels') = Len(levels) + 1 /\ Len(levels) \in Nat
        /\ \A i \in 1..Len(levels) : levels'[i] = levels[i]
        /\ levels'[Len(levels) + 1] = Free
    BY <2>1, SMTT(30)
  <2>3. Partition'
    <3> SUFFICES ASSUME NEW m \in Modules
                 PROVE  m \in left' <=> \A i \in 1..Len(levels') : m \notin levels'[i]
      BY Zenon DEF Partition
    <3>1. m \in left <=> \A i \in 1..Len(levels) : m \notin levels[i]
      BY Zenon DEF IInv, Partition
    <3> QED BY <2>1, <2>2, <3>1
  <2>4. Counts'
    <3> SUFFICES ASSUME NEW m \in Modules
                 PROVE  /\ deps[m] \subseteq Modules
                        /\ m \in left \ Free =>
                              indegree'[m] = Cardinality(deps[m] \cap (left \ Free))
      BY Zenon, <2>1 DEF Counts
    <3>1. deps[m] \subseteq Modules
      BY Zenon DEF IInv, Counts
    <3>2. ASSUME m \in left \ Free
          PROVE  indegree'[m] = Cardinality(deps[m] \cap (left \ Free))
      <4>1. indegree'[m] = indegree[m] - Cardinality(deps[m] \cap Free)
        BY Zenon, <1>2, <3>2
      <4> QED BY Zenon, <3>2, <4>1, SortCounts DEF IInv
    <3> QED BY Zenon, <3>1, <3>2
  <2>5. LevelsRespectDeps'
    <3> SUFFICES ASSUME NEW i \in 1..Len(levels'), NEW m \in levels'[i], NEW d \in deps[m]
                 PROVE  \E j \in 1..(i - 1) : d \in levels'[j]
      BY Zenon, <2>1 DEF LevelsRespectDeps
    <3>1. CASE i \in 1..Len(levels)
      <4>1. \E j \in 1..(i - 1) : d \in levels[j]
        BY Zenon, <2>2, <3>1 DEF IInv, LevelsRespectDeps
      <4> QED BY <2>2, <3>1, <4>1
    <3>2. CASE i = Len(levels) + 1
      <4>1. m \in Free /\ m \in Modules /\ indegree[m] = 0
        BY Zenon, <2>1, <2>2, <3>2 DEF Free
      <4>2. deps[m] \subseteq Modules /\ Cardinality(deps[m] \cap left) = 0
        BY Zenon, <2>1, <4>1 DEF IInv, Counts
      <4>3. deps[m] \cap left = {}
        <5>1. deps[m] \cap left \subseteq Modules BY Zenon, <2>1
        <5> QED BY Zenon, <4>2, <5>1, Counting
      <4>4. \E j \in 1..Len(levels) : d \in levels[j]
        BY Zenon, <4>2, <4>3 DEF IInv, Partition
      <4> QED BY <2>2, <3>2, <4>4
    <3> QED BY <2>2, <3>1, <3>2
  <2>6. Progression' /\ CycleErrorIsReal' /\ Current' /\ Stored'
    BY Zenon, <2>1 DEF IInv, Progression, CycleErrorIsReal, Current, Stored
  <2>7. LevelsComplete' /\ Reached'
    BY <2>1, SMTT(30) DEF IInv, LevelsComplete, Complete, Reached, Progression
  <2> QED BY Zenon, <2>3, <2>4, <2>5, <2>6, <2>7 DEF IInv
<1> QED BY Zenon, <1>1, <1>2

\* Every step keeps the invariant.
LEMMA InvStep ==
    ASSUME IInv, [Next]_vars
    PROVE  IInv'
<1>0. TypeOK'
  BY Zenon, TypeStep DEF IInv
<1>1. CASE BuildGraph
  <2> USE <1>1 DEF BuildGraph, defVars, kubeVars, history
  <2>1. left = Modules /\ levels = <<>> /\ level = 0 /\ touched = {} /\ phase = "graph"
    BY Zenon DEF IInv, Progression
  <2>2. Partition' /\ LevelsRespectDeps' /\ LevelsComplete'
    BY DEF IInv, Partition, LevelsRespectDeps, LevelsComplete, Complete
  <2>3. Counts'
    BY Zenon, <2>1 DEF Counts
  <2> QED
    BY Zenon, <1>0, <2>1, <2>2, <2>3
       DEF IInv, CycleErrorIsReal, Progression, Current, Reached, Stored
<1>2. CASE SortLevel
  BY Zenon, <1>0, <1>2, SortKeepsInv
<1>3. CASE BeginLevel
  <2> USE <1>3 DEF BeginLevel, defVars, sortVars, kubeVars, history
  <2>1. /\ level \in Nat /\ Len(levels) \in Nat /\ levels \in Seq(SUBSET Modules)
        /\ phase \in {"sort", "next"} /\ left = {} /\ level \in 0..Len(levels)
    BY DEF IInv, TypeOK, Progression
  <2>2. Partition' /\ Counts' /\ LevelsRespectDeps' /\ CycleErrorIsReal' /\ Stored'
    BY <2>1, SMTT(30) DEF IInv, Partition, Counts, LevelsRespectDeps, CycleErrorIsReal, Stored
  <2>3. Progression'
    BY <2>1 DEF IInv, Progression
  <2>4. LevelsComplete'
    <3> SUFFICES ASSUME NEW i \in 1..Len(levels), Complete(i)', NEW m \in levels[i]
                 PROVE  m \in applied /\ (m \in enabled => m \in seen)
      BY Zenon DEF LevelsComplete
    <3>1. Complete(i)
      BY <2>1 DEF Complete, IInv, Progression
    <3> QED BY Zenon, <3>1 DEF IInv, LevelsComplete
  <2>5. Current'
    <3>1. CASE phase' = "done" BY Zenon, <3>1 DEF Current
    <3>2. CASE phase' = "apply"
      <4>1. Level' = levels[level + 1] /\ levels[level + 1] \subseteq Modules
        BY <2>1, <3>2 DEF Level
      <4>2. \A m \in levels[level + 1] : pc'[m] = "mc"
        BY Zenon, <3>2, <4>1
      <4> QED BY Zenon, <3>2, <4>1, <4>2 DEF Current
    <3> QED BY Zenon, <3>1, <3>2
  <2>6. Reached'
    BY <2>1 DEF IInv, Reached
  <2> QED BY Zenon, <1>0, <2>2, <2>3, <2>4, <2>5, <2>6 DEF IInv
<1>4. CASE LevelApplied
  <2> USE <1>4 DEF LevelApplied, defVars, sortVars, kubeVars, history
  <2>0. phase = "apply" /\ phase' \in {"failed", "ready"}
    OBVIOUS
  <2>1. Partition' /\ Counts' /\ LevelsRespectDeps' /\ CycleErrorIsReal' /\ Stored' /\ Reached'
    <3> HIDE <1>4
    <3>1. UNCHANGED <<deps, enabled, left, indegree, levels, level, mcs, mpos, touched, applied>>
      BY Zenon, <1>4
    <3> QED
      BY Zenon, <2>0, <3>1
         DEF IInv, Partition, Counts, LevelsRespectDeps, CycleErrorIsReal, Stored, Reached
  <2>2. Progression'
    BY Zenon DEF IInv, Progression
  <2>3. LevelsComplete'
    BY Zenon DEF IInv, LevelsComplete, Complete
  <2>4. Current'
    <3>1. CASE phase' = "failed" BY Zenon, <3>1 DEF Current
    <3>2. CASE phase' = "ready"
      <4>1. Level' = Level /\ Level \subseteq Modules
        BY DEF Level, IInv, TypeOK, Progression
      <4>2. \A m \in Level : pc'[m] = IF m \in enabled THEN "wait" ELSE "ok"
        BY Zenon, <3>2, <4>1
      <4>3. \A m \in Level : m \in applied
        BY Zenon, <3>2 DEF IInv, Current
      <4> QED BY Zenon, <3>2, <4>1, <4>2, <4>3 DEF Current
    <3> QED BY Zenon, <3>1, <3>2
  <2> QED BY Zenon, <1>0, <2>1, <2>2, <2>3, <2>4 DEF IInv
<1>5. CASE LevelReady
  <2> USE <1>5 DEF LevelReady, defVars, sortVars, kubeVars, history
  <2>0. phase = "ready" /\ phase' \in {"failed", "next"}
    OBVIOUS
  <2>1. Partition' /\ Counts' /\ LevelsRespectDeps' /\ CycleErrorIsReal' /\ Stored' /\ Reached'
    <3> HIDE <1>5
    <3>1. UNCHANGED <<deps, enabled, left, indegree, levels, level, mcs, mpos, touched, applied>>
      BY Zenon, <1>5
    <3> QED
      BY Zenon, <2>0, <3>1
         DEF IInv, Partition, Counts, LevelsRespectDeps, CycleErrorIsReal, Stored, Reached
  <2>2. Progression' /\ Current'
    BY Zenon DEF IInv, Progression, Current
  <2>3. LevelsComplete'
    <3> SUFFICES ASSUME NEW i \in 1..Len(levels), Complete(i)', NEW m \in levels[i]
                 PROVE  m \in applied /\ (m \in enabled => m \in seen)
      BY Zenon DEF LevelsComplete
    <3>1. CASE i < level
      BY Zenon, <3>1 DEF IInv, LevelsComplete, Complete
    <3>2. CASE i = level /\ phase' = "next"
      <4>1. m \in Level /\ pc[m] \notin Failed /\ pc[m] # "wait"
        BY Zenon, <3>2 DEF Level
      <4> QED BY Zenon, <4>1 DEF IInv, Current, Failed
    <3> QED BY Zenon, <3>1, <3>2 DEF Complete
  <2> QED BY Zenon, <1>0, <2>1, <2>2, <2>3 DEF IInv
<1>6. ASSUME NEW m \in Modules, Goroutine(m) PROVE IInv'
  BY Zenon, <1>0, <1>6, GoroutineSteps, GoroutineKeepsInv DEF IInv
<1>7. CASE UNCHANGED vars
  <2>0. UNCHANGED <<deps, enabled, left, indegree, levels, phase, level, pc, mcs, mpos, touched,
                    applied, seen>>
    BY Zenon, <1>7 DEF vars, defVars, sortVars, runVars, kubeVars, history
  <2>1. Partition' /\ Counts' /\ LevelsRespectDeps' /\ CycleErrorIsReal'
    BY Zenon, <2>0 DEF IInv, Partition, Counts, LevelsRespectDeps, CycleErrorIsReal
  <2>2. Progression' /\ LevelsComplete' /\ Current'
    BY Zenon, <2>0 DEF IInv, Progression, LevelsComplete, Complete, Current, Level
  <2>3. Reached' /\ Stored'
    BY Zenon, <2>0 DEF IInv, Reached, Stored
  <2> QED BY Zenon, <1>0, <2>1, <2>2, <2>3 DEF IInv
<1> QED BY Zenon, <1>1, <1>2, <1>3, <1>4, <1>5, <1>6, <1>7 DEF Next, Step, Finished

-----------------------------------------------------------------------------
(* The theorems.                                                           *)

\* The inductive invariant holds in every reachable state.
THEOREM Invariance == Spec => []IInv
<1>1. Init => IInv BY Zenon, InitInv
<1>2. IInv /\ [Next]_vars => IInv' BY Zenon, InvStep
<1> QED BY <1>1, <1>2, PTL DEF Spec

\* For every graph buildModuleLevels puts dependencies into earlier levels.
THEOREM LevelsRespectDepsHolds == Spec => []LevelsRespectDeps
<1>1. IInv => LevelsRespectDeps BY Zenon DEF IInv
<1> QED BY <1>1, Invariance, PTL

\* For every graph a circular dependency is reported only if there is one.
THEOREM CycleErrorIsRealHolds == Spec => []CycleErrorIsReal
<1>1. IInv => CycleErrorIsReal BY Zenon DEF IInv
<1> QED BY <1>1, Invariance, PTL

\* What has been touched has its dependencies behind it.
LEMMA DepsBehind ==
    ASSUME IInv, NEW i \in 1..Len(levels), i <= level, NEW m \in levels[i], NEW d \in deps[m]
    PROVE  \E j \in 1..Len(levels) : j < level /\ d \in levels[j]
<1>1. PICK j \in 1..(i - 1) : d \in levels[j]
  BY Zenon DEF IInv, LevelsRespectDeps
<1>2. level \in Nat /\ Len(levels) \in Nat
  BY DEF IInv, TypeOK
<1> QED BY <1>1, <1>2

\* No module is touched before its dependencies are applied and seen Ready.
THEOREM DepsSeenReadyHolds == Spec => []DepsSeenReady
<1>1. IInv => DepsSeenReady
  <2> SUFFICES ASSUME IInv, NEW m \in touched, NEW d \in deps[m]
               PROVE  d \in applied /\ (d \in enabled => d \in seen)
    BY Zenon DEF DepsSeenReady
  <2>1. PICK i \in 1..level : m \in levels[i]
    BY Zenon DEF IInv, Reached
  <2>2. i \in 1..Len(levels) /\ i <= level
    BY DEF IInv, TypeOK
  <2>3. PICK j \in 1..Len(levels) : j < level /\ d \in levels[j]
    BY Zenon, <2>1, <2>2, DepsBehind
  <2> QED BY Zenon, <2>3 DEF IInv, LevelsComplete, Complete
<1> QED BY <1>1, Invariance, PTL

\* When the function returns without an error everything is configured and ready.
THEOREM DoneMeansReadyHolds == Spec => []DoneMeansReady
<1>1. IInv => DoneMeansReady
  <2> SUFFICES ASSUME IInv, phase = "done"
               PROVE  /\ applied = Modules /\ enabled \subseteq seen
                      /\ Modules \subseteq mcs /\ (DevRegistry => Modules \subseteq mpos)
    BY Zenon DEF DoneMeansReady
  <2>1. \A m \in Modules : m \in applied /\ (m \in enabled => m \in seen)
    <3> TAKE m \in Modules
    <3>1. PICK i \in 1..Len(levels) : m \in levels[i]
      BY Zenon DEF IInv, Partition, Progression
    <3>2. Complete(i)
      BY DEF IInv, TypeOK, Progression, Complete
    <3> QED BY Zenon, <3>1, <3>2 DEF IInv, LevelsComplete
  <2> QED BY Zenon, <2>1 DEF IInv, TypeOK, Stored
<1> QED BY <1>1, Invariance, PTL

-----------------------------------------------------------------------------
(* Refinement of DependencyOrder.                                          *)

\* Enabling modules implements the abstract order: the modules touched are the
\* started ones, those of the completed levels the finished ones.
THEOREM Refinement == Spec => ImplementsOrder
<1> USE DEF Order!vars
<1>1. Init => Order!Init
  BY DEF Init, Order!Init, FinishedModules
<1>2. IInv /\ [Next]_vars => [Order!Next]_(Order!vars)
  <2> SUFFICES ASSUME IInv, [Next]_vars
               PROVE  Order!Next \/ UNCHANGED <<deps, touched, FinishedModules>>
    OBVIOUS
  <2> USE DEF defVars, sortVars, kubeVars, history
  <2>0. /\ levels \in Seq(SUBSET Modules) /\ level \in Nat /\ Len(levels) \in Nat
        /\ level <= Len(levels) /\ touched \subseteq Modules
    BY DEF IInv, TypeOK
  <2>1. CASE BuildGraph \/ SortLevel
    <3>1. level = 0 /\ level' = 0 /\ phase \notin {"next", "done"} /\ phase' \notin {"next", "done"}
      BY Zenon, <2>1 DEF BuildGraph, SortLevel, IInv, Progression
    <3>2. FinishedModules = {} /\ FinishedModules' = {}
      BY <2>0, <3>1 DEF FinishedModules
    <3> QED BY Zenon, <2>1, <3>2 DEF BuildGraph, SortLevel
  <2>2. CASE BeginLevel
    <3>1. \A j \in 1..Len(levels) :
             (j < level \/ (j = level /\ phase \in {"next", "done"})) <=>
             (j < level' \/ (j = level' /\ phase' \in {"next", "done"}))
      BY <2>0, <2>2 DEF BeginLevel, IInv, Progression
    <3>2. FinishedModules' = FinishedModules
      BY Zenon, <2>2, <3>1 DEF FinishedModules, BeginLevel
    <3> QED BY Zenon, <2>2, <3>2 DEF BeginLevel
  <2>3. CASE LevelApplied
    <3>1. FinishedModules' = FinishedModules
      BY Zenon, <2>3 DEF FinishedModules, LevelApplied
    <3> QED BY Zenon, <2>3, <3>1 DEF LevelApplied
  <2>4. CASE LevelReady
    <3>0. phase = "ready" /\ level \in 1..Len(levels)
      BY Zenon, <2>4 DEF LevelReady, IInv, Progression
    <3>1. CASE phase' = "failed"
      <4>1. FinishedModules' = FinishedModules
        BY Zenon, <2>4, <3>0, <3>1 DEF FinishedModules, LevelReady
      <4> QED BY Zenon, <2>4, <4>1 DEF LevelReady
    <3>2. CASE phase' = "next"
      <4>1. FinishedModules' = FinishedModules \cup levels[level]
        BY Zenon, <2>0, <2>4, <3>0, <3>2 DEF FinishedModules, LevelReady
      <4>2. levels[level] \subseteq touched
        BY Zenon, <2>4, <3>0 DEF IInv, Current, Stored, Level
      <4>3. Order!Finish(levels[level])
        BY Zenon, <2>4, <4>1, <4>2 DEF Order!Finish, LevelReady
      <4> QED BY Zenon, <2>0, <4>2, <4>3 DEF Order!Next
    <3> QED BY Zenon, <2>4, <3>1, <3>2 DEF LevelReady
  <2>5. ASSUME NEW m \in Modules, Goroutine(m)
        PROVE  Order!Next \/ UNCHANGED <<deps, touched, FinishedModules>>
    <3>1. GoroutineStep(m)
      BY Zenon, <2>5, GoroutineSteps DEF IInv
    <3>2. FinishedModules' = FinishedModules /\ deps' = deps
      BY <3>1, SMTT(30) DEF GoroutineStep, FinishedModules
    <3>3. CASE touched' = touched BY Zenon, <3>2, <3>3
    <3>4. CASE touched' = touched \cup {m}
      <4>1. level \in 1..Len(levels) /\ m \in levels[level]
        BY Zenon, <3>1 DEF GoroutineStep, Writing, Waiting, IInv, Progression, Level
      <4>2. deps[m] \subseteq FinishedModules
        <5> SUFFICES ASSUME NEW d \in deps[m] PROVE d \in FinishedModules OBVIOUS
        <5>1. PICK j \in 1..Len(levels) : j < level /\ d \in levels[j]
          BY <2>0, <4>1, DepsBehind
        <5> QED BY Zenon, <5>1 DEF FinishedModules
      <4>3. Order!Start(m)
        BY Zenon, <3>2, <3>4, <4>2 DEF Order!Start
      <4> QED BY Zenon, <4>3 DEF Order!Next
    <3> QED BY Zenon, <3>1, <3>3, <3>4 DEF GoroutineStep, kubeVars
  <2>6. CASE UNCHANGED vars
    BY Zenon, <2>6 DEF vars, runVars, FinishedModules
  <2> QED BY Zenon, <2>1, <2>2, <2>3, <2>4, <2>5, <2>6 DEF Next, Step, Finished
<1> QED BY <1>1, <1>2, Invariance, PTL DEF Spec, ImplementsOrder, Order!Spec

=================================================================================
