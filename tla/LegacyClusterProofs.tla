-------------------------- MODULE LegacyClusterProofs --------------------------
(***************************************************************************)
(* Proofs about LegacyCluster, for any number of processes, runs and       *)
(* faults, any nodes and settings: of runs that share a cluster one uses   *)
(* it at a time, a run that ends releases its lock, and it closes what it  *)
(* has opened, but for what the error paths are known to forget.           *)
(***************************************************************************)
EXTENDS LegacyCluster, TLAPS

\* A leaf is for Zenon, unless it names another prover.
USE Zenon

-----------------------------------------------------------------------------
(* Programs.                                                               *)

\* What a concatenation is.
LEMMA Concat ==
    ASSUME NEW S, NEW a \in Seq(S), NEW b \in Seq(S)
    PROVE  /\ a \o b \in Seq(S) /\ Len(a \o b) = Len(a) + Len(b)
           /\ \A i \in 1 .. Len(a) + Len(b) : (a \o b)[i] = IF i <= Len(a) THEN a[i] ELSE b[i - Len(a)]
BY SMT

\* q is a, then b, then c.
Joins(q, a, b, c) ==
    /\ DOMAIN q = 1 .. Len(q) /\ Len(q) = Len(a) + 1 + Len(c)
    /\ \A i \in 1 .. Len(a) : q[i] = a[i]
    /\ q[Len(a) + 1] = b
    /\ \A i \in 1 .. Len(c) : q[Len(a) + 1 + i] = c[i]

\* Two sequences with one element between them.
LEMMA Concat3 ==
    ASSUME NEW S, NEW a \in Seq(S), NEW b \in S, NEW c \in Seq(S)
    PROVE  Joins(a \o <<b>> \o c, a, b, c)
<1> DEFINE t == <<b>>  u == a \o t
<1>1. t \in Seq(S) /\ Len(t) = 1 /\ t[1] = b
  BY SMT
<1> HIDE DEF t
<1>2. /\ u \in Seq(S) /\ Len(u) = Len(a) + Len(t)
      /\ \A i \in 1 .. Len(a) + Len(t) : u[i] = IF i <= Len(a) THEN a[i] ELSE t[i - Len(a)]
  BY <1>1, Concat
<1> HIDE DEF u
<1>3. /\ u \o c \in Seq(S) /\ Len(u \o c) = Len(u) + Len(c)
      /\ \A i \in 1 .. Len(u) + Len(c) : (u \o c)[i] = IF i <= Len(u) THEN u[i] ELSE c[i - Len(u)]
  <2>1. u \in Seq(S)
    BY <1>2
  <2> QED BY <2>1, Concat
<1> DEFINE q == u \o c
<1>4. /\ q \in Seq(S) /\ Len(q) = Len(u) + Len(c)
      /\ \A i \in 1 .. Len(u) + Len(c) : q[i] = IF i <= Len(u) THEN u[i] ELSE c[i - Len(u)]
  BY <1>3
<1> HIDE DEF q
<1>5. Len(a) \in Nat /\ Len(c) \in Nat
  BY SMT
<1>6. /\ q \in Seq(S) /\ Len(q) = Len(a) + 1 + Len(c)
      /\ \A i \in 1 .. Len(a) : q[i] = a[i]
      /\ q[Len(a) + 1] = b
      /\ \A i \in 1 .. Len(c) : q[Len(a) + 1 + i] = c[i]
  <2>1. Len(u) = Len(a) + 1
    BY SMT, <1>1, <1>2
  <2>2. q \in Seq(S) /\ Len(q) = Len(a) + 1 + Len(c)
    BY SMT, <1>4, <1>5, <2>1
  <2>3. ASSUME NEW i \in 1 .. Len(a) PROVE q[i] = a[i]
    <3>1. i \in 1 .. Len(a) + Len(t) /\ i \in 1 .. Len(u) + Len(c) /\ i <= Len(u) /\ i <= Len(a)
      BY SMT, <1>1, <1>5, <2>1
    <3> QED BY <3>1, <1>2, <1>4
  <2>4. q[Len(a) + 1] = b
    <3> DEFINE i == Len(a) + 1
    <3>1. /\ i \in 1 .. Len(a) + Len(t) /\ i \in 1 .. Len(u) + Len(c) /\ i <= Len(u)
          /\ ~ (i <= Len(a)) /\ i - Len(a) = 1
      BY SMT, <1>1, <1>5, <2>1
    <3> HIDE DEF i
    <3>2. q[i] = t[i - Len(a)]
      BY <3>1, <1>2, <1>4
    <3> QED BY <3>1, <3>2, <1>1 DEF i
  <2>5. ASSUME NEW j \in 1 .. Len(c) PROVE q[Len(a) + 1 + j] = c[j]
    <3> DEFINE i == Len(a) + 1 + j
    <3>1. i \in 1 .. Len(u) + Len(c) /\ ~ (i <= Len(u)) /\ i - Len(u) = j
      BY SMT, <1>5, <2>1
    <3> HIDE DEF i
    <3> QED BY <3>1, <1>4 DEF i
  <2> QED BY <2>2, <2>3, <2>4, <2>5
<1>7. DOMAIN q = 1 .. Len(q)
  BY SMT, <1>6
<1> QED BY <1>6, <1>7 DEF Joins, q, u, t

\* The ways to get a cluster.
LEMMA KindsAre == Kinds = {"create", "resume", "existing", "jump", "provider", "commander"}
BY SMT DEF Kinds, CreateOrConnectToTestCluster

\* A program: get the cluster, use it, clean up.
LEMMA ProgramIs ==
    ASSUME NEW k \in Kinds
    PROVE  Program[k] = CreateOrConnectToTestCluster[k] \o <<"use">> \o CleanupTestClusterResources[k]
BY DEF Program

\* What a run does that builds its cluster.
LEMMA CreateProgram ==
    LET q == Program["create"] IN
       /\ DOMAIN q = 1 .. 24 /\ Len(q) = 24
       /\ q[1] = "base" /\ q[2] = "conflicts" /\ q[3] = "images" /\ q[4] = "machines"
       /\ q[5] = "running" /\ q[6] = "gather" /\ q[7] = "save" /\ q[8] = "setup"
       /\ q[9] = "docker" /\ q[10] = "prepare" /\ q[11] = "upload" /\ q[12] = "connYAML"
       /\ q[13] = "dhctl" /\ q[14] = "connect" /\ q[15] = "nodeGroup" /\ q[16] = "join"
       /\ q[17] = "joined" /\ q[18] = "modules" /\ q[19] = "ready" /\ q[20] = "use"
       /\ q[21] = "close" /\ q[22] = "removeSetup" /\ q[23] = "removeAll"
       /\ q[24] = "closeBase"
<1> DEFINE S == {"base", "conflicts", "images", "machines", "running", "gather", "save",
                 "setup", "docker", "prepare", "upload", "connYAML", "dhctl", "connect",
                 "nodeGroup", "join", "joined", "modules", "ready", "use", "close",
                 "removeSetup", "removeAll", "closeBase"}
           a == <<"base", "conflicts", "images", "machines", "running", "gather", "save",
                  "setup", "docker", "prepare", "upload", "connYAML", "dhctl", "connect",
                  "nodeGroup", "join", "joined", "modules", "ready">>
           c == <<"close", "removeSetup", "removeAll", "closeBase">>
           q == a \o <<"use">> \o c
<1>1. a \in Seq(S) /\ Len(a) = 19
  BY SMT
<1>2. c \in Seq(S) /\ Len(c) = 4
  BY SMT
<1>3. Program["create"] = q
  BY ProgramIs, KindsAre
     DEF CreateOrConnectToTestCluster, CleanupTestClusterResources, CreateTestCluster, CleanupTestCluster
<1>4. Joins(q, a, "use", c)
  <2>1. "use" \in S
    OBVIOUS
  <2> HIDE DEF S, a, c
  <2> QED BY <1>1, <1>2, <2>1, Concat3
<1> HIDE DEF q, S
<1> QED BY SMT, <1>1, <1>2, <1>3, <1>4 DEF Joins

\* What one does that resumes another.
LEMMA ResumeProgram ==
    LET q == Program["resume"] IN
       /\ DOMAIN q = 1 .. 9 /\ Len(q) = 9
       /\ q[1] = "base" /\ q[2] = "saved" /\ q[3] = "connect" /\ q[4] = "ready"
       /\ q[5] = "use" /\ q[6] = "close" /\ q[7] = "removeSetup" /\ q[8] = "removeAll"
       /\ q[9] = "closeBase"
<1> DEFINE S == {"base", "saved", "connect", "ready", "use", "close", "removeSetup",
                 "removeAll", "closeBase"}
           a == <<"base", "saved", "connect", "ready">>
           c == <<"close", "removeSetup", "removeAll", "closeBase">>
           q == a \o <<"use">> \o c
<1>1. a \in Seq(S) /\ Len(a) = 4
  BY SMT
<1>2. c \in Seq(S) /\ Len(c) = 4
  BY SMT
<1>3. Program["resume"] = q
  BY SMTT(20), ProgramIs, KindsAre
     DEF CreateOrConnectToTestCluster, CleanupTestClusterResources, Resume, CleanupTestCluster
<1>4. Joins(q, a, "use", c)
  <2>1. "use" \in S
    OBVIOUS
  <2> HIDE DEF S, a, c
  <2> QED BY <1>1, <1>2, <2>1, Concat3
<1> HIDE DEF q, S
<1> QED BY SMT, <1>1, <1>2, <1>3, <1>4 DEF Joins

\* What one does with a cluster that exists.
LEMMA ExistingProgram ==
    LET q == Program["existing"] IN
       /\ DOMAIN q = 1 .. 6 /\ Len(q) = 6
       /\ q[1] = "connect" /\ q[2] = "lock" /\ q[3] = "health" /\ q[4] = "use"
       /\ q[5] = "unlock" /\ q[6] = "close"
<1> DEFINE S == {"connect", "lock", "health", "use", "unlock", "close"}
           a == <<"connect", "lock", "health">>
           c == <<"unlock", "close">>
           q == a \o <<"use">> \o c
<1>1. a \in Seq(S) /\ Len(a) = 3
  BY SMT
<1>2. c \in Seq(S) /\ Len(c) = 2
  BY SMT
<1>3. Program["existing"] = q
  BY SMTT(20), ProgramIs, KindsAre
     DEF CreateOrConnectToTestCluster, CleanupTestClusterResources, UseExistingCluster, CleanupExistingCluster
<1>4. Joins(q, a, "use", c)
  <2>1. "use" \in S
    OBVIOUS
  <2> HIDE DEF S, a, c
  <2> QED BY <1>1, <1>2, <2>1, Concat3
<1> HIDE DEF q, S
<1> QED BY SMT, <1>1, <1>2, <1>3, <1>4 DEF Joins

\* The same through SSH_JUMP_HOST.
LEMMA JumpProgram ==
    LET q == Program["jump"] IN
       /\ DOMAIN q = 1 .. 7 /\ Len(q) = 7
       /\ q[1] = "connect" /\ q[2] = "lock" /\ q[3] = "health" /\ q[4] = "base"
       /\ q[5] = "use" /\ q[6] = "unlock" /\ q[7] = "close"
<1> DEFINE S == {"connect", "lock", "health", "base", "use", "unlock", "close"}
           b == <<"connect", "lock", "health">>
           a == b \o <<"base">>
           c == <<"unlock", "close">>
           q == a \o <<"use">> \o c
<1>1. /\ a \in Seq(S) /\ Len(a) = 4
      /\ a[1] = "connect" /\ a[2] = "lock" /\ a[3] = "health" /\ a[4] = "base"
  <2>1. b \in Seq(S) /\ <<"base">> \in Seq(S)
    BY SMT
  <2> QED BY SMT, <2>1, Concat
<1>2. c \in Seq(S) /\ Len(c) = 2
  BY SMT
<1>3. Program["jump"] = q
  BY SMT, ProgramIs, KindsAre
     DEF CreateOrConnectToTestCluster, CleanupTestClusterResources, UseExistingClusterJump,
         CleanupExistingCluster, UseExistingCluster
<1>4. Joins(q, a, "use", c)
  <2>1. "use" \in S
    OBVIOUS
  <2> HIDE DEF S, a, c
  <2> QED BY <1>1, <1>2, <2>1, Concat3
<1> HIDE DEF q, S, a
<1> QED BY SMT, <1>1, <1>2, <1>3, <1>4 DEF Joins

\* The same through a provider.
LEMMA ProviderProgram ==
    LET q == Program["provider"] IN
       /\ DOMAIN q = 1 .. 6 /\ Len(q) = 6
       /\ q[1] = "connect" /\ q[2] = "lock" /\ q[3] = "health" /\ q[4] = "use"
       /\ q[5] = "unlock" /\ q[6] = "close"
<1> DEFINE S == {"connect", "lock", "health", "use", "unlock", "close"}
           a == <<"connect", "lock", "health">>
           c == <<"unlock", "close">>
           q == a \o <<"use">> \o c
<1>1. a \in Seq(S) /\ Len(a) = 3
  BY SMT
<1>2. c \in Seq(S) /\ Len(c) = 2
  BY SMT
<1>3. Program["provider"] = q
  BY SMT, ProgramIs, KindsAre
     DEF CreateOrConnectToTestCluster, CleanupTestClusterResources, connectViaProvider, CleanupExistingCluster
<1>4. Joins(q, a, "use", c)
  <2>1. "use" \in S
    OBVIOUS
  <2> HIDE DEF S, a, c
  <2> QED BY <1>1, <1>2, <2>1, Concat3
<1> HIDE DEF q, S
<1> QED BY SMT, <1>1, <1>2, <1>3, <1>4 DEF Joins

\* What one does with a cluster of Commander.
LEMMA CommanderProgram ==
    LET q == Program["commander"] IN
       /\ DOMAIN q = 1 .. 9 /\ Len(q) = 9
       /\ q[1] = "find" /\ q[2] = "created" /\ q[3] = "connect" /\ q[4] = "lock"
       /\ q[5] = "health" /\ q[6] = "use" /\ q[7] = "unlock" /\ q[8] = "close"
       /\ q[9] = "delete"
<1> DEFINE S == {"find", "created", "connect", "lock", "health", "use", "unlock", "close",
                 "delete"}
           a == <<"find", "created", "connect", "lock", "health">>
           c == <<"unlock", "close", "delete">>
           q == a \o <<"use">> \o c
<1>1. a \in Seq(S) /\ Len(a) = 5
  BY SMT
<1>2. c \in Seq(S) /\ Len(c) = 3
  BY SMT
<1>3. Program["commander"] = q
  BY SMT, ProgramIs, KindsAre
     DEF CreateOrConnectToTestCluster, CleanupTestClusterResources, UseCommanderCluster,
         CleanupCommanderCluster
<1>4. Joins(q, a, "use", c)
  <2>1. "use" \in S
    OBVIOUS
  <2> HIDE DEF S, a, c
  <2> QED BY <1>1, <1>2, <2>1, Concat3
<1> HIDE DEF q, S
<1> QED BY SMT, <1>1, <1>2, <1>3, <1>4 DEF Joins

\* The place of a step that a program has once.
LEMMA PlaceIs ==
    ASSUME NEW k \in Kinds, NEW i \in DOMAIN Program[k],
           \A j \in DOMAIN Program[k] : Program[k][j] = Program[k][i] => j = i
    PROVE  Place[k][Program[k][i]] = i
<1>1. Program[k][i] \in Range(Program[k])
  BY DEF Range
<1>2. Place[k][Program[k][i]] = CHOOSE j \in DOMAIN Program[k] : Program[k][j] = Program[k][i]
  BY <1>1 DEF Place
<1> QED BY <1>2

\* Steps of runs that build a cluster.
OwnSteps ==
    {"conflicts", "images", "machines", "running", "gather", "save", "saved", "setup", "docker", "prepare",
     "upload", "connYAML", "dhctl", "nodeGroup", "join", "joined", "modules", "ready", "removeSetup",
     "removeAll", "closeBase"}

\* Where programs lock, and where they use the cluster.
LockAt == [k \in Locking |-> IF k = "commander" THEN 4 ELSE 2]
UseAt == [k \in Locking |-> IF k = "commander" THEN 6 ELSE IF k = "jump" THEN 5 ELSE 4]

\* Programs that lock: what comes before and after the use of the cluster.
LEMMA LockingPrograms ==
    ASSUME NEW k \in Locking
    PROVE  LET q == Program[k]  l == LockAt[k]  u == UseAt[k] IN
           /\ k \in Kinds /\ l \in Nat /\ u \in Nat /\ 1 < l /\ l < u /\ u + 1 < Len(q)
           /\ Len(q) \in Nat /\ DOMAIN q = 1 .. Len(q)
           /\ \A i \in DOMAIN q : /\ q[i] = "lock" <=> i = l
                                  /\ q[i] = "use" <=> i = u
                                  /\ q[i] = "unlock" <=> i = u + 1
                                  /\ q[i] = "close" <=> i = u + 2
                                  /\ q[i] = "delete" <=> i = u + 3
           /\ \A i \in DOMAIN q : q[i] \notin OwnSteps
           /\ k = "commander" => Len(q) = u + 3
           /\ k # "commander" => Len(q) = u + 2
<1>1. CASE k = "existing"
  BY SMT, <1>1, KindsAre, ExistingProgram DEF Locking, LockAt, UseAt, OwnSteps
<1>2. CASE k = "jump"
  BY SMT, <1>2, KindsAre, JumpProgram DEF Locking, LockAt, UseAt, OwnSteps
<1>3. CASE k = "provider"
  BY SMT, <1>3, KindsAre, ProviderProgram DEF Locking, LockAt, UseAt, OwnSteps
<1>4. CASE k = "commander"
  BY SMT, <1>4, KindsAre, CommanderProgram DEF Locking, LockAt, UseAt, OwnSteps
<1> QED BY <1>1, <1>2, <1>3, <1>4 DEF Locking

\* Where the lock, the use and the release are in a program that locks.
LEMMA LockingPlaces ==
    ASSUME NEW k \in Locking
    PROVE  /\ Place[k]["lock"] = LockAt[k] /\ Place[k]["use"] = UseAt[k]
           /\ Place[k]["unlock"] = UseAt[k] + 1
<1> DEFINE q == Program[k]  l == LockAt[k]  u == UseAt[k]
<1>1. /\ k \in Kinds /\ l \in DOMAIN q /\ u \in DOMAIN q /\ u + 1 \in DOMAIN q
      /\ q[l] = "lock" /\ q[u] = "use" /\ q[u + 1] = "unlock"
  BY SMT, LockingPrograms
<1>2. \A i \in DOMAIN q : (q[i] = "lock" => i = l) /\ (q[i] = "use" => i = u) /\ (q[i] = "unlock" => i = u + 1)
  BY LockingPrograms
<1>3. Place[k][q[l]] = l
  <2>1. \A j \in DOMAIN q : q[j] = q[l] => j = l
    BY <1>1, <1>2
  <2> QED BY <1>1, <2>1, PlaceIs
<1>4. Place[k][q[u]] = u
  <2>1. \A j \in DOMAIN q : q[j] = q[u] => j = u
    BY <1>1, <1>2
  <2> QED BY <1>1, <2>1, PlaceIs
<1>5. Place[k][q[u + 1]] = u + 1
  <2>1. \A j \in DOMAIN q : q[j] = q[u + 1] => j = u + 1
    BY <1>1, <1>2
  <2> QED BY <1>1, <2>1, PlaceIs
<1> QED BY <1>1, <1>3, <1>4, <1>5

\* The others never lock.
LEMMA OtherPrograms ==
    ASSUME NEW k \in {"create", "resume"}
    PROVE  LET q == Program[k] IN
           /\ k \in Kinds /\ k \notin Locking /\ Len(q) \in Nat /\ Len(q) > 0 /\ DOMAIN q = 1 .. Len(q)
           /\ \A i \in DOMAIN q : q[i] \notin {"lock", "unlock", "delete", "health", "find", "created"}
           /\ \A i \in DOMAIN q : q[i] = "closeBase" <=> i = Len(q)
<1>1. CASE k = "create"
  BY SMT, <1>1, KindsAre, CreateProgram DEF Locking
<1>2. CASE k = "resume"
  BY SMT, <1>2, KindsAre, ResumeProgram DEF Locking
<1> QED BY <1>1, <1>2

-----------------------------------------------------------------------------
(* Processes.                                                              *)

\* The fields of past and of a process.
Pasts == {"disturbed", "beside", "delivered", "cleaned", "lockLost", "clean", "resumed", "kept", "twice"}
Fields == {"kind", "pc", "run", "id", "sub", "failing", "ended", "at"}

\* Records have their fields, a process is at a step of its program, and runs are
\* numbered as they begin.
Shape ==
    /\ env \in Envs /\ DOMAIN past = Pasts
    /\ DOMAIN proc = Procs /\ DOMAIN held = Procs
    /\ \A p \in Procs : DOMAIN proc[p] = Fields
    /\ runs \in 0 .. MaxRuns
    /\ \A p \in Procs :
         /\ Kind(p) \in Kinds /\ proc[p].pc \in 0 .. Len(Program[Kind(p)])
         /\ Run(p) \in 0 .. runs /\ (Run(p) = 0 => Idle(p))
    /\ \A p, q \in Procs : Run(p) = Run(q) /\ Run(p) # 0 => p = q
    /\ DOMAIN lock = 0 .. MaxRuns /\ \A c \in 0 .. MaxRuns : lock[c] \in 0 .. runs

\* From its Create to its Delete a run is the one that is to release the lock.
Has(p) ==
    /\ Kind(p) \in Locking
    /\ proc[p].pc > Place[Kind(p)]["lock"] /\ proc[p].pc <= Place[Kind(p)]["unlock"]

\* The Delete has not been sent yet.
Keeps(p) == Has(p) /\ ~ (proc[p].pc = Place[Kind(p)]["unlock"] /\ proc[p].sub = "again")

\* The process died in the middle of its run.
Killed(p) == Idle(p) /\ proc[p].ended = "killed"

\* While nobody has taken a lock twice, a run that has locked is the holder; a holder
\* has yet to unlock, was killed, or saw its unlock fail.
LockInv ==
    /\ ~ past.twice => \A p \in Procs : Keeps(p) => Holder(p) = Run(p)
    /\ \A p \in Procs :
         /\ Kind(p) \in Locking /\ Holder(p) = Run(p) /\ Run(p) # 0
         => Run(p) \in past.lockLost \/ Has(p) \/ Killed(p)

-----------------------------------------------------------------------------
(* Steps of a process that leave the lock alone.                           *)

\* p goes to place n of its program; the other processes stay where they are.
Goes(p, n) ==
    /\ DOMAIN proc' = Procs /\ \A q \in Procs : DOMAIN proc'[q] = Fields
    /\ \A q \in Procs \ {p} : proc'[q] = proc[q]
    /\ proc'[p].kind = Kind(p) /\ proc'[p].run = Run(p) /\ proc'[p].pc = n

\* Advance takes p one step on.
LEMMA AdvanceGoes ==
    ASSUME Shape, NEW p \in Procs, Advance(p)
    PROVE  Goes(p, proc[p].pc + 1) /\ proc'[p].sub = "get"
BY SMT DEF Shape, Advance, Goes, Kind, Run, Fields

\* A call at the lock leaves p where it is.
LEMMA SubGoes ==
    ASSUME Shape, NEW p \in Procs, NEW l, Sub(p, l)
    PROVE  Goes(p, proc[p].pc) /\ proc'[p].sub = l
BY SMT DEF Shape, Sub, Goes, Kind, Run, Fields

\* A run that ends is nowhere in its program, and its end is noted.
LEMMA EndGoes ==
    ASSUME Shape, NEW p \in Procs, NEW how, Ends(p, how)
    PROVE  Goes(p, 0) /\ proc'[p].ended = how /\ proc'[p].at = Stage(p)
<1> DEFINE r == [NoProc EXCEPT !.kind = Kind(p), !.run = Run(p), !.id = Id(p), !.ended = how, !.at = Stage(p)]
<1>1. /\ DOMAIN r = Fields /\ r.kind = Kind(p) /\ r.run = Run(p) /\ r.pc = 0
      /\ r.ended = how /\ r.at = Stage(p)
  BY SMT DEF NoProc, Fields
<1>2. proc' = [proc EXCEPT ![p] = r]
  BY DEF Ends
<1> HIDE DEF r
<1> QED BY SMT, <1>1, <1>2 DEF Shape, Goes

\* p is sent to the release of its lock.
Unlocks(p, l) ==
    proc' = [proc EXCEPT ![p].pc = Place[Kind(p)]["unlock"], ![p].sub = l, ![p].failing = TRUE]

\* A failing run goes to the release.
LEMMA UnlockGoes ==
    ASSUME Shape, NEW p \in Procs, NEW l, Unlocks(p, l)
    PROVE  Goes(p, Place[Kind(p)]["unlock"]) /\ proc'[p].sub = l
BY SMT DEF Shape, Unlocks, Goes, Kind, Run, Fields

\* p takes a step of its program, or ends.
Moves(p) ==
    /\ DOMAIN proc' = Procs /\ \A q \in Procs : DOMAIN proc'[q] = Fields
    /\ \A q \in Procs \ {p} : proc'[q] = proc[q]
    /\ proc'[p].kind = Kind(p) /\ proc'[p].run = Run(p)
    /\ proc'[p].pc \in 0 .. Len(Program[Kind(p)])
    /\ Idle(p) => proc'[p] = proc[p]

\* What has happened is not forgotten.
Grows ==
    /\ past.disturbed \subseteq past'.disturbed /\ past.beside \subseteq past'.beside
    /\ past.delivered \subseteq past'.delivered /\ past.cleaned \subseteq past'.cleaned
    /\ past.lockLost \subseteq past'.lockLost /\ past.clean \subseteq past'.clean
    /\ past.resumed \subseteq past'.resumed /\ past.kept \subseteq past'.kept

\* The rest of Shape.
Frame ==
    /\ UNCHANGED <<runs, env>> /\ DOMAIN held' = Procs
    /\ DOMAIN past' = Pasts /\ Grows

\* A step of p that takes no lock, and gives one up only with an excuse.
QuietMove(p) ==
    /\ Moves(p)
    /\ Keeps(p)' => Keeps(p)
    /\ Has(p) => Has(p)' \/ Killed(p)' \/ Run(p) \in past'.lockLost

\* A step that leaves the locks as they are.
QuietWorld == Frame /\ UNCHANGED lock /\ past'.twice = past.twice

\* Where a process that locks is.
LEMMA AtLocking ==
    ASSUME Shape, NEW p \in Procs, Kind(p) \in Locking, ~ Idle(p)
    PROVE  LET n == proc[p].pc  l == LockAt[Kind(p)]  u == UseAt[Kind(p)]  e == Len(Program[Kind(p)]) IN
           /\ n \in Nat /\ n > 0 /\ e \in Nat /\ n <= e
           /\ l \in Nat /\ u \in Nat /\ 1 < l /\ l < u /\ u + 1 < e
           /\ Kind(p) = "commander" => e = u + 3
           /\ Kind(p) # "commander" => e = u + 2
           /\ Stage(p) = "lock" <=> n = l
           /\ Stage(p) = "use" <=> n = u
           /\ Stage(p) = "unlock" <=> n = u + 1
           /\ Stage(p) = "close" <=> n = u + 2
           /\ Stage(p) = "delete" <=> n = u + 3
           /\ Has(p) <=> n > l /\ n <= u + 1
           /\ Place[Kind(p)]["lock"] = l /\ Place[Kind(p)]["use"] = u /\ Place[Kind(p)]["unlock"] = u + 1
<1> DEFINE k == Kind(p)  n == proc[p].pc  q == Program[k]
<1>1. /\ Place[k]["lock"] = LockAt[k] /\ Place[k]["use"] = UseAt[k]
      /\ Place[k]["unlock"] = UseAt[k] + 1
  BY LockingPlaces
<1>2. n \in 0 .. Len(q) /\ n # 0
  BY DEF Shape, Idle
<1>3. Len(q) \in Nat /\ DOMAIN q = 1 .. Len(q)
  BY LockingPrograms
<1>4. n \in Nat /\ n > 0 /\ n <= Len(q) /\ n \in DOMAIN q
  BY SMT, <1>2, <1>3
<1>5. Stage(p) = q[n]
  BY DEF Stage, Kind
<1>6. /\ q[n] = "lock" <=> n = LockAt[k]
      /\ q[n] = "use" <=> n = UseAt[k]
      /\ q[n] = "unlock" <=> n = UseAt[k] + 1
      /\ q[n] = "close" <=> n = UseAt[k] + 2
      /\ q[n] = "delete" <=> n = UseAt[k] + 3
  <2>1. \A i \in DOMAIN q :
                          /\ q[i] = "lock" <=> i = LockAt[k]
                          /\ q[i] = "use" <=> i = UseAt[k]
                          /\ q[i] = "unlock" <=> i = UseAt[k] + 1
                          /\ q[i] = "close" <=> i = UseAt[k] + 2
                          /\ q[i] = "delete" <=> i = UseAt[k] + 3
    BY LockingPrograms
  <2> QED BY <1>4, <2>1
<1>7. /\ LockAt[k] \in Nat /\ UseAt[k] \in Nat /\ 1 < LockAt[k] /\ LockAt[k] < UseAt[k]
      /\ UseAt[k] + 1 < Len(q)
      /\ k = "commander" => Len(q) = UseAt[k] + 3
      /\ k # "commander" => Len(q) = UseAt[k] + 2
  BY LockingPrograms
<1>8. Has(p) <=> n > LockAt[k] /\ n <= UseAt[k] + 1
  BY <1>1 DEF Has
<1> QED BY <1>1, <1>3, <1>4, <1>5, <1>6, <1>7, <1>8

\* Where one is that does not.
LEMMA AtOther ==
    ASSUME Shape, NEW p \in Procs, Kind(p) \notin Locking, ~ Idle(p)
    PROVE  LET n == proc[p].pc  e == Len(Program[Kind(p)]) IN
           /\ Kind(p) \in {"create", "resume"} /\ n \in Nat /\ n > 0 /\ e \in Nat /\ n <= e
           /\ Stage(p) \notin {"lock", "unlock", "delete", "health", "find", "created"}
           /\ Stage(p) = "closeBase" <=> n = e
<1> DEFINE k == Kind(p)  n == proc[p].pc  q == Program[k]
<1>1. k \in {"create", "resume"}
  BY KindsAre DEF Shape, Locking
<1>2. n \in 0 .. Len(q) /\ n # 0
  BY DEF Shape, Idle
<1>3. Len(q) \in Nat /\ DOMAIN q = 1 .. Len(q)
  BY <1>1, OtherPrograms
<1>4. n \in Nat /\ n > 0 /\ n <= Len(q) /\ n \in DOMAIN q
  BY SMT, <1>2, <1>3
<1>5. Stage(p) = q[n]
  BY DEF Stage, Kind
<1>6. /\ q[n] \notin {"lock", "unlock", "delete", "health", "find", "created"}
      /\ (q[n] = "closeBase" <=> n = Len(q))
  BY <1>1, <1>4, OtherPrograms
<1> QED BY <1>1, <1>3, <1>4, <1>5, <1>6

\* A step other than the lock and its release neither takes nor drops the lock.
LEMMA QuietAdvance ==
    ASSUME Shape, NEW p \in Procs, Advance(p),
           Stage(p) \notin {"idle", "lock", "unlock", "delete", "closeBase"},
           Stage(p) = "close" => Kind(p) \in {"create", "resume", "commander"}
    PROVE  QuietMove(p)
<1>1. ~ Idle(p)
  BY DEF Stage
<1> DEFINE n == proc[p].pc
<1>2. Goes(p, n + 1) /\ proc'[p].sub = "get"
  BY AdvanceGoes
<1>3. /\ Kind(p)' = Kind(p) /\ (proc[p].pc)' = n + 1
  BY <1>2 DEF Goes, Kind
<1>4. CASE Kind(p) \in Locking
  <2> DEFINE l == LockAt[Kind(p)]  u == UseAt[Kind(p)]  e == Len(Program[Kind(p)])
  <2>1. /\ n \in Nat /\ n > 0 /\ e \in Nat /\ n <= e
        /\ l \in Nat /\ u \in Nat /\ 1 < l /\ l < u /\ u + 1 < e
        /\ Kind(p) = "commander" => e = u + 3
        /\ Kind(p) # "commander" => e = u + 2
        /\ n # l /\ n # u + 1 /\ n # u + 3 /\ (n = u + 2 => Kind(p) = "commander")
    BY <1>1, <1>4, AtLocking DEF Locking
  <2>2. Place[Kind(p)]["lock"] = l /\ Place[Kind(p)]["unlock"] = u + 1
    BY <1>4, LockingPlaces
  <2> HIDE DEF n, l, u, e
  <2>3. /\ n + 1 \in 0 .. e
        /\ n + 1 > l /\ n + 1 <= u + 1 <=> n > l /\ n <= u + 1
    BY SMT, <2>1
  <2>4. (Has(p)' <=> Has(p)) /\ (Keeps(p)' => Keeps(p))
    <3>1. Has(p)' <=> n + 1 > l /\ n + 1 <= u + 1
      BY <1>3, <1>4, <2>2 DEF Has, n
    <3>2. Has(p) <=> n > l /\ n <= u + 1
      BY <1>4, <2>2 DEF Has, n
    <3>3. Keeps(p) <=> Has(p)
      BY <2>1, <2>2 DEF Keeps, n
    <3> QED BY <2>3, <3>1, <3>2, <3>3 DEF Keeps
  <2> QED BY <1>1, <1>2, <2>3, <2>4 DEF QuietMove, Moves, Goes, e
<1>5. CASE Kind(p) \notin Locking
  <2> DEFINE e == Len(Program[Kind(p)])
  <2>1. n \in Nat /\ e \in Nat /\ n <= e /\ n # e
    BY <1>1, <1>5, AtOther
  <2> HIDE DEF n, e
  <2>2. n + 1 \in 0 .. e
    BY SMT, <2>1
  <2>3. ~ Has(p) /\ ~ Has(p)' /\ ~ Keeps(p)'
    BY <1>3, <1>5 DEF Has, Keeps
  <2> QED BY <1>1, <1>2, <2>2, <2>3 DEF QuietMove, Moves, Goes, e
<1> QED BY <1>4, <1>5

\* A run that ends has no lock, is killed, or its lock is known to be lost.
LEMMA QuietEnd ==
    ASSUME Shape, NEW p \in Procs, NEW how, Ends(p, how), ~ Idle(p),
           how = "killed" \/ ~ Has(p) \/ Run(p) \in past'.lockLost
    PROVE  QuietMove(p)
<1>1. Goes(p, 0) /\ proc'[p].ended = how
  BY EndGoes
<1>2. Idle(p)' /\ (how = "killed" => Killed(p)') /\ Kind(p)' = Kind(p) /\ proc'[p].pc = 0
  BY <1>1 DEF Goes, Idle, Killed, Kind
<1>3. ~ Has(p)'
  <2>1. CASE Kind(p) \in Locking
    <3>1. LockAt[Kind(p)] \in Nat /\ Place[Kind(p)]["lock"] = LockAt[Kind(p)]
      BY <2>1, LockingPrograms, LockingPlaces
    <3>2. ~ (0 > LockAt[Kind(p)])
      BY SMT, <3>1
    <3> QED BY <1>2, <3>1, <3>2 DEF Has
  <2> QED BY <1>2, <2>1 DEF Has
<1>4. 0 \in 0 .. Len(Program[Kind(p)])
  <2>1. proc[p].pc \in 0 .. Len(Program[Kind(p)])
    BY DEF Shape
  <2> QED BY SMT, <2>1
<1> QED BY <1>1, <1>2, <1>3, <1>4 DEF QuietMove, Moves, Goes, Keeps

\* Sent to the release while it has the lock.
LEMMA QuietUnlock ==
    ASSUME Shape, NEW p \in Procs, NEW s \in {"get", "dead"}, Unlocks(p, s), ~ Idle(p),
           Kind(p) \in Locking, proc[p].pc > Place[Kind(p)]["lock"],
           Stage(p) \notin {"unlock", "close", "delete"}
    PROVE  QuietMove(p)
<1> DEFINE n == proc[p].pc  l == LockAt[Kind(p)]  u == UseAt[Kind(p)]  e == Len(Program[Kind(p)])
<1>1. /\ n \in Nat /\ n > 0 /\ e \in Nat /\ n <= e
      /\ l \in Nat /\ u \in Nat /\ 1 < l /\ l < u /\ u + 1 < e
      /\ Kind(p) = "commander" => e = u + 3
      /\ Kind(p) # "commander" => e = u + 2
      /\ n # u + 1 /\ n # u + 2 /\ n # u + 3
  BY AtLocking
<1>2. /\ Has(p) <=> n > l /\ n <= u + 1
      /\ Place[Kind(p)]["lock"] = l /\ Place[Kind(p)]["unlock"] = u + 1
  BY AtLocking
<1>3. Goes(p, u + 1) /\ proc'[p].sub = s
  BY <1>2, UnlockGoes
<1>4. Kind(p)' = Kind(p) /\ proc'[p].pc = u + 1
  BY <1>3 DEF Goes, Kind
<1> HIDE DEF n, l, u, e
<1>5. n <= u + 1 /\ u + 1 > l /\ u + 1 <= u + 1 /\ u + 1 \in 0 .. e
  BY SMT, <1>1
<1>6. Has(p) /\ Keeps(p)
  BY <1>1, <1>2, <1>5 DEF Keeps, n
<1>7. Has(p)'
  BY <1>2, <1>4, <1>5 DEF Has
<1> QED BY <1>3, <1>4, <1>5, <1>6, <1>7 DEF QuietMove, Moves, Goes, e

\* Fails sends a run that has the lock to its release.
LEMMA QuietFails ==
    ASSUME Shape, NEW p \in Procs, Fails(p), Stage(p) \notin {"idle", "unlock", "close", "delete"}
    PROVE  QuietMove(p)
<1>1. ~ Idle(p)
  BY DEF Stage
<1>2. CASE Kind(p) \in Locking /\ proc[p].pc > Place[Kind(p)]["lock"]
  BY <1>1, <1>2, QuietUnlock DEF Fails, Unlocks
<1>3. CASE ~ (Kind(p) \in Locking /\ proc[p].pc > Place[Kind(p)]["lock"])
  <2>1. Ends(p, "failed")
    BY <1>3 DEF Fails
  <2>2. ~ Has(p)
    BY <1>3 DEF Has
  <2> QED BY <1>1, <2>1, <2>2, QuietEnd
<1> QED BY <1>2, <1>3

-----------------------------------------------------------------------------
(* Steps that change the lock.                                             *)

\* Whoever is at these steps is a process that locks.
LEMMA LockersOnly ==
    ASSUME Shape, NEW p \in Procs, Stage(p) \in {"lock", "unlock", "delete"}
    PROVE  Kind(p) \in Locking /\ ~ Idle(p) /\ Run(p) # 0 /\ ClusterOf(p) \in 0 .. MaxRuns
<1>1. ~ Idle(p)
  BY DEF Stage
<1>2. Kind(p) \in Locking
  BY <1>1, AtOther
<1>3. Run(p) # 0
  BY <1>1 DEF Shape
<1>4. Run(p) \in 0 .. runs /\ runs \in 0 .. MaxRuns
  BY DEF Shape
<1>5. ClusterOf(p) \in {0, Run(p)}
  BY DEF ClusterOf
<1>6. ClusterOf(p) \in 0 .. MaxRuns
  BY SMT, <1>4, <1>5, BoundAssumption
<1> QED BY <1>1, <1>2, <1>3, <1>6

\* Who has the lock is not idle, so its run has a number.
LEMMA HasRun ==
    ASSUME Shape, NEW q \in Procs, Has(q) PROVE Run(q) # 0
<1>1. Kind(q) \in Locking /\ Place[Kind(q)]["lock"] = LockAt[Kind(q)] /\ LockAt[Kind(q)] \in Nat
  BY LockingPlaces, LockingPrograms DEF Has
<1>2. ~ (0 > LockAt[Kind(q)])
  BY SMT, <1>1
<1>3. ~ Idle(q)
  BY <1>1, <1>2 DEF Has, Idle
<1> QED BY <1>3 DEF Shape

-----------------------------------------------------------------------------
(* The actions.                                                            *)

\* What the properties of the lock do not look at.
Rest == UNCHANGED <<lock, runs, env>>
PastQuiet == DOMAIN past' = Pasts /\ past'.twice = past.twice /\ Grows

\* What the frames of the actions leave alone.
LEMMA RestIs ==
    /\ Own => Rest
    /\ Machines => Rest
    /\ Locks => UNCHANGED <<runs, env>>
    /\ Rest => lock' = lock /\ runs' = runs /\ env' = env
BY SMT DEF Own, Machines, Locks, Rest

\* A note is added, and nothing forgotten.
LEMMA NoteQuiet ==
    ASSUME Shape, NEW f \in Pasts \ {"twice"}, NEW r, Note(f, r) PROVE PastQuiet
<1>1. past' = [past EXCEPT ![f] = @ \cup {r}] /\ DOMAIN past = Pasts
  BY DEF Note, Shape
<1>2. "twice" \in Pasts /\ "lockLost" \in Pasts /\ f # "twice"
  BY DEF Pasts
<1>3. DOMAIN past' = Pasts /\ past'.twice = past.twice
  BY <1>1, <1>2
<1>4. \A g \in Pasts \ {"twice"} : past[g] \subseteq past'[g]
  BY <1>1
<1>5. Grows
  BY SMT, <1>4 DEF Grows, Pasts
<1> QED BY <1>3, <1>5 DEF PastQuiet

\* Nothing is noted.
LEMMA PastKept ==
    ASSUME Shape, UNCHANGED past PROVE PastQuiet
BY DEF Shape, PastQuiet, Grows

\* No fault, no note.
LEMMA NoFaultQuiet ==
    ASSUME Shape, NoFault PROVE PastQuiet
BY PastKept DEF NoFault

\* A fault is noted.
LEMMA FaultQuiet ==
    ASSUME Shape, NEW p \in Procs, Fault(p) PROVE PastQuiet
<1>1. Note("disturbed", Run(p)) /\ "disturbed" \in Pasts \ {"twice"}
  BY DEF Fault, Pasts
<1> QED BY <1>1, NoteQuiet

\* Every process keeps its set of connections.
LEMMA HeldShape ==
    ASSUME Shape, NEW p \in Procs
    PROVE  /\ \A S : Opens(p, S) => DOMAIN held' = Procs
           /\ \A S : Closes(p, S) => DOMAIN held' = Procs
           /\ \A S : held' = [held EXCEPT ![p] = S] => DOMAIN held' = Procs
           /\ UNCHANGED held => DOMAIN held' = Procs
BY DEF Shape, Opens, Closes

\* So it does when it fails.
LEMMA FailsHeld ==
    ASSUME Shape, NEW p \in Procs, Fails(p) PROVE DOMAIN held' = Procs
BY HeldShape DEF Fails

\* And after the release.
LEMMA AfterUnlockHeld ==
    ASSUME Shape, NEW p \in Procs, AfterUnlock(p) PROVE DOMAIN held' = Procs
BY HeldShape DEF AfterUnlock

\* A step of p that has nothing to do with locks.
Calm(p) == QuietMove(p) /\ QuietWorld

\* The use of the cluster and the cleanup are not steps of CreateOrConnectToTestCluster.
Leaving == {"idle", "use", "unlock", "close", "removeSetup", "removeAll", "closeBase", "delete"}

\* So it is: Steps has none of them.
LEMMA StepsAre == Steps \cap Leaving = {}
<1> DEFINE N == {"idle", "use", "unlock", "close", "removeSetup", "removeAll", "closeBase", "delete"}
<1>1. \A i \in DOMAIN CreateTestCluster : CreateTestCluster[i] \notin N
  BY SMT DEF CreateTestCluster
<1>2. \A i \in DOMAIN Resume : Resume[i] \notin N
  BY SMT DEF Resume
<1>3. \A i \in DOMAIN UseExistingCluster : UseExistingCluster[i] \notin N
  BY SMT DEF UseExistingCluster
<1>4. \A i \in DOMAIN UseExistingClusterJump : UseExistingClusterJump[i] \notin N
  <2> DEFINE S == {"connect", "lock", "health", "base"}
  <2>1. UseExistingCluster \in Seq(S) /\ <<"base">> \in Seq(S)
    BY SMT DEF UseExistingCluster
  <2>2. UseExistingClusterJump \in Seq(S)
    BY <2>1, Concat DEF UseExistingClusterJump
  <2>3. S \cap N = {}
    OBVIOUS
  <2> HIDE DEF S
  <2>4. \A i \in DOMAIN UseExistingClusterJump : UseExistingClusterJump[i] \in S
    BY SMT, <2>2
  <2> QED BY <2>3, <2>4
<1>5. \A i \in DOMAIN connectViaProvider : connectViaProvider[i] \notin N
  BY SMT DEF connectViaProvider
<1>6. \A i \in DOMAIN UseCommanderCluster : UseCommanderCluster[i] \notin N
  BY SMT DEF UseCommanderCluster
<1> HIDE DEF N
<1>7. ASSUME NEW k \in Kinds
      PROVE  \A i \in DOMAIN CreateOrConnectToTestCluster[k] : CreateOrConnectToTestCluster[k][i] \notin N
  BY SMT, <1>1, <1>2, <1>3, <1>4, <1>5, <1>6, KindsAre DEF CreateOrConnectToTestCluster
<1> QED BY <1>7 DEF Steps, Range, N, Leaving

\* A run gives up only what it waits for.
LEMMA HopelessAt ==
    ASSUME NEW p \in Procs, Hopeless(p) PROVE Stage(p) \notin Leaving
<1> SUFFICES ASSUME Stage(p) \in Leaving PROVE Can(p)
  BY DEF Hopeless, Leaving
<1> QED BY SMT DEF Can, Leaving

\* At the lock a process has none.
LEMMA AtLock ==
    ASSUME Shape, NEW p \in Procs, Stage(p) = "lock"
    PROVE  /\ ~ Idle(p) /\ Kind(p) \in Locking /\ ~ Has(p) /\ ~ (proc[p].pc > Place[Kind(p)]["lock"])
           /\ proc[p].pc + 1 > Place[Kind(p)]["lock"] /\ proc[p].pc + 1 <= Place[Kind(p)]["unlock"]
           /\ proc[p].pc + 1 \in 0 .. Len(Program[Kind(p)])
<1> DEFINE n == proc[p].pc  l == LockAt[Kind(p)]  u == UseAt[Kind(p)]  e == Len(Program[Kind(p)])
<1>1. ~ Idle(p) /\ Kind(p) \in Locking
  BY LockersOnly
<1>2. /\ n = l /\ l \in Nat /\ u \in Nat /\ l < u /\ e \in Nat /\ u + 1 < e
      /\ Has(p) <=> n > l /\ n <= u + 1
      /\ Place[Kind(p)]["lock"] = l /\ Place[Kind(p)]["unlock"] = u + 1
  BY <1>1, AtLocking
<1> HIDE DEF n, l, u, e
<1>3. ~ (n > l) /\ n + 1 > l /\ n + 1 <= u + 1 /\ n + 1 \in 0 .. e
  BY SMT, <1>2
<1> QED BY <1>1, <1>2, <1>3 DEF n, e

\* A call at the lock is a step of its process.
LEMMA SubMoves ==
    ASSUME Shape, NEW p \in Procs, NEW s, Sub(p, s), ~ Idle(p)
    PROVE  /\ Moves(p) /\ (Has(p)' <=> Has(p)) /\ proc'[p].sub = s /\ proc'[p].pc = proc[p].pc
           /\ Kind(p)' = Kind(p)
<1>1. Goes(p, proc[p].pc) /\ proc'[p].sub = s
  BY SubGoes
<1>2. Kind(p)' = Kind(p) /\ proc'[p].pc = proc[p].pc
  BY <1>1 DEF Goes, Kind
<1>3. Has(p)' <=> Has(p)
  BY <1>2 DEF Has
<1> QED BY <1>1, <1>2, <1>3 DEF Moves, Goes, Shape

\* After its release a process has no lock.
LEMMA AfterUnlockMoves ==
    ASSUME Shape, NEW p \in Procs, Stage(p) = "unlock", AfterUnlock(p)
    PROVE  Moves(p) /\ ~ Has(p)' /\ ~ Idle(p) /\ Has(p)
<1> DEFINE n == proc[p].pc  l == LockAt[Kind(p)]  u == UseAt[Kind(p)]  e == Len(Program[Kind(p)])
<1>1. ~ Idle(p) /\ Kind(p) \in Locking
  BY LockersOnly
<1>2. /\ n = u + 1 /\ l \in Nat /\ u \in Nat /\ 1 < l /\ l < u /\ e \in Nat /\ u + 1 < e
      /\ Has(p) <=> n > l /\ n <= u + 1
      /\ Place[Kind(p)]["lock"] = l /\ Place[Kind(p)]["unlock"] = u + 1
  BY <1>1, AtLocking
<1>3. /\ n > l /\ n <= u + 1 /\ ~ (n + 1 <= u + 1) /\ n + 1 \in 0 .. e /\ 0 \in 0 .. e /\ ~ (0 > l)
  BY SMT, <1>2
<1>4. CASE Ends(p, "failed")
  <2>1. Goes(p, 0)
    BY <1>4, EndGoes
  <2>2. Kind(p)' = Kind(p) /\ proc'[p].pc = 0
    BY <2>1 DEF Goes, Kind
  <2>3. ~ Has(p)'
    BY <1>2, <1>3, <2>2 DEF Has
  <2> QED BY <1>1, <1>2, <1>3, <2>1, <2>3 DEF Moves, Goes
<1>5. CASE Advance(p)
  <2>1. Goes(p, n + 1)
    BY <1>5, AdvanceGoes
  <2>2. Kind(p)' = Kind(p) /\ proc'[p].pc = n + 1
    BY <2>1 DEF Goes, Kind
  <2>3. ~ Has(p)'
    BY <1>2, <1>3, <2>2 DEF Has
  <2> QED BY <1>1, <1>2, <1>3, <2>1, <2>3 DEF Moves, Goes
<1> QED BY <1>4, <1>5 DEF AfterUnlock

\* Every step of a process is one of these.
LEMMA Actions ==
    Shape => \A p \in Procs : Create(p) \/ Use(p) \/ Cleanup(p) \/ Faults(p) =>
           \/ Calm(p) \/ AcquireClusterLock(p) \/ AcquireFails(p)
           \/ ReleaseClusterLock(p) \/ ReleaseFails(p)
\* A run that has built its cluster closes the base connections last.
<1>1. ASSUME NEW k \in {"create", "resume"}
      PROVE  Place[k]["closeBase"] \in 0 .. Len(Program[k]) /\ Place[k]["closeBase"] = Len(Program[k])
  <2> USE <1>1
  <2> DEFINE q == Program[k]  e == Len(q)
  <2>1. k \in Kinds /\ e \in Nat /\ e > 0 /\ DOMAIN q = 1 .. e
    BY OtherPrograms
  <2>2. \A i \in DOMAIN q : q[i] = "closeBase" <=> i = e
    BY OtherPrograms
  <2>3. e \in DOMAIN q /\ e \in 0 .. e
    BY SMT, <2>1
  <2>4. Place[k][q[e]] = e
    <3>1. \A j \in DOMAIN q : q[j] = q[e] => j = e
      BY <2>2, <2>3
    <3> QED BY <2>1, <2>3, <3>1, PlaceIs
  <2> QED BY <2>2, <2>3, <2>4
\* Runs that lock have none of the steps of those that build.
<1>2. ASSUME Shape, NEW p \in Procs, Stage(p) \in OwnSteps PROVE ~ Idle(p) /\ Kind(p) \notin Locking
  <2> USE <1>2
  <2>1. ~ Idle(p)
    BY DEF Stage, OwnSteps
  <2>2. CASE Kind(p) \in Locking
    <3> DEFINE q == Program[Kind(p)]
    <3>1. proc[p].pc \in 0 .. Len(q) /\ proc[p].pc # 0 /\ Len(q) \in Nat /\ DOMAIN q = 1 .. Len(q)
      BY <2>1, <2>2, LockingPrograms DEF Shape, Idle
    <3>2. proc[p].pc \in DOMAIN q
      BY SMT, <3>1
    <3>3. q[proc[p].pc] \notin OwnSteps
      <4>1. \A i \in DOMAIN q : q[i] \notin OwnSteps
        BY <2>2, LockingPrograms
      <4> QED BY <3>2, <4>1
    <3> QED BY <2>1, <3>3 DEF Stage, Kind
  <2> QED BY <2>1, <2>2
\* A run that does not lock has nothing to do with the lock.
<1>3. ASSUME Shape, NEW p \in Procs, ~ Idle(p), Kind(p) \notin Locking,
             NEW n \in 0 .. Len(Program[Kind(p)]), Goes(p, n)
      PROVE  QuietMove(p)
  <2> USE <1>3
  <2>1. Kind(p)' = Kind(p)
    BY DEF Goes, Kind
  <2>2. ~ Has(p) /\ ~ Has(p)'
    BY <2>1 DEF Has
  <2> QED BY <2>2 DEF QuietMove, Moves, Goes, Keeps
\* What leaves the lock, the runs and the past alone is quiet.
<1>4. ASSUME Rest, PastQuiet, DOMAIN held' = Procs PROVE QuietWorld
  BY <1>4, RestIs DEF PastQuiet, QuietWorld, Frame
\* Nothing about p changes.
<1>5. ASSUME Shape, NEW p \in Procs, UNCHANGED proc PROVE QuietMove(p)
  <2> USE <1>5
  <2>1. /\ Kind(p)' = Kind(p) /\ Run(p)' = Run(p) /\ (Keeps(p)' <=> Keeps(p)) /\ (Has(p)' <=> Has(p))
    BY DEF Kind, Run, Keeps, Has
  <2> QED BY <2>1 DEF QuietMove, Moves, Shape, Kind, Run
\* Steps that open, build or look.
<1>6. ASSUME Shape, NEW p \in Procs, NEW S,
             NEW s \in {"base", "connect", "setup", "docker", "connYAML", "running", "gather", "nodeGroup",
                        "joined", "health", "find"}, Opening(p, s, S)
      PROVE  Calm(p)
  <2> USE <1>6
  <2>1. Advance(p) /\ Stage(p) = s /\ Own /\ NoFault /\ Opens(p, S)
    BY DEF Opening
  <2>2. QuietMove(p)
    BY <2>1, QuietAdvance
  <2>3. QuietWorld
    BY <2>1, RestIs, NoFaultQuiet, HeldShape, <1>4
  <2> QED BY <2>2, <2>3 DEF Calm
\* Connections and waits leave the lock alone.
<1>7. ASSUME Shape, NEW p \in Procs,
             \/ ConnectToCluster(p) \/ ConnectSetup(p) \/ WaitForDockerReady(p) \/ StageConnYAML(p)
             \/ WaitVMsRunning(p) \/ GatherVMInfo(p) \/ CreateStaticNodeGroup(p) \/ WaitForAllNodesReady(p)
             \/ checkClusterHealthWithRetries(p) \/ FindInCommander(p)
      PROVE  Calm(p)
  <2> USE <1>7
  <2>1. CASE ConnectToCluster(p) \/ ConnectSetup(p) \/ StageConnYAML(p)
    BY <2>1, <1>6 DEF ConnectToCluster, ConnectSetup, StageConnYAML
  <2>2. CASE \/ WaitForDockerReady(p) \/ WaitVMsRunning(p) \/ GatherVMInfo(p) \/ CreateStaticNodeGroup(p)
             \/ WaitForAllNodesReady(p) \/ checkClusterHealthWithRetries(p) \/ FindInCommander(p)
    BY <2>2, <1>6
       DEF Looking, WaitForDockerReady, WaitVMsRunning, GatherVMInfo, CreateStaticNodeGroup,
           WaitForAllNodesReady, checkClusterHealthWithRetries, FindInCommander
  <2> QED BY <2>1, <2>2
\* A run builds its cluster.
<1>8. ASSUME Shape, NEW p \in Procs,
             \/ saveClusterState(p) \/ PrepareBootstrapConfig(p) \/ UploadBootstrapFiles(p)
             \/ BootstrapCluster(p) \/ AddNodesToCluster(p) \/ EnableAndConfigureModules(p)
             \/ createCommanderCluster(p)
      PROVE  Calm(p)
  <2> USE <1>8
  <2>1. Advance(p) /\ Stage(p) \in {"save", "prepare", "upload", "dhctl", "join", "modules", "created"}
    BY DEF saveClusterState, PrepareBootstrapConfig, UploadBootstrapFiles, BootstrapCluster,
                 AddNodesToCluster, EnableAndConfigureModules, createCommanderCluster
  <2>2. QuietMove(p)
    BY <2>1, QuietAdvance
  <2>3. NoFault
    BY DEF saveClusterState, PrepareBootstrapConfig, UploadBootstrapFiles, BootstrapCluster,
                 AddNodesToCluster, EnableAndConfigureModules, createCommanderCluster
  <2>4. Rest /\ (UNCHANGED held \/ Closes(p, {"connYAML"}))
    BY RestIs DEF saveClusterState, PrepareBootstrapConfig, UploadBootstrapFiles, BootstrapCluster,
           AddNodesToCluster, EnableAndConfigureModules, createCommanderCluster, Rest
  <2>5. QuietWorld
    BY <2>3, <2>4, NoFaultQuiet, HeldShape, <1>4
  <2> QED BY <2>2, <2>5 DEF Calm
\* So do the wait for the modules and the tests.
<1>9. ASSUME Shape, NEW p \in Procs, WaitForTestClusterReady(p) \/ Use(p) PROVE Calm(p)
  <2> USE <1>9
  <2>1. Advance(p) /\ Stage(p) \in {"ready", "use"} /\ Own
    BY DEF WaitForTestClusterReady, Use
  <2>2. QuietMove(p)
    BY <2>1, QuietAdvance
  <2>3. PastQuiet
    <3>1. UNCHANGED past \/ \E f \in {"delivered", "cleaned"} : Note(f, Id(p))
      BY DEF WaitForTestClusterReady, Use
    <3>2. {"delivered", "cleaned"} \subseteq Pasts \ {"twice"}
      BY DEF Pasts
    <3> QED BY <3>1, <3>2, NoteQuiet, PastKept
  <2>4. UNCHANGED held
    BY SMT DEF WaitForTestClusterReady, Use
  <2> QED BY <2>1, <2>2, <2>3, <2>4, RestIs, HeldShape, <1>4 DEF Calm
\* So does the second look at the state file.
<1>10. ASSUME Shape, NEW p \in Procs, loadClusterState(p) PROVE Calm(p)
  <2> USE <1>10
  <2>1. Stage(p) = "saved" /\ Own
    BY DEF loadClusterState
  <2>2. ~ Idle(p) /\ Kind(p) \notin Locking /\ ~ Has(p)
    BY <2>1, <1>2 DEF OwnSteps, Has
  <2>3. UNCHANGED held
    BY SMT DEF loadClusterState
  <2>4. CASE Ends(p, "panic") /\ UNCHANGED past
    BY <2>1, <2>2, <2>3, <2>4, QuietEnd, PastKept, RestIs, HeldShape, <1>4 DEF Calm
  <2>5. CASE proc' = [proc EXCEPT ![p].pc = @ + 1, ![p].id = state] /\ Note("resumed", state)
    <3>1. Goes(p, proc[p].pc + 1)
      BY SMT, <2>5 DEF Goes, Shape, Fields, Kind, Run
    <3>2. proc[p].pc + 1 \in 0 .. Len(Program[Kind(p)])
      <4> DEFINE n == proc[p].pc  e == Len(Program[Kind(p)])
      <4>1. n \in Nat /\ e \in Nat /\ n <= e /\ n # e
        BY <2>1, <2>2, AtOther
      <4> QED BY SMT, <4>1
    <3>3. QuietMove(p)
      BY <2>2, <3>1, <3>2, <1>3
    <3>4. PastQuiet
      BY <2>5, NoteQuiet DEF Pasts
    <3> QED BY <2>1, <2>3, <3>3, <3>4, RestIs, HeldShape, <1>4 DEF Calm
  <2> QED BY <2>4, <2>5 DEF loadClusterState
\* Machines are made and removed.
<1>11. ASSUME Shape, NEW p \in Procs,
              CheckConflicts(p) \/ Goroutine(p) \/ CreateVirtualMachines(p) \/ RemoveMachine(p)
       PROVE  Calm(p)
  <2> USE <1>11
  <2>1. NoFault /\ Machines
    BY DEF CheckConflicts, Goroutine, CreateVirtualMachines, RemoveMachine
  <2>2. CASE CheckConflicts(p)
    <3>1. Stage(p) = "conflicts" /\ ((Advance(p) /\ UNCHANGED held) \/ Fails(p))
      BY <2>2 DEF CheckConflicts
    <3> QED BY <2>1, <3>1, QuietAdvance, QuietFails, FailsHeld, HeldShape, RestIs, NoFaultQuiet, <1>4
            DEF Calm
  <2>3. CASE Goroutine(p) \/ RemoveMachine(p)
    <3>1. UNCHANGED <<proc, held>>
      BY <2>3 DEF Goroutine, RemoveMachine
    <3> QED BY <2>1, <3>1, <1>5, HeldShape, RestIs, NoFaultQuiet, <1>4 DEF Calm
  <2>4. CASE CreateVirtualMachines(p)
    <3>1. Stage(p) \in {"images", "machines"} /\ ((Advance(p) /\ UNCHANGED held) \/ Fails(p))
      BY <2>4 DEF CreateVirtualMachines
    <3> QED BY <2>1, <3>1, QuietAdvance, QuietFails, FailsHeld, HeldShape, RestIs, NoFaultQuiet, <1>4
            DEF Calm
  <2> QED BY <2>2, <2>3, <2>4
\* The cleanup of a run that has built its cluster.
<1>12. ASSUME Shape, NEW p \in Procs, CloseTestCluster(p) \/ RemoveAllVMs(p) \/ CloseBase(p)
       PROVE  Calm(p)
  <2> USE <1>12
  <2>1. CASE CloseTestCluster(p)
    <3>1. /\ Stage(p) = "close" /\ Kind(p) \in {"create", "resume"} /\ Advance(p) /\ NoFault /\ Machines
          /\ Closes(p, {"test", "testTunnel", "setup"})
      BY <2>1 DEF CloseTestCluster
    <3> QED BY <3>1, QuietAdvance, HeldShape, RestIs, NoFaultQuiet, <1>4 DEF Calm
  <2>2. CASE RemoveAllVMs(p)
    <3>1. /\ Stage(p) = "removeSetup" /\ NoFault /\ Machines /\ Closes(p, {"connYAML"})
          /\ Advance(p) \/ Ends(p, "panic")
      BY <2>2 DEF RemoveAllVMs
    <3>2. ~ Idle(p) /\ ~ Has(p)
      BY <3>1, <1>2 DEF OwnSteps, Has
    <3>3. QuietMove(p)
      BY <3>1, <3>2, QuietAdvance, QuietEnd
    <3> QED BY <3>1, <3>3, HeldShape, RestIs, NoFaultQuiet, <1>4 DEF Calm
  <2>3. CASE CloseBase(p)
    <3>1. CASE Stage(p) = "removeAll" /\ Advance(p) /\ NoFault /\ Own /\ UNCHANGED <<held, cluster>>
      <4>1. UNCHANGED held
        BY <3>1
      <4> QED BY <3>1, <4>1, QuietAdvance, HeldShape, RestIs, NoFaultQuiet, <1>4 DEF Calm
    <3>2. CASE /\ Stage(p) = "closeBase" /\ Closes(p, {"base", "baseTunnel"}) /\ Ends(p, "done") /\ Own
               /\ Note("clean", Run(p)) \/ UNCHANGED past
      <4>1. ~ Idle(p) /\ ~ Has(p)
        BY <3>2, <1>2 DEF OwnSteps, Has
      <4>2. PastQuiet
        BY <3>2, NoteQuiet, PastKept DEF Pasts
      <4> QED BY <3>2, <4>1, <4>2, QuietEnd, HeldShape, RestIs, <1>4 DEF Calm
    <3> QED BY <2>3, <3>1, <3>2 DEF CloseBase
  <2> QED BY <2>1, <2>2, <2>3
\* The cleanup of one that has not.
<1>13. ASSUME Shape, NEW p \in Procs, CloseExisting(p) \/ DeleteCommanderCluster(p)
       PROVE  Calm(p)
  <2> USE <1>13
  <2>0. Stage(p) \in {"close", "delete"} /\ Kind(p) \in Locking /\ ~ Idle(p) /\ NoFault
    <3>1. CASE CloseExisting(p)
      <4>1. Stage(p) = "close" /\ Kind(p) \in Locking /\ NoFault
        BY <3>1 DEF CloseExisting
      <4> QED BY <4>1 DEF Stage
    <3>2. CASE DeleteCommanderCluster(p)
      <4>1. Stage(p) = "delete" /\ NoFault
        BY <3>2 DEF DeleteCommanderCluster
      <4> QED BY <4>1, LockersOnly
    <3> QED BY <3>1, <3>2
  <2>1. ~ Has(p)
    <3> DEFINE n == proc[p].pc  l == LockAt[Kind(p)]  u == UseAt[Kind(p)]
    <3>1. (n = u + 2 \/ n = u + 3) /\ u \in Nat /\ (Has(p) <=> n > l /\ n <= u + 1)
      BY <2>0, AtLocking
    <3>2. ~ (n <= u + 1)
      BY SMT, <3>1
    <3> QED BY <3>1, <3>2
  <2>2. CASE CloseExisting(p)
    <3>1. /\ Stage(p) = "close" /\ Own /\ Closes(p, {"test", "testTunnel"})
          /\ (Advance(p) /\ Kind(p) = "commander") \/ Ends(p, "done")
      BY <2>2 DEF CloseExisting
    <3>2. QuietMove(p)
      BY <2>0, <2>1, <3>1, QuietAdvance, QuietEnd
    <3> QED BY <2>0, <3>1, <3>2, HeldShape, RestIs, NoFaultQuiet, <1>4 DEF Calm
  <2>3. CASE DeleteCommanderCluster(p)
    <3>1. Ends(p, "done")
      BY <2>3 DEF DeleteCommanderCluster
    <3>2. Rest /\ UNCHANGED held
      BY SMT, <2>3 DEF DeleteCommanderCluster, Rest
    <3> QED BY <2>0, <2>1, <3>1, <3>2, QuietEnd, HeldShape, NoFaultQuiet, <1>4 DEF Calm
  <2> QED BY <2>2, <2>3
\* A run that gives up goes to the release of its lock.
<1>14. ASSUME Shape, NEW p \in Procs, GivesUp(p) PROVE Calm(p)
  <2> USE <1>14
  <2>1. Fails(p) /\ Own /\ NoFault /\ Stage(p) \notin {"idle", "unlock", "close", "delete"}
    BY HopelessAt DEF GivesUp, Leaving
  <2> QED BY <2>1, QuietFails, FailsHeld, RestIs, NoFaultQuiet, <1>4 DEF Calm
\* So does one whose step fails.
<1>15. ASSUME Shape, NEW p \in Procs, StepFails(p) PROVE Calm(p)
  <2> USE <1>15
  <2>1. Stage(p) \notin {"idle", "unlock", "close", "delete"} /\ Fault(p)
    BY StepsAre DEF StepFails, Leaving
  <2>2. Rest
    BY SMT DEF StepFails, Rest
  <2>3. CASE Fails(p)
    BY <2>1, <2>2, <2>3, QuietFails, FailsHeld, FaultQuiet, <1>4 DEF Calm
  <2>4. CASE /\ Kind(p) \in Locking /\ proc[p].pc > Place[Kind(p)]["lock"] /\ Unlocks(p, "dead")
             /\ UNCHANGED held
    <3>1. ~ Idle(p)
      BY <2>1 DEF Stage
    <3>2. QuietMove(p)
      BY <2>1, <2>4, <3>1, QuietUnlock
    <3> QED BY <2>1, <2>2, <2>4, <3>2, HeldShape, FaultQuiet, <1>4 DEF Calm
  <2> QED BY <2>3, <2>4 DEF StepFails, Unlocks
\* A connection file that stays is none of the lock's business.
<1>16. ASSUME Shape, NEW p \in Procs, ConnYAMLStays(p) PROVE Calm(p)
  <2> USE <1>16
  <2>1. Stage(p) \in {"connYAML", "dhctl"}
    BY DEF ConnYAMLStays
  <2>2. ~ Idle(p) /\ ~ Has(p)
    BY <2>1, <1>2 DEF OwnSteps, Has
  <2>3. /\ Ends(p, "failed") \/ Advance(p)
        /\ held' = [held EXCEPT ![p] = {"connYAML"}] \/ UNCHANGED held
    BY DEF ConnYAMLStays
  <2>4. PastQuiet
    BY SMT DEF ConnYAMLStays, PastQuiet, Grows, Shape, Pasts
  <2>5. Rest
    BY SMT DEF ConnYAMLStays, Rest
  <2>6. QuietMove(p)
    BY <2>1, <2>2, <2>3, QuietEnd, QuietAdvance
  <2> QED BY <2>3, <2>4, <2>5, <2>6, HeldShape, <1>4 DEF Calm
\* Other faults leave the lock alone, and a killed run is known to be killed.
<1>17. ASSUME Shape, NEW p \in Procs, SaveFails(p) \/ MachineFails(p) \/ CleanupFails(p) \/ Kill(p)
       PROVE  Calm(p)
  <2> USE <1>17
  <2>1. PastQuiet
    BY FaultQuiet DEF SaveFails, MachineFails, CleanupFails, Kill
  <2>2. CASE SaveFails(p)
    <3>1. Stage(p) = "save" /\ Advance(p) /\ Own /\ UNCHANGED held
      BY <2>2 DEF SaveFails
    <3> QED BY <2>1, <3>1, QuietAdvance, HeldShape, RestIs, <1>4 DEF Calm
  <2>3. CASE MachineFails(p)
    <3>1. Machines /\ UNCHANGED proc /\ UNCHANGED held
      BY <2>3 DEF MachineFails
    <3> QED BY <2>1, <3>1, <1>5, HeldShape, RestIs, <1>4 DEF Calm
  <2>4. CASE CleanupFails(p)
    <3>0. Own
      BY <2>4 DEF CleanupFails
    <3>1. CASE /\ Stage(p) = "close" /\ Kind(p) \in {"create", "resume"}
               /\ Closes(p, {"test", "testTunnel", "setup"})
               /\ proc' = [proc EXCEPT ![p].pc = Place[Kind(p)]["closeBase"]]
      <4> DEFINE n == Place[Kind(p)]["closeBase"]
      <4>1. Goes(p, n)
        BY SMT, <3>1 DEF Shape, Goes, Kind, Run, Fields
      <4>2. n \in 0 .. Len(Program[Kind(p)])
        BY <3>1, <1>1
      <4>3. ~ Idle(p) /\ Kind(p) \notin Locking
        BY <3>1 DEF Stage, Locking
      <4>4. QuietMove(p)
        BY <4>1, <4>2, <4>3, <1>3
      <4> QED BY <2>1, <3>0, <3>1, <4>4, HeldShape, RestIs, <1>4 DEF Calm
    <3>2. CASE Stage(p) = "delete" /\ Ends(p, "done") /\ UNCHANGED held
      <4> DEFINE u == UseAt[Kind(p)]
      <4>1. ~ Idle(p) /\ Kind(p) \in Locking
        BY <3>2, LockersOnly
      <4>2. proc[p].pc = u + 3 /\ u \in Nat /\ (Has(p) => proc[p].pc <= u + 1)
        BY <3>2, <4>1, AtLocking
      <4>3. ~ Has(p)
        BY SMT, <4>2
      <4> QED BY <2>1, <3>0, <3>2, <4>1, <4>3, QuietEnd, HeldShape, RestIs, <1>4 DEF Calm
    <3> QED BY <2>4, <3>1, <3>2 DEF CleanupFails
  <2>5. CASE Kill(p)
    <3>1. ~ Idle(p) /\ Ends(p, "killed") /\ held' = [held EXCEPT ![p] = {}]
      BY <2>5 DEF Kill
    <3>2. Rest
      BY SMT, <2>5 DEF Kill, Rest
    <3> QED BY <2>1, <3>1, <3>2, QuietEnd, HeldShape, <1>4 DEF Calm
  <2> QED BY <2>2, <2>3, <2>4, <2>5
<1> SUFFICES ASSUME Shape, NEW p \in Procs, Create(p) \/ Use(p) \/ Cleanup(p) \/ Faults(p)
             PROVE  \/ Calm(p) \/ AcquireClusterLock(p) \/ AcquireFails(p)
             \/ ReleaseClusterLock(p) \/ ReleaseFails(p)
  OBVIOUS
<1>18. CASE Create(p)
  BY <1>18, <1>7, <1>8, <1>9, <1>10, <1>11, <1>14 DEF Create
<1>19. CASE Cleanup(p)
  BY <1>19, <1>12, <1>13, <1>11 DEF Cleanup
<1>20. CASE Faults(p)
  BY <1>20, <1>15, <1>16, <1>17 DEF Faults
<1> QED BY <1>18, <1>19, <1>20, <1>9

\* Every step of a process is its own, and nothing that has happened is forgotten.
LEMMA ActionMoves ==
    Shape => \A p \in Procs : Create(p) \/ Use(p) \/ Cleanup(p) \/ Faults(p) =>
           Moves(p) /\ Frame
\* The steps at the lock are steps of one process too.
<1>1. ASSUME Shape, NEW p \in Procs,
             AcquireClusterLock(p) \/ AcquireFails(p) \/ ReleaseClusterLock(p) \/ ReleaseFails(p)
      PROVE  Moves(p) /\ Frame
  <2> USE <1>1
  <2>1. UNCHANGED <<runs, env>>
    BY RestIs DEF AcquireClusterLock, AcquireFails, ReleaseClusterLock, ReleaseFails
  <2>2. DOMAIN past' = Pasts /\ Grows
    <3>1. \/ NoFault \/ Note("disturbed", Run(p))
          \/ past' = [past EXCEPT !.disturbed = @ \cup {Run(p)}, !.lockLost = @ \cup {Run(p)}]
          \/ past' = [past EXCEPT !.twice = @ \/ (proc[p].sub = "again" /\ Holder(p) \notin {0, Run(p)})]
      BY DEF AcquireClusterLock, AcquireFails, ReleaseClusterLock, ReleaseFails, Fault
    <3>2. CASE NoFault
      BY <3>2, NoFaultQuiet DEF PastQuiet
    <3>3. CASE Note("disturbed", Run(p))
      BY <3>3, NoteQuiet DEF PastQuiet, Pasts
    <3>4. CASE past' = [past EXCEPT !.disturbed = @ \cup {Run(p)}, !.lockLost = @ \cup {Run(p)}]
      BY SMT, <3>4 DEF Grows, Shape, Pasts
    <3>5. CASE past' = [past EXCEPT !.twice = @ \/ (proc[p].sub = "again" /\ Holder(p) \notin {0, Run(p)})]
      BY SMT, <3>5 DEF Grows, Shape, Pasts
    <3> QED BY <3>1, <3>2, <3>3, <3>4, <3>5
  <2>3. CASE AcquireClusterLock(p) \/ AcquireFails(p)
    <3>1. /\ Stage(p) = "lock"
          /\ \/ Fails(p)
             \/ (Sub(p, "get") \/ Sub(p, "create")) /\ UNCHANGED held
             \/ Advance(p) /\ UNCHANGED held
      BY <2>3 DEF AcquireClusterLock, AcquireFails
    <3>2. ~ Idle(p) /\ proc[p].pc + 1 \in 0 .. Len(Program[Kind(p)]) /\ DOMAIN held' = Procs
      BY <3>1, AtLock, FailsHeld, HeldShape
    <3>3. CASE Fails(p)
      BY <2>1, <2>2, <3>1, <3>2, <3>3, QuietFails DEF QuietMove, Frame
    <3>4. CASE Sub(p, "get") \/ Sub(p, "create")
      BY <2>1, <2>2, <3>2, <3>4, SubMoves DEF Frame
    <3>5. CASE Advance(p)
      BY <2>1, <2>2, <3>2, <3>5, AdvanceGoes DEF Moves, Goes, Frame
    <3> QED BY <3>1, <3>3, <3>4, <3>5
  <2>4. CASE ReleaseClusterLock(p) \/ ReleaseFails(p)
    <3>1. Stage(p) = "unlock" /\ (AfterUnlock(p) \/ (Sub(p, "again") /\ UNCHANGED held))
      BY <2>4 DEF ReleaseClusterLock, ReleaseFails
    <3>2. ~ Idle(p) /\ DOMAIN held' = Procs
      BY <3>1, LockersOnly, AfterUnlockHeld, HeldShape
    <3> QED BY <2>1, <2>2, <3>1, <3>2, AfterUnlockMoves, SubMoves DEF Frame
  <2> QED BY <2>3, <2>4
<1> SUFFICES ASSUME Shape, NEW p \in Procs, Create(p) \/ Use(p) \/ Cleanup(p) \/ Faults(p)
             PROVE  Moves(p) /\ Frame
  OBVIOUS
<1> QED BY Actions, <1>1 DEF Calm, QuietMove, QuietWorld

\* Every step keeps the invariant of the lock.
LEMMA LockNext ==
    Shape /\ LockInv /\ [Next]_vars => Shape' /\ LockInv'
\* What is true of the others, and of p.
<1>1. ASSUME NEW p \in Procs, Moves(p)
      PROVE  /\ \A q \in Procs \ {p} : /\ (Idle(q)' <=> Idle(q)) /\ (Killed(q)' <=> Killed(q))
                                      /\ (Keeps(q)' <=> Keeps(q)) /\ (Has(q)' <=> Has(q))
             /\ \A q \in Procs : Kind(q)' = Kind(q) /\ Run(q)' = Run(q) /\ ClusterOf(q)' = ClusterOf(q)
             /\ (Idle(p) => Idle(p)') /\ (Killed(p) => Killed(p)')
  <2> USE <1>1
  <2>1. \A q \in Procs \ {p} : /\ Kind(q)' = Kind(q) /\ Run(q)' = Run(q) /\ (Idle(q)' <=> Idle(q))
                              /\ (Keeps(q)' <=> Keeps(q)) /\ (Has(q)' <=> Has(q)) /\ (Killed(q)' <=> Killed(q))
    BY DEF Moves, Kind, Run, Idle, Keeps, Has, Killed
  <2>2. Kind(p)' = Kind(p) /\ Run(p)' = Run(p) /\ (Idle(p) => Idle(p)') /\ (Killed(p) => Killed(p)')
    BY DEF Moves, Kind, Run, Idle, Killed
  <2>3. \A q \in Procs : Kind(q)' = Kind(q) /\ Run(q)' = Run(q)
    BY <2>1, <2>2
  <2>4. \A q \in Procs : ClusterOf(q)' = ClusterOf(q)
    BY <2>3 DEF ClusterOf
  <2> QED BY <2>1, <2>2, <2>3, <2>4
\* A step of one process keeps Shape.
<1>2. ASSUME Shape, NEW p \in Procs, Moves(p), Frame,
             DOMAIN lock' = 0 .. MaxRuns, \A c \in 0 .. MaxRuns : lock'[c] \in 0 .. runs
      PROVE  Shape'
  <2> USE <1>2
  <2>1. \A q \in Procs : Kind(q)' = Kind(q) /\ Run(q)' = Run(q) /\ (Idle(q) => Idle(q)')
    BY <1>1
  <2>2. \A q \in Procs : proc'[q].pc \in 0 .. Len(Program[Kind(q)])
    BY DEF Moves, Shape, Kind
  <2>3. \A q, r \in Procs : Run(q)' = Run(r)' /\ Run(q)' # 0 => q = r
    BY <2>1 DEF Shape
  <2>4. \A q \in Procs : Run(q)' = 0 => Idle(q)'
    BY <2>1 DEF Shape
  <2>5. \A q \in Procs : Kind(q)' \in Kinds /\ (proc[q].pc)' \in 0 .. Len(Program[Kind(q)'])
    BY <2>1, <2>2 DEF Shape
  <2>6. \A q \in Procs : Run(q)' \in 0 .. runs'
    <3>1. runs' = runs
      BY DEF Frame
    <3> QED BY ZenonT(30), <2>1, <3>1 DEF Shape
  <2> QED BY <2>3, <2>4, <2>5, <2>6 DEF Shape, Moves, Frame
\* A step that leaves the lock alone keeps the invariant of the lock.
<1>3. ASSUME Shape, LockInv, NEW p \in Procs, QuietMove(p), QuietWorld
      PROVE  Shape' /\ LockInv'
  <2> USE <1>3
  <2>1. Shape'
    BY <1>2 DEF Shape, QuietMove, QuietWorld
  <2>2. \A q \in Procs : Holder(q)' = Holder(q)
    BY <1>1 DEF Holder, QuietWorld, QuietMove
  <2>3. \A q \in Procs \ {p} : (Killed(q)' <=> Killed(q)) /\ (Keeps(q)' <=> Keeps(q)) /\ (Has(q)' <=> Has(q))
    BY <1>1 DEF QuietMove
  <2>4. \A q \in Procs : Kind(q)' = Kind(q) /\ Run(q)' = Run(q)
    BY <1>1 DEF QuietMove
  <2>5. Killed(p) => Killed(p)'
    BY <1>1 DEF QuietMove
  <2>6. LockInv'
    BY <2>2, <2>3, <2>4, <2>5 DEF LockInv, QuietWorld, QuietMove, Frame, Grows
  <2> QED BY <2>1, <2>6
\* A lock is written for one cluster.
<1>4. ASSUME Shape, NEW p \in Procs, ClusterOf(p) \in 0 .. MaxRuns, NEW r \in 0 .. runs, Lock(p, r)
      PROVE  /\ DOMAIN lock' = 0 .. MaxRuns /\ \A c \in 0 .. MaxRuns : lock'[c] \in 0 .. runs
             /\ lock'[ClusterOf(p)] = r
             /\ \A c : c # ClusterOf(p) /\ c \in 0 .. MaxRuns => lock'[c] = lock[c]
  BY <1>4 DEF Shape, Lock
\* Every process has its cluster.
<1>5. ASSUME Shape PROVE \A q \in Procs : ClusterOf(q) \in 0 .. MaxRuns
  <2> USE <1>5
  <2> SUFFICES ASSUME NEW q \in Procs PROVE ClusterOf(q) \in 0 .. MaxRuns
    OBVIOUS
  <2>1. Run(q) \in 0 .. runs /\ runs \in 0 .. MaxRuns
    BY DEF Shape
  <2>2. ClusterOf(q) \in {0, Run(q)}
    BY DEF ClusterOf
  <2> QED BY SMT, <2>1, <2>2, BoundAssumption
\* The lock is made where there was none.
<1>6. ASSUME Shape, LockInv, NEW p \in Procs, Moves(p), Frame, past'.twice = past.twice,
             Stage(p) = "lock", Holder(p) = 0, Lock(p, Run(p)),
             Has(p)' \/ (Run(p) \in past'.lockLost /\ ~ Keeps(p)')
      PROVE  Shape' /\ LockInv'
  <2> USE <1>6
  <2> DEFINE c == ClusterOf(p)
  <2>1. c \in 0 .. MaxRuns /\ Run(p) # 0 /\ Run(p) \in 0 .. runs
    BY LockersOnly DEF Shape
  <2>2. /\ DOMAIN lock' = 0 .. MaxRuns /\ \A d \in 0 .. MaxRuns : lock'[d] \in 0 .. runs
        /\ lock'[c] = Run(p) /\ \A d : d # c /\ d \in 0 .. MaxRuns => lock'[d] = lock[d]
    BY <2>1, <1>4
  <2>3. Shape'
    BY <2>2, <1>2
  <2>4. \A q \in Procs \ {p} : (Killed(q)' <=> Killed(q)) /\ (Keeps(q)' <=> Keeps(q)) /\ (Has(q)' <=> Has(q))
    BY <1>1
  <2>5. \A q \in Procs : Kind(q)' = Kind(q) /\ Run(q)' = Run(q) /\ ClusterOf(q)' = ClusterOf(q)
    BY <1>1
  <2>6. \A q \in Procs : Holder(q)' = lock'[ClusterOf(q)]
    BY <2>5 DEF Holder
  <2>7. \A q \in Procs : ClusterOf(q) \in 0 .. MaxRuns
    BY <1>5
  <2>8. ASSUME ~ past'.twice, NEW q \in Procs, Keeps(q)' PROVE Holder(q)' = Run(q)'
    <3>1. CASE q = p
      BY <2>2, <2>5, <2>6, <3>1
    <3>2. CASE q # p
      <4>1. Keeps(q) /\ Holder(q) = Run(q) /\ Has(q)
        BY <2>4, <2>8, <3>2 DEF LockInv, Keeps
      <4>2. Run(q) # 0
        BY <4>1, HasRun
      <4>3. ClusterOf(q) # c
        BY <4>1, <4>2 DEF Holder
      <4> QED BY <2>2, <2>5, <2>6, <2>7, <4>1, <4>3 DEF Holder
    <3> QED BY <3>1, <3>2
  <2>9. ASSUME NEW q \in Procs, Kind(q)' \in Locking, Holder(q)' = Run(q)', Run(q)' # 0
        PROVE  Run(q)' \in past'.lockLost \/ Has(q)' \/ Killed(q)'
    <3>1. CASE q = p
      BY <2>5, <3>1
    <3>2. CASE q # p
      <4>1. ClusterOf(q) # c
        BY ZenonT(30), <2>2, <2>5, <2>6, <2>9, <3>2 DEF Shape
      <4>2. Holder(q) = Run(q)
        BY <2>2, <2>5, <2>6, <2>7, <2>9, <4>1 DEF Holder
      <4>3. Run(q) \in past.lockLost \/ Has(q) \/ Killed(q)
        BY <2>5, <2>9, <4>2 DEF LockInv
      <4> QED BY <2>4, <2>5, <3>2, <4>3 DEF Frame, Grows
    <3> QED BY <3>1, <3>2
  <2> QED BY <2>3, <2>8, <2>9 DEF LockInv
\* The lock is taken away.
<1>7. ASSUME Shape, LockInv, NEW p \in Procs, Moves(p), Frame, Stage(p) = "unlock", Lock(p, 0), ~ Keeps(p)',
             ~ past'.twice => ~ past.twice /\ (Keeps(p) \/ Holder(p) \in {0, Run(p)})
      PROVE  Shape' /\ LockInv'
  <2> USE <1>7
  <2> DEFINE c == ClusterOf(p)
  <2>1. c \in 0 .. MaxRuns /\ 0 \in 0 .. runs
    <3>1. c \in 0 .. MaxRuns /\ runs \in 0 .. MaxRuns
      BY LockersOnly DEF Shape
    <3>2. 0 \in 0 .. runs
      BY SMT, <3>1, BoundAssumption
    <3> QED BY <3>1, <3>2
  <2>2. /\ DOMAIN lock' = 0 .. MaxRuns /\ \A d \in 0 .. MaxRuns : lock'[d] \in 0 .. runs
        /\ lock'[c] = 0 /\ \A d : d # c /\ d \in 0 .. MaxRuns => lock'[d] = lock[d]
    BY <2>1, <1>4
  <2>3. Shape'
    BY <2>2, <1>2
  <2>4. \A q \in Procs \ {p} : (Killed(q)' <=> Killed(q)) /\ (Keeps(q)' <=> Keeps(q)) /\ (Has(q)' <=> Has(q))
    BY <1>1
  <2>5. \A q \in Procs : Kind(q)' = Kind(q) /\ Run(q)' = Run(q) /\ ClusterOf(q)' = ClusterOf(q)
    BY <1>1
  <2>6. \A q \in Procs : Holder(q)' = lock'[ClusterOf(q)]
    BY <2>5 DEF Holder
  <2>7. \A q \in Procs : ClusterOf(q) \in 0 .. MaxRuns
    BY <1>5
  <2>8. ASSUME ~ past'.twice, NEW q \in Procs, Keeps(q)' PROVE Holder(q)' = Run(q)'
    <3>1. q # p
      BY <2>8
    <3>2. Keeps(q) /\ Holder(q) = Run(q) /\ Has(q)
      BY <2>4, <2>8, <3>1 DEF LockInv, Keeps
    <3>3. Run(q) # 0
      BY <3>2, HasRun
    <3>4. Keeps(p) => Holder(p) = Run(p)
      BY <2>8 DEF LockInv
    <3>5. ClusterOf(q) # c
      <4> SUFFICES ASSUME ClusterOf(q) = c PROVE FALSE
        OBVIOUS
      <4>1. Holder(p) = Run(q)
        BY <3>2 DEF Holder
      <4>2. Run(p) = Run(q)
        BY <2>8, <3>3, <3>4, <4>1
      <4> QED BY <3>1, <3>3, <4>2 DEF Shape
    <3> QED BY <2>2, <2>5, <2>6, <2>7, <3>2, <3>5 DEF Holder
  <2>9. ASSUME NEW q \in Procs, Kind(q)' \in Locking, Holder(q)' = Run(q)', Run(q)' # 0
        PROVE  Run(q)' \in past'.lockLost \/ Has(q)' \/ Killed(q)'
    <3>1. ClusterOf(q) # c
      BY <2>2, <2>5, <2>6, <2>9
    <3>2. q # p
      BY <3>1
    <3>3. Holder(q) = Run(q)
      BY <2>2, <2>5, <2>6, <2>7, <2>9, <3>1 DEF Holder
    <3>4. Run(q) \in past.lockLost \/ Has(q) \/ Killed(q)
      BY <2>5, <2>9, <3>3 DEF LockInv
    <3> QED BY <2>4, <2>5, <3>2, <3>4 DEF Frame, Grows
  <2> QED BY <2>3, <2>8, <2>9 DEF LockInv
\* The frame of the steps at the lock.
<1>8. ASSUME Shape, UNCHANGED <<runs, env>>, DOMAIN held' = Procs, PastQuiet PROVE Frame
  BY <1>8 DEF Frame, PastQuiet
\* AcquireClusterLock keeps the invariant: it creates a lock only where there is none.
<1>9. ASSUME Shape, LockInv, NEW p \in Procs, AcquireClusterLock(p) PROVE Shape' /\ LockInv'
  <2> USE <1>9
  <2>1. Stage(p) = "lock" /\ NoFault /\ UNCHANGED <<runs, env>>
    BY RestIs DEF AcquireClusterLock
  <2>2. PastQuiet /\ past'.twice = past.twice
    BY <2>1, NoFaultQuiet DEF PastQuiet
  <2>3. ~ Idle(p) /\ ~ Has(p) /\ Kind(p) \in Locking
    BY <2>1, AtLock
  <2>4. CASE Fails(p) /\ UNCHANGED lock
    <3>1. QuietMove(p) /\ DOMAIN held' = Procs
      BY <2>1, <2>4, QuietFails, FailsHeld
    <3>2. QuietWorld
      BY <2>1, <2>2, <2>4, <3>1, <1>8 DEF QuietWorld
    <3> QED BY <3>1, <3>2, <1>3
  <2>5. CASE Sub(p, "create") /\ UNCHANGED held /\ UNCHANGED lock
    <3>1. QuietMove(p)
      BY <2>3, <2>5, SubMoves DEF QuietMove, Keeps
    <3>2. QuietWorld
      BY <2>1, <2>2, <2>5, HeldShape, <1>8 DEF QuietWorld
    <3> QED BY <3>1, <3>2, <1>3
  <2>6. CASE Holder(p) = 0 /\ Lock(p, Run(p)) /\ Advance(p) /\ UNCHANGED held
    <3>1. Goes(p, proc[p].pc + 1)
      BY <2>6, AdvanceGoes
    <3>2. Kind(p)' = Kind(p) /\ proc'[p].pc = proc[p].pc + 1
      BY <3>1 DEF Goes, Kind
    <3>3. Has(p)'
      BY <2>1, <2>3, <3>2, AtLock DEF Has
    <3>4. Moves(p)
      BY <2>1, <2>3, <3>1, AtLock DEF Moves, Goes
    <3>5. Frame
      BY <2>1, <2>2, <2>6, HeldShape, <1>8
    <3> QED BY <2>1, <2>2, <2>6, <3>3, <3>4, <3>5, <1>6
  <2> QED BY <2>4, <2>5, <2>6 DEF AcquireClusterLock
\* So does an answer that is lost: the lock that was made for nobody is noted.
<1>10. ASSUME Shape, LockInv, NEW p \in Procs, AcquireFails(p) PROVE Shape' /\ LockInv'
  <2> USE <1>10
  <2>1. Stage(p) = "lock" /\ UNCHANGED <<runs, env>>
    BY RestIs DEF AcquireFails
  <2>2. ~ Idle(p) /\ ~ Has(p) /\ Kind(p) \in Locking /\ ~ (proc[p].pc > Place[Kind(p)]["lock"])
    BY <2>1, AtLock
  <2>3. DOMAIN held' = Procs /\ QuietMove(p) /\ ~ Has(p)'
    <3>1. CASE Sub(p, "get") /\ UNCHANGED held
      BY <2>2, <3>1, SubMoves, HeldShape DEF QuietMove, Keeps
    <3>2. CASE Fails(p)
      <4>1. QuietMove(p) /\ DOMAIN held' = Procs
        BY <2>1, <3>2, QuietFails, FailsHeld
      <4>2. Ends(p, "failed")
        BY <2>2, <3>2 DEF Fails
      <4>3. Goes(p, 0)
        BY <4>2, EndGoes
      <4>4. Kind(p)' = Kind(p) /\ proc'[p].pc = 0
        BY <4>3 DEF Goes, Kind
      <4>5. Place[Kind(p)]["lock"] = LockAt[Kind(p)] /\ LockAt[Kind(p)] \in Nat
        BY <2>2, LockingPlaces, LockingPrograms
      <4>6. ~ (0 > LockAt[Kind(p)])
        BY SMT, <4>5
      <4> QED BY <4>1, <4>4, <4>5, <4>6 DEF Has
    <3> QED BY <3>1, <3>2 DEF AcquireFails
  <2>4. CASE UNCHANGED lock /\ Note("disturbed", Run(p))
    <3>1. PastQuiet
      BY <2>4, NoteQuiet DEF Pasts
    <3>2. QuietWorld
      BY <2>1, <2>3, <2>4, <3>1, <1>8 DEF QuietWorld, PastQuiet
    <3> QED BY <2>3, <3>2, <1>3
  <2>5. CASE /\ Holder(p) = 0 /\ Lock(p, Run(p))
             /\ past' = [past EXCEPT !.disturbed = @ \cup {Run(p)}, !.lockLost = @ \cup {Run(p)}]
    <3>1. PastQuiet /\ past'.twice = past.twice /\ Run(p) \in past'.lockLost
      BY SMT, <2>5 DEF PastQuiet, Grows, Shape, Pasts
    <3>2. Frame
      BY <2>1, <2>3, <3>1, <1>8
    <3>3. Moves(p) /\ ~ Keeps(p)'
      BY <2>3 DEF QuietMove, Keeps
    <3> QED BY <2>1, <2>5, <3>1, <3>2, <3>3, <1>6
  <2> QED BY <2>4, <2>5 DEF AcquireFails
\* ReleaseClusterLock keeps it: what is deleted is the run's own, unless it was deleted before.
<1>11. ASSUME Shape, LockInv, NEW p \in Procs, ReleaseClusterLock(p) PROVE Shape' /\ LockInv'
  <2> USE <1>11
  <2>1. Stage(p) = "unlock" /\ UNCHANGED <<runs, env>> /\ Lock(p, 0) /\ AfterUnlock(p)
    BY RestIs DEF ReleaseClusterLock
  <2>2. Moves(p) /\ ~ Has(p)' /\ Has(p) /\ DOMAIN held' = Procs
    BY <2>1, AfterUnlockMoves, AfterUnlockHeld
  <2>3. /\ DOMAIN past' = Pasts /\ Grows
        /\ past'.twice = (past.twice \/ (proc[p].sub = "again" /\ Holder(p) \notin {0, Run(p)}))
    BY SMT DEF ReleaseClusterLock, Grows, Shape, Pasts
  <2>4. Frame
    BY <2>1, <2>2, <2>3 DEF Frame
  <2>5. ~ past'.twice => ~ past.twice /\ (Keeps(p) \/ Holder(p) \in {0, Run(p)})
    BY <2>2, <2>3 DEF Keeps
  <2>6. ~ Keeps(p)'
    BY <2>2 DEF Keeps
  <2> QED BY <2>1, <2>2, <2>4, <2>5, <2>6, <1>7
\* So does a release that fails or is to be tried again.
<1>12. ASSUME Shape, LockInv, NEW p \in Procs, ReleaseFails(p) PROVE Shape' /\ LockInv'
  <2> USE <1>12
  <2>1. Stage(p) = "unlock" /\ UNCHANGED <<runs, env>>
    BY RestIs DEF ReleaseFails
  <2>2. CASE proc[p].sub = "get" /\ Fault(p) /\ Lock(p, 0) /\ Sub(p, "again") /\ UNCHANGED held
    <3> DEFINE n == proc[p].pc  u == UseAt[Kind(p)]
    <3>1. ~ Idle(p) /\ Kind(p) \in Locking
      BY <2>1, LockersOnly
    <3>2. n = u + 1 /\ u \in Nat /\ LockAt[Kind(p)] \in Nat /\ LockAt[Kind(p)] < u
      BY <2>1, <3>1, AtLocking
    <3>3. Has(p) <=> n > LockAt[Kind(p)] /\ n <= u + 1
      BY <3>1, AtLocking
    <3>4. Place[Kind(p)]["unlock"] = u + 1
      BY <3>1, AtLocking
    <3>5. n > LockAt[Kind(p)] /\ n <= u + 1
      BY SMT, <3>2
    <3>6. /\ Moves(p) /\ proc'[p].sub = "again" /\ proc'[p].pc = n /\ Kind(p)' = Kind(p)
      BY <2>2, <3>1, SubMoves
    <3>7. "get" # "again"
      OBVIOUS
    <3>8. Keeps(p)
      BY <2>2, <3>3, <3>5, <3>7 DEF Keeps
    <3>9. ~ Keeps(p)'
      BY <3>2, <3>4, <3>6 DEF Keeps
    <3>10. PastQuiet
      BY <2>2, FaultQuiet
    <3>11. Frame
      BY <2>1, <2>2, <3>10, HeldShape, <1>8
    <3>12. ~ past'.twice => ~ past.twice
      BY <3>10 DEF PastQuiet
    <3> QED BY <2>1, <2>2, <3>6, <3>8, <3>9, <3>11, <3>12, <1>7
  <2>3. CASE /\ past' = [past EXCEPT !.disturbed = @ \cup {Run(p)}, !.lockLost = @ \cup {Run(p)}]
             /\ AfterUnlock(p) /\ UNCHANGED lock
    <3>1. PastQuiet /\ Run(p) \in past'.lockLost
      BY SMT, <2>3 DEF PastQuiet, Grows, Shape, Pasts
    <3>2. Moves(p) /\ ~ Has(p)' /\ DOMAIN held' = Procs
      BY <2>1, <2>3, AfterUnlockMoves, AfterUnlockHeld
    <3>3. QuietMove(p)
      BY <3>1, <3>2 DEF QuietMove, Keeps
    <3>4. QuietWorld
      BY <2>1, <2>3, <3>1, <3>2, <1>8 DEF QuietWorld, PastQuiet
    <3> QED BY <3>3, <3>4, <1>3
  <2> QED BY <2>2, <2>3 DEF ReleaseFails
\* A run begins, with a number of its own.
<1>13. ASSUME Shape, LockInv, NEW p \in Procs, Start(p) PROVE Shape' /\ LockInv'
  <2> USE <1>13
  <2>1. PICK k \in Kinds : \E id : proc' = [proc EXCEPT ![p] = [NoProc EXCEPT !.kind = k, !.pc = 1, !.run = runs + 1, !.id = id]]
    <3>1. env.kind \in Kinds /\ "create" \in Kinds /\ "resume" \in Kinds
      BY EnvsAssumption, KindsAre DEF Shape
    <3> QED BY <3>1 DEF Start
  <2>2. PICK id : proc' = [proc EXCEPT ![p] = [NoProc EXCEPT !.kind = k, !.pc = 1, !.run = runs + 1, !.id = id]]
    BY <2>1
  <2> DEFINE r == [NoProc EXCEPT !.kind = k, !.pc = 1, !.run = runs + 1, !.id = id]
  <2>3. DOMAIN r = Fields /\ r.kind = k /\ r.pc = 1 /\ r.run = runs + 1
    BY SMT DEF NoProc, Fields
  <2>4. proc' = [proc EXCEPT ![p] = r]
    BY <2>2
  <2> HIDE DEF r
  <2>5. /\ DOMAIN proc' = Procs /\ \A q \in Procs : DOMAIN proc'[q] = Fields
        /\ \A q \in Procs \ {p} : proc'[q] = proc[q]
        /\ Kind(p)' = k /\ proc'[p].pc = 1 /\ Run(p)' = runs + 1
    BY <2>3, <2>4 DEF Shape, Kind, Run
  <2>6. runs < MaxRuns /\ runs' = runs + 1 /\ env' = env /\ lock' = lock
    BY SMT DEF Start
  <2>7. /\ DOMAIN held' = Procs /\ DOMAIN past' = Pasts /\ past'.twice = past.twice
        /\ past'.lockLost = past.lockLost
    BY SMT DEF Start, Shape, Pasts
  <2>8. runs \in Nat /\ runs' \in 0 .. MaxRuns /\ \A n \in 0 .. runs : n \in 0 .. runs' /\ n # runs + 1
    <3>1. runs \in 0 .. MaxRuns
      BY DEF Shape
    <3> QED BY SMT, <2>6, <3>1, BoundAssumption
  <2>9. 1 \in 0 .. Len(Program[k]) /\ (k \in Locking => ~ (1 > Place[k]["lock"]))
    <3>1. CASE k \in Locking
      <4>1. /\ LockAt[k] \in Nat /\ UseAt[k] \in Nat /\ 1 < LockAt[k] /\ LockAt[k] < UseAt[k]
            /\ Len(Program[k]) \in Nat /\ UseAt[k] + 1 < Len(Program[k]) /\ Place[k]["lock"] = LockAt[k]
        BY <3>1, LockingPrograms, LockingPlaces
      <4> QED BY SMT, <4>1
    <3>2. CASE k \notin Locking
      <4>1. Len(Program[k]) \in Nat /\ Len(Program[k]) > 0
        BY <3>2, KindsAre, OtherPrograms DEF Locking
      <4>2. 1 \in 0 .. Len(Program[k])
        BY SMT, <4>1
      <4> QED BY <3>2, <4>2
    <3> QED BY <3>1, <3>2
  <2>10. \A q \in Procs \ {p} :
            /\ Kind(q)' = Kind(q) /\ Run(q)' = Run(q) /\ (Idle(q)' <=> Idle(q)) /\ (Killed(q)' <=> Killed(q))
            /\ (Keeps(q)' <=> Keeps(q)) /\ (Has(q)' <=> Has(q)) /\ ClusterOf(q)' = ClusterOf(q)
    BY <2>5 DEF Kind, Run, Idle, Killed, Keeps, Has, ClusterOf
  <2>11. \A q \in Procs : Run(q) \in 0 .. runs /\ Run(q) # runs + 1
    BY <2>8 DEF Shape
  <2>12. ~ Has(p)' /\ ~ Keeps(p)'
    BY <2>5, <2>9 DEF Has, Keeps
  <2>13. Shape'
    <3>1. \A q, s \in Procs : Run(q)' = Run(s)' /\ Run(q)' # 0 => q = s
      BY <2>5, <2>10, <2>11 DEF Shape
    <3>2. runs + 1 # 0 /\ runs + 1 \in 0 .. runs + 1
      BY SMT, <2>8
    <3>3. \A q \in Procs : Run(q)' \in 0 .. runs' /\ (Run(q)' = 0 => Idle(q)')
      BY ZenonT(30), <2>5, <2>6, <2>8, <2>10, <2>11, <3>2 DEF Shape
    <3>4. \A q \in Procs : Kind(q)' \in Kinds /\ (proc[q].pc)' \in 0 .. Len(Program[Kind(q)'])
      BY <2>5, <2>9, <2>10 DEF Shape
    <3>5. \A c \in 0 .. MaxRuns : lock'[c] \in 0 .. runs'
      BY <2>6, <2>8 DEF Shape
    <3> QED BY <2>5, <2>6, <2>7, <2>8, <3>1, <3>3, <3>4, <3>5 DEF Shape
  <2>14. \A q \in Procs \ {p} : Holder(q)' = Holder(q)
    BY <2>6, <2>10 DEF Holder
  <2>15. Holder(p)' # Run(p)'
    <3>1. ClusterOf(p)' \in 0 .. MaxRuns
      <4>1. Run(p)' \in 0 .. MaxRuns /\ 0 \in 0 .. MaxRuns
        BY SMT, <2>5, <2>6, <2>8, BoundAssumption
      <4> QED BY <4>1 DEF ClusterOf
    <3>2. lock[ClusterOf(p)'] \in 0 .. runs
      BY <3>1 DEF Shape
    <3> QED BY <2>5, <2>6, <2>8, <3>2 DEF Holder
  <2>16. LockInv'
    BY <2>7, <2>10, <2>12, <2>14, <2>15 DEF LockInv
  <2> QED BY <2>13, <2>16
\* Nothing that the invariant speaks of changes.
<1>14. ASSUME Shape, LockInv, UNCHANGED <<env, proc, held, lock, runs, past>> PROVE Shape' /\ LockInv'
  <2> USE <1>14
  <2>1. \A p \in Procs : /\ Kind(p)' = Kind(p) /\ Run(p)' = Run(p) /\ (Idle(p)' <=> Idle(p)) /\ Holder(p)' = Holder(p)
                         /\ (Keeps(p)' <=> Keeps(p)) /\ (Has(p)' <=> Has(p)) /\ (Killed(p)' <=> Killed(p))
    BY DEF Kind, Run, Idle, Holder, ClusterOf, Keeps, Has, Killed
  <2>2. Shape'
    BY DEF Shape, Kind, Run, Idle
  <2>3. LockInv'
    BY <2>1 DEF LockInv
  <2> QED BY <2>2, <2>3
<1> SUFFICES ASSUME Shape, LockInv, [Next]_vars PROVE Shape' /\ LockInv'
  OBVIOUS
<1>15. ASSUME NEW p \in Procs, Start(p) \/ Create(p) \/ Use(p) \/ Cleanup(p) \/ Faults(p)
      PROVE  Shape' /\ LockInv'
  BY <1>15, Actions, <1>13, <1>3, <1>9, <1>10, <1>11, <1>12
     DEF Calm
<1>16. CASE World
  <2>1. UNCHANGED <<env, proc, held, lock, runs, past>>
    BY SMT, <1>16 DEF World
  <2> QED BY <2>1, <1>14
<1>17. CASE UNCHANGED vars
  <2>1. UNCHANGED <<env, proc, held, lock, runs, past>>
    BY SMT, <1>17 DEF vars
  <2> QED BY <2>1, <1>14
<1> QED BY <1>15, <1>16, <1>17 DEF Next

\* It holds at the beginning.
LEMMA LockInit == Init => Shape /\ LockInv
<1> SUFFICES ASSUME Init PROVE Shape /\ LockInv
  OBVIOUS
<1>1. /\ proc = [p \in Procs |-> NoProc] /\ held = [p \in Procs |-> {}] /\ runs = 0
      /\ lock = [c \in 0 .. MaxRuns |-> 0] /\ env \in Envs
  BY DEF Init
<1>2. DOMAIN past = Pasts
  BY SMT DEF Init, Pasts
<1>3. DOMAIN NoProc = Fields /\ NoProc.kind = "create" /\ NoProc.pc = 0 /\ NoProc.run = 0
  BY SMT DEF NoProc, Fields
<1>4. \A p \in Procs : DOMAIN proc[p] = Fields /\ Kind(p) = "create" /\ proc[p].pc = 0 /\ Run(p) = 0 /\ Idle(p)
  BY <1>1, <1>3 DEF Kind, Run, Idle
<1>5. 0 \in 0 .. MaxRuns /\ 0 \in 0 .. 0 /\ 0 \in 0 .. Len(Program["create"])
  BY SMT, BoundAssumption, CreateProgram
<1>6. "create" \in Kinds /\ "create" \notin Locking
  BY KindsAre DEF Locking
<1>7. Shape
  BY <1>1, <1>2, <1>4, <1>5, <1>6 DEF Shape
<1>8. LockInv
  BY <1>4, <1>6 DEF LockInv, Keeps, Has
<1> QED BY <1>7, <1>8

\* Two runs never use one cluster, unless a release that is tried again has taken away
\* a lock that was made meanwhile: AcquireClusterLock and ReleaseClusterLock.
THEOREM OneUserAtATimeHolds == Spec => []OneUserAtATime
<1>1. Shape /\ LockInv => OneUserAtATime
  <2> SUFFICES ASSUME Shape, LockInv, ~ past.twice, NEW p \in Procs, NEW q \in Procs,
                      Using(p), Using(q), ClusterOf(p) = ClusterOf(q)
               PROVE  p = q
    BY DEF OneUserAtATime
  <2>1. ASSUME NEW r \in Procs, Using(r) PROVE Keeps(r) /\ Has(r)
    <3> DEFINE n == proc[r].pc  u == UseAt[Kind(r)]
    <3>1. ~ Idle(r) /\ Kind(r) \in Locking /\ n > Place[Kind(r)]["lock"] /\ n <= Place[Kind(r)]["use"]
      BY <2>1 DEF Using
    <3>2. n \in Nat /\ u \in Nat /\ Place[Kind(r)]["use"] = u /\ Place[Kind(r)]["unlock"] = u + 1
      BY <3>1, AtLocking
    <3>3. n <= Place[Kind(r)]["unlock"] /\ n # Place[Kind(r)]["unlock"]
      BY SMT, <3>1, <3>2
    <3> QED BY <3>1, <3>3 DEF Keeps, Has
  <2>2. Holder(p) = Run(p) /\ Holder(q) = Run(q) /\ Run(p) # 0
    BY <2>1, HasRun DEF LockInv
  <2>3. Run(p) = Run(q)
    BY <2>2 DEF Holder
  <2> QED BY <2>2, <2>3 DEF Shape
<1> QED BY <1>1, LockInit, LockNext, PTL DEF Spec

\* A run that has come to its end by itself has left no lock, unless an answer was lost
\* or its release failed: every error path after AcquireClusterLock releases it.
THEOREM LockIsReleasedHolds == Spec => []LockIsReleased
<1>1. Shape /\ LockInv => LockIsReleased
  <2> SUFFICES ASSUME Shape, LockInv, NEW p \in Procs, Idle(p), Kind(p) \in Locking,
                      proc[p].ended \in {"done", "failed"}, Holder(p) = Run(p), Run(p) # 0
               PROVE  Run(p) \in past.lockLost
    BY DEF LockIsReleased
  <2>1. ~ Killed(p)
    BY DEF Killed
  <2>2. ~ Has(p)
    <3>1. Place[Kind(p)]["lock"] = LockAt[Kind(p)] /\ LockAt[Kind(p)] \in Nat
      BY LockingPlaces, LockingPrograms
    <3>2. ~ (0 > LockAt[Kind(p)])
      BY SMT, <3>1
    <3> QED BY <3>1, <3>2 DEF Has, Idle
  <2> QED BY <2>1, <2>2 DEF LockInv
<1> QED BY <1>1, LockInit, LockNext, PTL DEF Spec

-----------------------------------------------------------------------------
(* Places.                                                                 *)

\* A program has each of its steps once.
LEMMA Once ==
    ASSUME NEW k \in Kinds
    PROVE  LET q == Program[k] IN
           /\ Len(q) \in Nat /\ DOMAIN q = 1 .. Len(q)
           /\ \A i, j \in DOMAIN q : q[i] = q[j] => i = j
           /\ \A i \in DOMAIN q : q[i] # "idle"
<1>1. CASE k = "create"
  <2> DEFINE q == Program["create"]
             n == [base |-> 1, conflicts |-> 2, images |-> 3, machines |-> 4, running |-> 5, gather |-> 6, save |-> 7,
                  setup |-> 8, docker |-> 9, prepare |-> 10, upload |-> 11, connYAML |-> 12, dhctl |-> 13, connect |-> 14,
                  nodeGroup |-> 15, join |-> 16, joined |-> 17, modules |-> 18, ready |-> 19, use |-> 20, close |-> 21,
                  removeSetup |-> 22, removeAll |-> 23, closeBase |-> 24]
  <2>1. DOMAIN q = 1 .. 24 /\ Len(q) = 24
    BY CreateProgram
  <2>2. \A i \in 1 .. 24 : n[q[i]] = i /\ q[i] # "idle"
    BY SMT, CreateProgram
  <2> HIDE DEF n
  <2>3. \A i, j \in DOMAIN q : q[i] = q[j] => i = j
    BY <2>1, <2>2
  <2>4. 24 \in Nat
    OBVIOUS
  <2> QED BY <1>1, <2>1, <2>2, <2>3, <2>4
<1>2. CASE k = "resume"
  BY SMT, <1>2, ResumeProgram
<1>3. CASE k = "existing"
  BY SMT, <1>3, ExistingProgram
<1>4. CASE k = "jump"
  BY SMT, <1>4, JumpProgram
<1>5. CASE k = "provider"
  BY SMT, <1>5, ProviderProgram
<1>6. CASE k = "commander"
  BY SMT, <1>6, CommanderProgram
<1> QED BY <1>1, <1>2, <1>3, <1>4, <1>5, <1>6, KindsAre

\* Place is the inverse of a program.
LEMMA PlaceOf ==
    ASSUME NEW k \in Kinds, NEW i \in DOMAIN Program[k] PROVE Place[k][Program[k][i]] = i
<1>1. \A j \in DOMAIN Program[k] : Program[k][j] = Program[k][i] => j = i
  BY Once
<1> QED BY <1>1, PlaceIs

\* The places of a run that builds.
LEMMA CreatePlaces ==
    LET c == Place["create"] IN
    /\ c["base"] = 1 /\ c["conflicts"] = 2 /\ c["images"] = 3 /\ c["machines"] = 4
    /\ c["running"] = 5 /\ c["gather"] = 6 /\ c["save"] = 7 /\ c["setup"] = 8
    /\ c["docker"] = 9 /\ c["prepare"] = 10 /\ c["upload"] = 11 /\ c["connYAML"] = 12
    /\ c["dhctl"] = 13 /\ c["connect"] = 14 /\ c["nodeGroup"] = 15 /\ c["join"] = 16
    /\ c["joined"] = 17 /\ c["modules"] = 18 /\ c["ready"] = 19 /\ c["use"] = 20
    /\ c["close"] = 21 /\ c["removeSetup"] = 22 /\ c["removeAll"] = 23
    /\ c["closeBase"] = 24
<1>1. "create" \in Kinds
  BY KindsAre
<1>2. \A i \in DOMAIN Program["create"] : Place["create"][Program["create"][i]] = i
  BY <1>1, PlaceOf
<1> QED BY SMT, <1>2, CreateProgram

\* The places of a resumed one.
LEMMA ResumePlaces ==
    LET c == Place["resume"] IN
    /\ c["base"] = 1 /\ c["saved"] = 2 /\ c["connect"] = 3 /\ c["ready"] = 4
    /\ c["use"] = 5 /\ c["close"] = 6 /\ c["removeSetup"] = 7 /\ c["removeAll"] = 8
    /\ c["closeBase"] = 9
<1>1. "resume" \in Kinds
  BY KindsAre
<1>2. \A i \in DOMAIN Program["resume"] : Place["resume"][Program["resume"][i]] = i
  BY <1>1, PlaceOf
<1> QED BY SMT, <1>2, ResumeProgram

\* Where a process is.
LEMMA AtPlace ==
    ASSUME Shape, NEW p \in Procs, ~ Idle(p)
    PROVE  /\ Kind(p) \in Kinds /\ proc[p].pc \in DOMAIN Program[Kind(p)]
           /\ Stage(p) = Program[Kind(p)][proc[p].pc] /\ Stage(p) # "idle"
           /\ proc[p].pc = Place[Kind(p)][Stage(p)]
<1>1. Kind(p) \in Kinds /\ proc[p].pc \in 0 .. Len(Program[Kind(p)]) /\ proc[p].pc # 0
  BY DEF Shape, Idle
<1>2. Len(Program[Kind(p)]) \in Nat /\ DOMAIN Program[Kind(p)] = 1 .. Len(Program[Kind(p)])
  BY <1>1, Once
<1>3. proc[p].pc \in DOMAIN Program[Kind(p)]
  BY SMT, <1>1, <1>2
<1>4. Stage(p) = Program[Kind(p)][proc[p].pc]
  BY DEF Stage, Kind
<1> QED BY <1>1, <1>3, <1>4, PlaceOf, Once

\* p has done step s of its program.
Done(p, s) == proc[p].pc > Place[Kind(p)][s]

\* A step that is taken is done, and no other.
LEMMA DoneStep ==
    ASSUME Shape, NEW p \in Procs, ~ Idle(p), Goes(p, proc[p].pc + 1),
           NEW s \in Range(Program[Kind(p)])
    PROVE  Done(p, s)' <=> Done(p, s) \/ Stage(p) = s
<1> DEFINE k == Kind(p)  n == proc[p].pc
<1>1. k \in Kinds /\ n \in DOMAIN Program[k] /\ Stage(p) = Program[k][n]
  BY AtPlace
<1>2. PICK i \in DOMAIN Program[k] : Program[k][i] = s
  BY DEF Range
<1>3. Place[k][s] = i /\ Kind(p)' = k /\ proc'[p].pc = n + 1
  BY <1>1, <1>2, PlaceOf DEF Goes, Kind
<1>4. Stage(p) = s <=> n = i
  BY <1>1, <1>2, Once
<1>5. n \in Int /\ i \in Int
  BY SMT, <1>1, Once
<1> HIDE DEF n, k
<1>6. n + 1 > i <=> n > i \/ n = i
  BY SMT, <1>5
<1> QED BY <1>3, <1>4, <1>6 DEF Done, n, k

-----------------------------------------------------------------------------
(* What a process has open.                                                *)

\* The clients of the base cluster, and those of the test cluster.
Base == {"base", "baseTunnel"}
Test == {"test", "testTunnel"}

\* What a run may have open where it is.
Busy(p) ==
    /\ Kind(p) = "create" =>
         /\ held[p] \subseteq Base \cup Test \cup {"setup", "connYAML"}
         /\ Done(p, "dhctl") /\ "connYAML" \in held[p] => Run(p) \in past.kept
         /\ Done(p, "close") => held[p] \subseteq Base \cup {"connYAML"}
    /\ Kind(p) = "resume" =>
         /\ held[p] \subseteq Base \cup Test
         /\ (Done(p, "connect") /\ ~ Done(p, "close")) \/ held[p] \subseteq Base
    /\ Kind(p) = "jump" => held[p] \subseteq Base \cup Test
    /\ Kind(p) \in Locking \ {"jump"} => held[p] \subseteq Test
    /\ Kind(p) = "commander" /\ Done(p, "close") => held[p] = {}

\* Steps of a failed creation that have the tunnel to the base cluster open.
Late == {"connect", "nodeGroup", "join", "joined", "modules", "ready"}

\* What a run that has ended may have left open.
Left(p) ==
    CASE proc[p].ended = "failed" /\ Kind(p) = "create" /\ proc[p].at \in Late -> {"baseTunnel"}
      [] proc[p].ended = "done" /\ Kind(p) = "jump" -> Base
      [] proc[p].ended = "panic" -> Base
      [] OTHER -> {}

Gone(p) ==
    proc[p].at # "ready" => \A h \in held[p] : h \in Left(p) \/ (h = "connYAML" /\ Run(p) \in past.kept)

\* The inductive invariant behind NothingLeftOpen.
Fine(p) == IF Idle(p) THEN Gone(p) ELSE Busy(p)
OpenInv == \A p \in Procs : Fine(p)

\* Only p opens or closes anything.
HeldElse(p) == \A q \in Procs \ {p} : held'[q] = held[q]

\* What Opens and Closes do.
LEMMA HeldIs ==
    ASSUME Shape, NEW p \in Procs
    PROVE  /\ \A S : Opens(p, S) => HeldElse(p) /\ held'[p] = held[p] \cup S
           /\ \A S : Closes(p, S) => HeldElse(p) /\ held'[p] = held[p] \ S
           /\ \A S : held' = [held EXCEPT ![p] = S] => HeldElse(p) /\ held'[p] = S
           /\ UNCHANGED held => HeldElse(p) /\ held'[p] = held[p]
BY DEF Shape, Opens, Closes, HeldElse

\* A step of p is no matter to the others.
LEMMA OthersFine ==
    ASSUME Shape, OpenInv, NEW p \in Procs, \A q \in Procs \ {p} : proc'[q] = proc[q],
           HeldElse(p), past.kept \subseteq past'.kept
    PROVE  \A q \in Procs \ {p} : Fine(q)'
<1> SUFFICES ASSUME NEW q \in Procs \ {p} PROVE Fine(q)'
  OBVIOUS
<1>1. proc'[q] = proc[q] /\ held'[q] = held[q] /\ q \in Procs
  BY DEF HeldElse
<1>2. Idle(q)' = Idle(q) /\ Kind(q)' = Kind(q) /\ Run(q)' = Run(q) /\ Left(q)' = Left(q)
  BY <1>1 DEF Idle, Kind, Run, Left
<1>3. \A s : Done(q, s)' = Done(q, s)
  BY <1>1, <1>2 DEF Done
<1>4. CASE Idle(q)
  <2>1. Gone(q)
    BY <1>1, <1>4 DEF OpenInv, Fine
  <2>2. Gone(q)'
    BY <1>1, <1>2, <2>1 DEF Gone
  <2> QED BY <1>2, <1>4, <2>2 DEF Fine
<1>5. CASE ~ Idle(q)
  <2>1. Busy(q)
    BY <1>1, <1>5 DEF OpenInv, Fine
  <2>2. Busy(q)'
    BY <1>1, <1>2, <1>3, <2>1 DEF Busy
  <2> QED BY <1>2, <1>5, <2>2 DEF Fine
<1> QED BY <1>4, <1>5

\* Steps that the programs have.
LEMMA StepOf ==
    /\ {"dhctl", "close"} \subseteq Range(Program["create"])
    /\ {"connect", "close"} \subseteq Range(Program["resume"])
    /\ "close" \in Range(Program["commander"])
<1>1. /\ Program["create"][13] = "dhctl" /\ Program["create"][21] = "close"
      /\ {13, 21} \subseteq DOMAIN Program["create"]
  BY SMT, CreateProgram
<1>2. /\ Program["resume"][3] = "connect" /\ Program["resume"][6] = "close"
      /\ {3, 6} \subseteq DOMAIN Program["resume"]
  BY SMT, ResumeProgram
<1>3. Program["commander"][8] = "close" /\ 8 \in DOMAIN Program["commander"]
  BY SMT, CommanderProgram
<1> QED BY <1>1, <1>2, <1>3 DEF Range

\* Steps that only CreateTestCluster has.
Building ==
    {"conflicts", "images", "machines", "running", "gather", "save", "setup", "docker", "prepare",
     "upload", "connYAML", "dhctl", "nodeGroup", "join", "joined", "modules"}

\* Which runs have which steps.
LEMMA StageKinds ==
    ASSUME Shape, NEW p \in Procs
    PROVE  /\ Stage(p) = "base" => Kind(p) \in {"create", "resume", "jump"}
           /\ Stage(p) \in Building => Kind(p) = "create" /\ ~ Idle(p)
           /\ Stage(p) = "saved" => Kind(p) = "resume" /\ ~ Idle(p)
           /\ Stage(p) \in {"ready", "removeSetup", "removeAll", "closeBase"} =>
                Kind(p) \in {"create", "resume"} /\ ~ Idle(p)
<1>1. CASE Idle(p)
  <2>1. Stage(p) = "idle"
    BY <1>1 DEF Stage
  <2> QED BY SMT, <2>1 DEF Building
<1>2. CASE ~ Idle(p)
  <2> DEFINE k == Kind(p)  n == proc[p].pc
  <2>1. k \in Kinds /\ n \in DOMAIN Program[k] /\ Stage(p) = Program[k][n]
    BY <1>2, AtPlace
  <2>2. CASE k = "resume"
    BY SMTT(20), <1>2, <2>1, <2>2, ResumeProgram DEF Building
  <2>3. CASE k = "existing"
    BY SMTT(20), <1>2, <2>1, <2>3, ExistingProgram DEF Building
  <2>4. CASE k = "jump"
    BY SMTT(20), <1>2, <2>1, <2>4, JumpProgram DEF Building
  <2>5. CASE k = "provider"
    BY SMTT(20), <1>2, <2>1, <2>5, ProviderProgram DEF Building
  <2>6. CASE k = "commander"
    BY SMT, <1>2, <2>1, <2>6, CommanderProgram DEF Building
  <2>7. CASE k = "create"
    <3>1. \A i \in 1 .. 24 : Program["create"][i] # "saved"
      BY SMT, CreateProgram
    <3> QED BY <1>2, <2>1, <2>7, <3>1, CreateProgram
  <2> QED BY <2>1, <2>2, <2>3, <2>4, <2>5, <2>6, <2>7, KindsAre
<1> QED BY <1>1, <1>2

\* A step of p keeps p fine, and opens and closes nothing of the others.
Open(p) == HeldElse(p) /\ Fine(p)'

\* A run that goes on is not idle.
LEMMA NotIdle ==
    ASSUME Shape, NEW p \in Procs, ~ Idle(p), Goes(p, proc[p].pc + 1) PROVE ~ Idle(p)'
<1>1. proc[p].pc \in DOMAIN Program[Kind(p)] /\ Kind(p) \in Kinds
  BY AtPlace
<1>2. proc[p].pc + 1 # 0
  BY SMT, <1>1, Once
<1> QED BY <1>2 DEF Goes, Idle

\* Every step keeps the invariant of what is open.
LEMMA OpenNext ==
    ASSUME Shape, OpenInv, [Next]_vars PROVE OpenInv'
\* A step that opens nothing.
<1>1. ASSUME Shape, NEW p \in Procs, ~ Idle(p), Busy(p), Goes(p, proc[p].pc + 1),
             past.kept \subseteq past'.kept,
             held'[p] \subseteq held[p],
             Stage(p) = "dhctl" => "connYAML" \notin held'[p] \/ Run(p) \in past'.kept,
             Stage(p) = "close" => held'[p] \cap (Test \cup {"setup"}) = {}
      PROVE  Busy(p)'
  <2> USE <1>1
  <2>1. Kind(p)' = Kind(p) /\ Run(p)' = Run(p)
    BY DEF Goes, Kind, Run
  <2>2. ASSUME NEW s \in Range(Program[Kind(p)]) PROVE Done(p, s)' <=> Done(p, s) \/ Stage(p) = s
    BY DoneStep
  <2>3. CASE Kind(p) = "create"
    <3>1. /\ Done(p, "dhctl")' => Done(p, "dhctl") \/ Stage(p) = "dhctl"
          /\ Done(p, "close")' => Done(p, "close") \/ Stage(p) = "close"
      BY <2>2, <2>3, StepOf
    <3> QED BY SMT, <2>1, <2>3, <3>1 DEF Busy, Test, Locking
  <2>4. CASE Kind(p) = "resume"
    <3>1. /\ Done(p, "close")' => Done(p, "close") \/ Stage(p) = "close"
          /\ Done(p, "connect") => Done(p, "connect")'
      BY <2>2, <2>4, StepOf
    <3> QED BY SMT, <2>1, <2>4, <3>1 DEF Busy, Test, Locking
  <2>5. CASE Kind(p) = "commander"
    <3>1. Done(p, "close")' => Done(p, "close") \/ Stage(p) = "close"
      BY ZenonT(30), <2>2, <2>5, StepOf
    <3> QED BY SMT, <2>1, <2>5, <3>1 DEF Busy, Test, Locking
  <2>6. CASE Kind(p) \notin {"create", "resume", "commander"}
    BY SMT, <2>1, <2>6 DEF Busy
  <2> QED BY <2>3, <2>4, <2>5, <2>6
\* A step that connects, or that puts the file of the passphrase on the setup node.
<1>2. ASSUME Shape, NEW p \in Procs, ~ Idle(p), Busy(p), Goes(p, proc[p].pc + 1),
             past.kept \subseteq past'.kept,
             \/ Stage(p) = "base" /\ held'[p] = held[p] \cup Base
             \/ Stage(p) = "connect" /\ held'[p] = held[p] \cup Test
             \/ Stage(p) = "setup" /\ held'[p] = held[p] \cup {"setup"}
             \/ Stage(p) = "connYAML" /\ held'[p] = held[p] \cup {"connYAML"}
      PROVE  Busy(p)'
  <2> USE <1>2
  <2> DEFINE n == proc[p].pc
  <2>1. Kind(p)' = Kind(p) /\ Run(p)' = Run(p) /\ proc'[p].pc = n + 1
    BY DEF Goes, Kind, Run
  <2>2. n = Place[Kind(p)][Stage(p)] /\ Kind(p) \in Kinds
    BY AtPlace
  <2>3. CASE Kind(p) = "create"
    <3>1. /\ Stage(p) = "base" => n = 1
          /\ Stage(p) = "connect" => n = 14
          /\ Stage(p) = "setup" => n = 8
          /\ Stage(p) = "connYAML" => n = 12
          /\ Place["create"]["dhctl"] = 13 /\ Place["create"]["close"] = 21
      BY <2>2, <2>3, CreatePlaces
    <3>2. /\ Done(p, "dhctl") <=> n > 13
          /\ Done(p, "dhctl")' <=> n + 1 > 13
          /\ Done(p, "close")' <=> n + 1 > 21
      BY <2>1, <2>3, <3>1 DEF Done
    <3>3. /\ ~ Done(p, "close")'
          /\ Done(p, "dhctl")' => Done(p, "dhctl") /\ Stage(p) = "connect"
      <4> HIDE DEF n
      <4> QED BY SMTT(20), <3>1, <3>2
    <3> QED BY SMT, <2>1, <2>3, <3>3 DEF Busy, Base, Test, Locking
  <2>4. CASE Kind(p) = "resume"
    <3>1. /\ Stage(p) = "base" => n = 1
          /\ Stage(p) = "connect" => n = 3
          /\ Place["resume"]["close"] = 6 /\ Place["resume"]["connect"] = 3
      BY <2>2, <2>4, ResumePlaces
    <3>2. /\ Done(p, "close")' <=> n + 1 > 6
          /\ Done(p, "connect")' <=> n + 1 > 3
          /\ Done(p, "connect") <=> n > 3
      BY <2>1, <2>4, <3>1 DEF Done
    <3>3. Stage(p) \in {"base", "connect"}
      BY <2>4, StageKinds DEF Building
    <3>4. /\ ~ Done(p, "close")' /\ ~ Done(p, "connect")
          /\ Stage(p) = "connect" => Done(p, "connect")'
      <4> HIDE DEF n
      <4> QED BY SMTT(20), <3>1, <3>2, <3>3
    <3> QED BY SMT, <2>1, <2>4, <3>3, <3>4 DEF Busy, Base, Test, Locking
  <2>5. CASE Kind(p) = "commander"
    <3>1. Stage(p) = "connect"
      BY <2>5, StageKinds DEF Building
    <3>2. Place["commander"]["connect"] = 3 /\ Place["commander"]["close"] = 8
      <4>1. Program["commander"][3] = "connect" /\ Program["commander"][8] = "close"
             /\ 3 \in DOMAIN Program["commander"] /\ 8 \in DOMAIN Program["commander"]
        BY SMT, CommanderProgram
      <4> QED BY <2>2, <2>5, <4>1, PlaceOf
    <3>3. n = 3 /\ (Done(p, "close")' <=> n + 1 > 8)
      BY <2>1, <2>2, <2>5, <3>1, <3>2 DEF Done
    <3>4. ~ Done(p, "close")'
      <4> HIDE DEF n
      <4> QED BY SMTT(20), <3>3
    <3> QED BY SMT, <2>1, <2>5, <3>1, <3>4 DEF Busy, Base, Test, Locking
  <2>6. CASE Kind(p) = "jump"
    <3>1. Stage(p) \in {"base", "connect"}
      BY <2>6, StageKinds DEF Building
    <3> QED BY SMT, <2>1, <2>6, <3>1 DEF Busy, Base, Test, Locking
  <2>7. CASE Kind(p) \in {"existing", "provider"}
    <3>1. Stage(p) = "connect"
      BY <2>7, StageKinds DEF Building
    <3> QED BY SMT, <2>1, <2>7, <3>1 DEF Busy, Base, Test, Locking
  <2> QED BY <2>2, <2>3, <2>4, <2>5, <2>6, <2>7, KindsAre
\* A step that opens nothing keeps the run fine.
<1>3. ASSUME Shape, NEW p \in Procs, ~ Idle(p), Fine(p), Goes(p, proc[p].pc + 1),
             past.kept \subseteq past'.kept,
             HeldElse(p), held'[p] \subseteq held[p],
             Stage(p) = "dhctl" => "connYAML" \notin held'[p] \/ Run(p) \in past'.kept,
             Stage(p) = "close" => held'[p] \cap (Test \cup {"setup"}) = {}
      PROVE  Open(p)
  <2> USE <1>3
  <2>1. Busy(p)
    BY DEF Fine
  <2>2. Busy(p)'
    BY <2>1, <1>1
  <2> QED BY <2>2, NotIdle DEF Open, Fine
\* A run that ends with no more than its end may leave.
<1>4. ASSUME Shape, NEW p \in Procs, NEW how, Ends(p, how), HeldElse(p),
             Stage(p) = "ready" \/ \A h \in held'[p] :
               \/ h = "connYAML" /\ Run(p) \in past'.kept
               \/ h \in Base /\ (how = "panic" \/ (how = "done" /\ Kind(p) = "jump"))
               \/ h = "baseTunnel" /\ how = "failed" /\ Kind(p) = "create" /\ Stage(p) \in Late
      PROVE  Open(p)
  <2> USE <1>4
  <2>1. Goes(p, 0) /\ proc'[p].ended = how /\ proc'[p].at = Stage(p)
    BY EndGoes
  <2>2. Kind(p)' = Kind(p) /\ Run(p)' = Run(p) /\ Idle(p)'
    BY <2>1 DEF Goes, Kind, Run, Idle
  <2>3. /\ how = "panic" => Left(p)' = Base
        /\ how = "done" /\ Kind(p) = "jump" => Left(p)' = Base
        /\ how = "failed" /\ Kind(p) = "create" /\ Stage(p) \in Late => Left(p)' = {"baseTunnel"}
    <3> DEFINE k == Kind(p)  a == Stage(p) \in Late
    <3>1. Left(p)' = CASE how = "failed" /\ k = "create" /\ a -> {"baseTunnel"}
                       [] how = "done" /\ k = "jump" -> Base
                       [] how = "panic" -> Base
                       [] OTHER -> {}
      BY <2>1, <2>2 DEF Left
    <3> HIDE DEF k, a
    <3>2. /\ how = "panic" => Left(p)' = Base
          /\ how = "done" /\ k = "jump" => Left(p)' = Base
          /\ how = "failed" /\ k = "create" /\ a => Left(p)' = {"baseTunnel"}
      BY SMT, <3>1
    <3> QED BY <3>2 DEF k, a
  <2>4. Gone(p)'
    BY <2>1, <2>2, <2>3 DEF Gone
  <2> QED BY <2>2, <2>4 DEF Open, Fine
\* A step that connects.
<1>5. ASSUME Shape, NEW p \in Procs, ~ Idle(p), Fine(p), NEW s, NEW S, Opening(p, s, S),
             \/ s = "base" /\ S = Base
             \/ s = "connect" /\ S = Test
             \/ s = "setup" /\ S = {"setup"}
             \/ s = "connYAML" /\ S = {"connYAML"}
      PROVE  Open(p)
  <2> USE <1>5
  <2>1. Advance(p) /\ Stage(p) = s /\ NoFault /\ Opens(p, S)
    BY DEF Opening
  <2>2. Goes(p, proc[p].pc + 1) /\ HeldElse(p) /\ held'[p] = held[p] \cup S
    BY <2>1, AdvanceGoes, HeldIs
  <2>3. past.kept \subseteq past'.kept
    BY <2>1 DEF NoFault
  <2>4. Busy(p)
    BY DEF Fine
  <2>5. Busy(p)'
    BY <2>1, <2>2, <2>3, <2>4, <1>2
  <2> QED BY <2>2, <2>5, NotIdle DEF Open, Fine
\* A step that looks.
<1>6. ASSUME Shape, NEW p \in Procs, ~ Idle(p), Fine(p), NEW s, Looking(p, s), s \notin {"dhctl", "close"}
      PROVE  Open(p)
  <2> USE <1>6
  <2>1. Advance(p) /\ Stage(p) = s /\ NoFault /\ Opens(p, {})
    BY DEF Looking, Opening
  <2>2. Goes(p, proc[p].pc + 1) /\ HeldElse(p) /\ held'[p] = held[p] \cup {}
    BY <2>1, AdvanceGoes, HeldIs
  <2>3. past.kept \subseteq past'.kept
    BY <2>1 DEF NoFault
  <2>4. held'[p] \subseteq held[p]
    BY <2>2
  <2> QED BY <2>1, <2>2, <2>3, <2>4, <1>3
\* Connections and waits.
<1>7. ASSUME Shape, NEW p \in Procs, Fine(p),
             \/ ConnectToCluster(p) \/ ConnectSetup(p) \/ WaitForDockerReady(p) \/ StageConnYAML(p)
             \/ WaitVMsRunning(p) \/ GatherVMInfo(p) \/ CreateStaticNodeGroup(p) \/ WaitForAllNodesReady(p)
             \/ checkClusterHealthWithRetries(p) \/ FindInCommander(p)
      PROVE  Open(p)
  <2> USE <1>7
  <2>1. ASSUME NEW s \in {"base", "connect", "setup", "docker", "connYAML", "running", "gather", "nodeGroup",
                        "joined", "health", "find"}, NEW S, Opening(p, s, S)
        PROVE  ~ Idle(p)
    BY <2>1 DEF Opening, Stage
  <2>2. CASE ConnectToCluster(p) \/ ConnectSetup(p) \/ StageConnYAML(p)
    BY <2>1, <2>2, <1>5 DEF ConnectToCluster, ConnectSetup, StageConnYAML, Base, Test
  <2>3. CASE \/ WaitForDockerReady(p) \/ WaitVMsRunning(p) \/ GatherVMInfo(p) \/ CreateStaticNodeGroup(p)
             \/ WaitForAllNodesReady(p) \/ checkClusterHealthWithRetries(p) \/ FindInCommander(p)
    <3>1. PICK s \in {"docker", "running", "gather", "nodeGroup", "joined", "health", "find"} : Looking(p, s)
      BY <2>3
       DEF WaitForDockerReady, WaitVMsRunning, GatherVMInfo, CreateStaticNodeGroup,
           WaitForAllNodesReady, checkClusterHealthWithRetries, FindInCommander
    <3>2. ~ Idle(p)
      BY <2>1, <3>1 DEF Looking
    <3> QED BY <3>1, <3>2, <1>6
  <2> QED BY <2>2, <2>3
\* From the connection to the new cluster on the error paths forget the tunnel.
<1>8. ASSUME Shape, NEW p \in Procs, Kind(p) = "create", ~ Idle(p), Stage(p) \notin Leaving,
             proc[p].pc >= Place["create"]["connect"]
      PROVE  Stage(p) \in Late /\ Done(p, "dhctl")
  <2> USE <1>8
  <2> DEFINE n == proc[p].pc
  <2>0. n \in DOMAIN Program[Kind(p)] /\ Stage(p) = Program[Kind(p)][n]
    BY AtPlace
  <2>1. n \in 1 .. 24 /\ Stage(p) = Program["create"][n] /\ n >= 14 /\ (Done(p, "dhctl") <=> n > 13)
    <3>1. Place["create"]["connect"] = 14 /\ Place["create"]["dhctl"] = 13 /\ DOMAIN Program["create"] = 1 .. 24
      BY CreatePlaces, CreateProgram
    <3> QED BY <2>0, <3>1 DEF Done
  <2>2. n \in 14 .. 24 /\ n > 13
    BY SMTT(20), <2>1
  <2>3. \A i \in 14 .. 24 : Program["create"][i] \in Late \cup Leaving
    BY SMT, CreateProgram DEF Late, Leaving
  <2> QED BY <2>1, <2>2, <2>3
\* A run that has the lock goes to its release with all it has open.
<1>9. ASSUME Shape, NEW p \in Procs, Fine(p), Kind(p) \in Locking, proc[p].pc > Place[Kind(p)]["lock"],
             Stage(p) \notin Leaving, NEW s, Unlocks(p, s), UNCHANGED held, past.kept \subseteq past'.kept
      PROVE  Open(p)
  <2> USE <1>9
  <2> DEFINE u == UseAt[Kind(p)]
  <2>1. ~ Idle(p) /\ Busy(p)
    BY DEF Stage, Leaving, Fine
  <2>2. Goes(p, Place[Kind(p)]["unlock"]) /\ HeldElse(p) /\ held'[p] = held[p]
    BY UnlockGoes, HeldIs
  <2>3. u \in Nat /\ Place[Kind(p)]["unlock"] = u + 1
    BY <2>1, AtLocking
  <2>4. Kind(p)' = Kind(p) /\ Run(p)' = Run(p) /\ proc'[p].pc = u + 1
    BY <2>2, <2>3 DEF Goes, Kind, Run
  <2>5. u + 1 # 0
    BY SMT, <2>3
  <2>6. Kind(p) = "commander" => ~ Done(p, "close")'
    <3> SUFFICES ASSUME Kind(p) = "commander" PROVE ~ Done(p, "close")'
      OBVIOUS
    <3>1. /\ Program["commander"][7] = "unlock" /\ Program["commander"][8] = "close"
          /\ 7 \in DOMAIN Program["commander"] /\ 8 \in DOMAIN Program["commander"]
      BY SMT, CommanderProgram
    <3>2. Place["commander"]["unlock"] = 7 /\ Place["commander"]["close"] = 8
      BY <3>1, PlaceOf, KindsAre
    <3>3. Done(p, "close")' <=> 7 > 8
      BY <2>3, <2>4, <3>2 DEF Done
    <3> QED BY SMT, <3>3
  <2>7. Busy(p)'
    BY SMT, <2>1, <2>2, <2>4, <2>6 DEF Busy, Locking
  <2> QED BY <2>2, <2>4, <2>5, <2>7 DEF Open, Fine, Idle
\* The error paths close what LeftOpen does not name.
<1>10. ASSUME Shape, NEW p \in Procs, Fine(p), Fails(p), Stage(p) \notin Leaving, past.kept \subseteq past'.kept
       PROVE  Open(p)
  <2> USE <1>10
  <2>1. ~ Idle(p) /\ Busy(p)
    BY DEF Stage, Leaving, Fine
  <2>2. CASE Kind(p) \in Locking /\ proc[p].pc > Place[Kind(p)]["lock"]
    BY <2>2, <1>9 DEF Fails, Unlocks
  <2>3. CASE ~ (Kind(p) \in Locking /\ proc[p].pc > Place[Kind(p)]["lock"])
    <3>1. Ends(p, "failed") /\ held' = [held EXCEPT ![p] = LeftOpen(p)]
      BY <2>3 DEF Fails
    <3>2. HeldElse(p) /\ held'[p] = LeftOpen(p)
      BY <3>1, HeldIs
    <3>3. CASE Stage(p) = "ready"
      BY <3>1, <3>2, <3>3, <1>4
    <3>4. CASE Stage(p) # "ready" /\ Kind(p) = "create" /\ proc[p].pc >= Place["create"]["connect"]
      <4>1. held'[p] = held[p] \cap {"baseTunnel", "connYAML"}
        BY <3>2, <3>4 DEF LeftOpen
      <4>2. Stage(p) \in Late /\ Done(p, "dhctl")
        BY <2>1, <3>4, <1>8
      <4>3. "connYAML" \in held[p] => Run(p) \in past'.kept
        BY <2>1, <3>4, <4>2 DEF Busy
      <4>4. \A h \in held'[p] : (h = "connYAML" /\ Run(p) \in past'.kept) \/ h = "baseTunnel"
        BY <4>1, <4>3
      <4> QED BY <3>1, <3>2, <3>4, <4>2, <4>4, <1>4
    <3>5. CASE Stage(p) # "ready" /\ ~ (Kind(p) = "create" /\ proc[p].pc >= Place["create"]["connect"])
      <4>1. held'[p] = {}
        BY <3>2, <3>5 DEF LeftOpen
      <4> QED BY <3>1, <3>2, <4>1, <1>4
    <3> QED BY <3>3, <3>4, <3>5
  <2> QED BY <2>2, <2>3
\* The lock: what happens to a process at it.
<1>11. ASSUME Shape, NEW p \in Procs, Fine(p), Sub(p, "get") \/ Sub(p, "create") \/ Sub(p, "again"), ~ Idle(p),
              UNCHANGED held, past.kept \subseteq past'.kept
       PROVE  Open(p)
  <2> USE <1>11
  <2>1. Goes(p, proc[p].pc)
    BY SubGoes
  <2>2. Kind(p)' = Kind(p) /\ Run(p)' = Run(p) /\ proc'[p].pc = proc[p].pc /\ ~ Idle(p)'
    BY <2>1 DEF Goes, Kind, Run, Idle
  <2>3. HeldElse(p) /\ held'[p] = held[p]
    BY HeldIs
  <2>4. Busy(p)
    BY DEF Fine
  <2>5. Busy(p)'
    BY <2>2, <2>3, <2>4 DEF Busy, Done
  <2> QED BY <2>2, <2>3, <2>5 DEF Open, Fine
\* A step that changes no process and no connection.
<1>12. ASSUME Shape, NEW p \in Procs, Fine(p), UNCHANGED proc, UNCHANGED held, past.kept \subseteq past'.kept
       PROVE  Open(p)
  <2> USE <1>12
  <2>1. Kind(p)' = Kind(p) /\ Run(p)' = Run(p) /\ Left(p)' = Left(p) /\ (Idle(p)' <=> Idle(p))
    BY DEF Kind, Run, Left, Idle
  <2>2. Busy(p) => Busy(p)'
    BY <2>1 DEF Busy, Done
  <2>3. Gone(p) => Gone(p)'
    BY <2>1 DEF Gone
  <2>4. HeldElse(p)
    BY DEF HeldElse
  <2> QED BY <2>1, <2>2, <2>3, <2>4 DEF Open, Fine
\* A run builds and uses its cluster; dhctl takes the connection file away.
<1>13. ASSUME Shape, NEW p \in Procs, Fine(p),
              \/ saveClusterState(p) \/ PrepareBootstrapConfig(p) \/ UploadBootstrapFiles(p)
              \/ BootstrapCluster(p) \/ AddNodesToCluster(p) \/ EnableAndConfigureModules(p)
              \/ createCommanderCluster(p) \/ WaitForTestClusterReady(p) \/ Use(p)
       PROVE  Open(p)
  <2> USE <1>13
  <2>1. /\ Advance(p)
        /\ Stage(p) \in {"save", "prepare", "upload", "dhctl", "join", "modules", "created", "ready", "use"}
    BY DEF saveClusterState, PrepareBootstrapConfig, UploadBootstrapFiles, BootstrapCluster,
                 AddNodesToCluster, EnableAndConfigureModules, createCommanderCluster,
                 WaitForTestClusterReady, Use
  <2>2. ~ Idle(p) /\ Goes(p, proc[p].pc + 1)
    BY <2>1, AdvanceGoes DEF Stage
  <2>3. past.kept \subseteq past'.kept
    BY ActionMoves DEF Frame, Grows, Create, Cleanup, Faults
  <2>4. (UNCHANGED held /\ Stage(p) # "dhctl") \/ Closes(p, {"connYAML"})
    BY DEF saveClusterState, PrepareBootstrapConfig, UploadBootstrapFiles, BootstrapCluster,
           AddNodesToCluster, EnableAndConfigureModules, createCommanderCluster, WaitForTestClusterReady, Use
  <2>5. HeldElse(p) /\ held'[p] \subseteq held[p] /\ (Stage(p) = "dhctl" => "connYAML" \notin held'[p])
    <3>1. CASE UNCHANGED held /\ Stage(p) # "dhctl"
      BY <3>1, HeldIs
    <3>2. CASE Closes(p, {"connYAML"})
      <4>1. HeldElse(p) /\ held'[p] = held[p] \ {"connYAML"}
        BY <3>2, HeldIs
      <4> QED BY <4>1
    <3> QED BY <2>4, <3>1, <3>2
  <2> QED BY <2>1, <2>2, <2>3, <2>5, <1>3
\* A resumed run that has not connected yet has only the base connections.
<1>14. ASSUME Shape, NEW p \in Procs, Fine(p), loadClusterState(p)
       PROVE  Open(p)
  <2> USE <1>14
  <2>1. Stage(p) = "saved" /\ UNCHANGED held
    BY SMT DEF loadClusterState
  <2>2. ~ Idle(p) /\ Kind(p) = "resume" /\ HeldElse(p) /\ held'[p] = held[p]
    BY <2>1, StageKinds, HeldIs
  <2>3. past.kept \subseteq past'.kept
    BY ActionMoves DEF Frame, Grows, Create, Cleanup, Faults
  <2>4. CASE Ends(p, "panic")
    <3>1. ~ Done(p, "connect")
      <4>1. proc[p].pc = 2 /\ Place["resume"]["connect"] = 3
        BY <2>1, <2>2, AtPlace, ResumePlaces
      <4> QED BY SMT, <2>2, <4>1 DEF Done
    <3>2. held'[p] \subseteq Base
      BY <2>2, <3>1 DEF Fine, Busy
    <3> QED BY <2>2, <2>4, <3>2, <1>4
  <2>5. CASE proc' = [proc EXCEPT ![p].pc = @ + 1, ![p].id = state]
    <3>1. Goes(p, proc[p].pc + 1)
      BY SMT, <2>5 DEF Goes, Shape, Fields, Kind, Run
    <3> QED BY <2>1, <2>2, <2>3, <3>1, <1>3
  <2> QED BY <2>4, <2>5 DEF loadClusterState
\* Machines, and what a run gives up.
<1>15. ASSUME Shape, NEW p \in Procs, Fine(p),
              \/ CheckConflicts(p) \/ Goroutine(p) \/ CreateVirtualMachines(p) \/ RemoveMachine(p)
              \/ MachineFails(p) \/ SaveFails(p) \/ GivesUp(p)
       PROVE  Open(p)
  <2> USE <1>15
  <2>1. past.kept \subseteq past'.kept
    BY ActionMoves DEF Frame, Grows, Create, Cleanup, Faults
  <2>2. CASE CheckConflicts(p) \/ CreateVirtualMachines(p) \/ SaveFails(p)
    <3>1. /\ Stage(p) \in {"conflicts", "images", "machines", "save"}
          /\ ((Advance(p) /\ UNCHANGED held) \/ Fails(p))
      BY <2>2 DEF CheckConflicts, CreateVirtualMachines, SaveFails
    <3>2. ~ Idle(p) /\ Stage(p) \notin Leaving
      BY <3>1 DEF Stage, Leaving
    <3>3. CASE Advance(p) /\ UNCHANGED held
      <4>1. Goes(p, proc[p].pc + 1) /\ HeldElse(p) /\ held'[p] = held[p]
        BY <3>3, AdvanceGoes, HeldIs
      <4> QED BY <2>1, <3>1, <3>2, <4>1, <1>3
    <3> QED BY <2>1, <3>1, <3>2, <3>3, <1>10
  <2>3. CASE Goroutine(p) \/ RemoveMachine(p) \/ MachineFails(p)
    <3>1. UNCHANGED proc /\ UNCHANGED held
      BY <2>3 DEF Goroutine, RemoveMachine, MachineFails
    <3> QED BY <2>1, <3>1, <1>12
  <2>4. CASE GivesUp(p)
    BY <2>1, <2>4, HopelessAt, <1>10 DEF GivesUp
  <2> QED BY <2>2, <2>3, <2>4
\* What a run that has built its cluster has after closing it.
<1>16. ASSUME Shape, NEW p \in Procs, Fine(p), Stage(p) \in {"removeSetup", "removeAll", "closeBase"}
       PROVE  /\ ~ Idle(p)
              /\ Kind(p) = "resume" => held[p] \subseteq Base
              /\ Kind(p) = "create" => /\ held[p] \subseteq Base \cup {"connYAML"}
                                       /\ "connYAML" \in held[p] => Run(p) \in past.kept
              /\ Kind(p) \in {"create", "resume"}
  <2> USE <1>16
  <2>1. ~ Idle(p) /\ Kind(p) \in {"create", "resume"} /\ proc[p].pc = Place[Kind(p)][Stage(p)] /\ Busy(p)
    BY StageKinds, AtPlace DEF Fine
  <2>2. CASE Kind(p) = "create"
    <3>1. proc[p].pc \in {22, 23, 24} /\ Place["create"]["close"] = 21 /\ Place["create"]["dhctl"] = 13
      BY <2>1, <2>2, CreatePlaces
    <3>2. Done(p, "close") /\ Done(p, "dhctl")
      BY SMT, <2>2, <3>1 DEF Done
    <3> QED BY <2>1, <2>2, <3>2 DEF Busy
  <2>3. CASE Kind(p) = "resume"
    <3>1. proc[p].pc \in {7, 8, 9} /\ Place["resume"]["close"] = 6
      BY <2>1, <2>3, ResumePlaces
    <3>2. Done(p, "close")
      BY SMT, <2>3, <3>1 DEF Done
    <3> QED BY <2>1, <2>3, <3>2 DEF Busy
  <2> QED BY <2>1, <2>2, <2>3
\* What has been closed stays closed when Commander is to delete the cluster.
<1>17. ASSUME Shape, NEW p \in Procs, Fine(p), Stage(p) = "delete", Ends(p, "done"), UNCHANGED held
       PROVE  Open(p)
  <2> USE <1>17
  <2>1. Kind(p) \in Locking /\ ~ Idle(p)
    BY LockersOnly
  <2>2. proc[p].pc = UseAt[Kind(p)] + 3 /\ UseAt[Kind(p)] \in Nat /\ proc[p].pc <= Len(Program[Kind(p)])
    BY <2>1, AtLocking
  <2>3. Kind(p) # "commander" => Len(Program[Kind(p)]) = UseAt[Kind(p)] + 2
    BY <2>1, AtLocking
  <2>4. Kind(p) = "commander"
    BY SMT, <2>2, <2>3
  <2>5. Program["commander"][8] = "close" /\ 8 \in DOMAIN Program["commander"] /\ UseAt["commander"] = 6
    BY SMT, CommanderProgram DEF UseAt, Locking
  <2>6. Place["commander"]["close"] = 8
    BY <2>5, PlaceOf, KindsAre
  <2>7. Done(p, "close")
    BY SMT, <2>2, <2>4, <2>5, <2>6 DEF Done
  <2>8. held[p] = {}
    BY <2>1, <2>4, <2>7 DEF Fine, Busy
  <2>9. HeldElse(p) /\ held'[p] = {}
    BY <2>8, HeldIs
  <2> QED BY <2>9, <1>4
\* Without a client for the base cluster only its connections are left to close.
<1>18. ASSUME Shape, NEW p \in Procs, Fine(p), past.kept \subseteq past'.kept,
              Stage(p) = "close", Kind(p) \in {"create", "resume"},
              Closes(p, {"test", "testTunnel", "setup"}),
              proc' = [proc EXCEPT ![p].pc = Place[Kind(p)]["closeBase"]]
       PROVE  Open(p)
  <2> USE <1>18
  <2> DEFINE n == Place[Kind(p)]["closeBase"]
  <2>1. Goes(p, n)
    BY SMT DEF Shape, Goes, Kind, Run, Fields
  <2>2. HeldElse(p) /\ held'[p] = held[p] \ {"test", "testTunnel", "setup"}
    BY HeldIs
  <2>3. ~ Idle(p) /\ Busy(p)
    BY DEF Stage, Fine
  <2>4. Kind(p)' = Kind(p) /\ Run(p)' = Run(p) /\ proc'[p].pc = n
    BY <2>1 DEF Goes, Kind, Run
  <2>5. proc[p].pc = Place[Kind(p)]["close"]
    BY <2>3, AtPlace
  <2>6. CASE Kind(p) = "create"
    <3>1. Place["create"]["close"] = 21 /\ Place["create"]["dhctl"] = 13 /\ n = 24
      BY <2>6, CreatePlaces
    <3>2. Done(p, "dhctl") /\ ~ Idle(p)'
      BY SMTT(20), <2>4, <2>5, <2>6, <3>1 DEF Done, Idle
    <3>3. held'[p] \subseteq Base \cup {"connYAML"} /\ ("connYAML" \in held'[p] => Run(p) \in past'.kept)
      BY <2>2, <2>3, <2>6, <3>2 DEF Busy, Test
    <3>4. Busy(p)'
      BY SMT, <2>4, <2>6, <3>3 DEF Busy, Locking
    <3> QED BY <2>2, <3>2, <3>4 DEF Open, Fine
  <2>7. CASE Kind(p) = "resume"
    <3>1. n = 9
      BY <2>7, ResumePlaces
    <3>2. ~ Idle(p)'
      BY SMT, <2>4, <3>1 DEF Idle
    <3>3. held'[p] \subseteq Base
      BY <2>2, <2>3, <2>7 DEF Busy, Test
    <3>4. Busy(p)'
      BY SMTT(20), <2>4, <2>7, <3>3 DEF Busy, Locking
    <3> QED BY <2>2, <3>2, <3>4 DEF Open, Fine
  <2> QED BY <2>6, <2>7
\* The cleanup of a run that has built its cluster.
<1>19. ASSUME Shape, NEW p \in Procs, Fine(p), CloseTestCluster(p) \/ RemoveAllVMs(p) \/ CloseBase(p)
       PROVE  Open(p)
  <2> USE <1>19
  <2>1. past.kept \subseteq past'.kept
    BY ActionMoves DEF Frame, Grows, Create, Cleanup, Faults
  <2>2. CASE CloseTestCluster(p)
    <3>1. Stage(p) = "close" /\ Advance(p) /\ Closes(p, {"test", "testTunnel", "setup"})
      BY <2>2 DEF CloseTestCluster
    <3>2. /\ ~ Idle(p) /\ Goes(p, proc[p].pc + 1) /\ HeldElse(p)
          /\ held'[p] = held[p] \ {"test", "testTunnel", "setup"}
      BY <3>1, AdvanceGoes, HeldIs DEF Stage
    <3>3. held'[p] \subseteq held[p] /\ held'[p] \cap (Test \cup {"setup"}) = {}
      BY <3>2 DEF Test
    <3> QED BY <2>1, <3>1, <3>2, <3>3, <1>3
  <2>3. CASE RemoveAllVMs(p)
    <3>1. /\ Stage(p) = "removeSetup" /\ Closes(p, {"connYAML"})
          /\ Advance(p) \/ (Ends(p, "panic") /\ Kind(p) = "resume")
      BY <2>3 DEF RemoveAllVMs
    <3>2. HeldElse(p) /\ held'[p] = held[p] \ {"connYAML"} /\ ~ Idle(p)
      BY <3>1, HeldIs DEF Stage
    <3>3. held'[p] \subseteq held[p]
      BY <3>2
    <3>4. CASE Advance(p)
      BY <2>1, <3>1, <3>2, <3>3, <3>4, AdvanceGoes, <1>3
    <3>5. CASE Ends(p, "panic") /\ Kind(p) = "resume"
      <4>1. held'[p] \subseteq Base
        BY <3>1, <3>3, <3>5, <1>16
      <4> QED BY <3>2, <3>5, <4>1, <1>4
    <3> QED BY <3>1, <3>4, <3>5
  <2>4. CASE CloseBase(p)
    <3>1. CASE Stage(p) = "removeAll" /\ Advance(p) /\ UNCHANGED held
      <4>1. HeldElse(p) /\ held'[p] = held[p] /\ ~ Idle(p) /\ Goes(p, proc[p].pc + 1)
        BY <3>1, HeldIs, AdvanceGoes DEF Stage
      <4> QED BY <2>1, <3>1, <4>1, <1>3
    <3>2. CASE Stage(p) = "closeBase" /\ Closes(p, {"base", "baseTunnel"}) /\ Ends(p, "done")
      <4>1. HeldElse(p) /\ held'[p] = held[p] \ {"base", "baseTunnel"}
        BY <3>2, HeldIs
      <4>2. \A h \in held'[p] : h = "connYAML" /\ Run(p) \in past'.kept
        BY <2>1, <3>2, <4>1, <1>16 DEF Base
      <4> QED BY <3>2, <4>1, <4>2, <1>4
    <3> QED BY <2>4, <3>1, <3>2 DEF CloseBase
  <2> QED BY <2>2, <2>3, <2>4
\* The cleanup of one that has not: it does not know of the jump host.
<1>20. ASSUME Shape, NEW p \in Procs, Fine(p), CloseExisting(p) \/ DeleteCommanderCluster(p)
       PROVE  Open(p)
  <2> USE <1>20
  <2>1. past.kept \subseteq past'.kept
    BY ActionMoves DEF Frame, Grows, Create, Cleanup, Faults
  <2>2. CASE CloseExisting(p)
    <3>1. /\ Stage(p) = "close" /\ Kind(p) \in Locking /\ Closes(p, {"test", "testTunnel"})
          /\ (Advance(p) /\ Kind(p) = "commander") \/ Ends(p, "done")
      BY <2>2 DEF CloseExisting
    <3>2. HeldElse(p) /\ held'[p] = held[p] \ {"test", "testTunnel"} /\ ~ Idle(p)
      BY <3>1, HeldIs DEF Stage
    <3>3. Busy(p)
      BY <3>2 DEF Fine
    <3>4. CASE Advance(p) /\ Kind(p) = "commander"
      <4>1. held[p] \subseteq Test
        BY <3>3, <3>4 DEF Busy, Locking
      <4>2. held'[p] = {}
        BY <3>2, <4>1 DEF Test
      <4> QED BY <2>1, <3>1, <3>2, <3>4, <4>2, AdvanceGoes, <1>3
    <3>5. CASE Ends(p, "done")
      <4>1. \A h \in held'[p] : h \in Base /\ Kind(p) = "jump"
        BY <3>1, <3>2, <3>3 DEF Busy, Test
      <4> QED BY <3>2, <3>5, <4>1, <1>4
    <3> QED BY <3>1, <3>4, <3>5
  <2>3. CASE DeleteCommanderCluster(p)
    <3>1. Stage(p) = "delete" /\ Ends(p, "done") /\ UNCHANGED held
      BY SMT, <2>3 DEF DeleteCommanderCluster
    <3> QED BY <3>1, <1>17
  <2> QED BY <2>2, <2>3
\* The lock and its release.
<1>21. ASSUME Shape, NEW p \in Procs, Fine(p), past.kept \subseteq past'.kept,
              AcquireClusterLock(p) \/ AcquireFails(p) \/ ReleaseClusterLock(p) \/ ReleaseFails(p)
       PROVE  Open(p)
  <2> USE <1>21
  <2>1. CASE AcquireClusterLock(p) \/ AcquireFails(p)
    <3>1. /\ Stage(p) = "lock"
          /\ \/ Fails(p)
             \/ (Sub(p, "get") \/ Sub(p, "create")) /\ UNCHANGED held
             \/ Advance(p) /\ UNCHANGED held
      BY <2>1 DEF AcquireClusterLock, AcquireFails
    <3>2. ~ Idle(p) /\ Stage(p) \notin Leaving
      BY <3>1 DEF Stage, Leaving
    <3>3. CASE Advance(p) /\ UNCHANGED held
      <4>1. HeldElse(p) /\ held'[p] = held[p] /\ Goes(p, proc[p].pc + 1)
        BY <3>3, HeldIs, AdvanceGoes
      <4> QED BY <3>1, <3>2, <4>1, <1>3
    <3> QED BY <3>1, <3>2, <3>3, <1>10, <1>11
  <2>2. CASE ReleaseClusterLock(p) \/ ReleaseFails(p)
    <3>1. /\ Stage(p) = "unlock"
          /\ \/ Sub(p, "again") /\ UNCHANGED held
             \/ Advance(p) /\ UNCHANGED held
             \/ Ends(p, "failed") /\ held' = [held EXCEPT ![p] = {}]
      BY <2>2 DEF ReleaseClusterLock, ReleaseFails, AfterUnlock
    <3>2. ~ Idle(p)
      BY <3>1 DEF Stage
    <3>3. CASE Advance(p) /\ UNCHANGED held
      <4>1. HeldElse(p) /\ held'[p] = held[p] /\ Goes(p, proc[p].pc + 1)
        BY <3>3, HeldIs, AdvanceGoes
      <4> QED BY <3>1, <3>2, <4>1, <1>3
    <3>4. CASE Ends(p, "failed") /\ held' = [held EXCEPT ![p] = {}]
      <4>1. HeldElse(p) /\ held'[p] = {}
        BY <3>4, HeldIs
      <4> QED BY <3>4, <4>1, <1>4
    <3> QED BY <3>1, <3>2, <3>3, <3>4, <1>11
  <2> QED BY <2>1, <2>2
\* Faults.
<1>22. ASSUME Shape, NEW p \in Procs, Fine(p), StepFails(p) \/ ConnYAMLStays(p) \/ CleanupFails(p) \/ Kill(p)
       PROVE  Open(p)
  <2> USE <1>22
  <2>1. past.kept \subseteq past'.kept
    BY ActionMoves DEF Frame, Grows, Create, Cleanup, Faults
  <2>2. CASE StepFails(p)
    <3>1. Stage(p) \notin Leaving
      BY <2>2, StepsAre DEF StepFails
    <3>2. CASE Fails(p)
      BY <2>1, <3>1, <3>2, <1>10
    <3>3. CASE /\ Kind(p) \in Locking /\ proc[p].pc > Place[Kind(p)]["lock"] /\ Unlocks(p, "dead")
               /\ UNCHANGED held
      BY <2>1, <3>1, <3>3, <1>9
    <3> QED BY <2>2, <3>2, <3>3 DEF StepFails, Unlocks
  <2>3. CASE ConnYAMLStays(p)
    <3>1. Stage(p) \in {"connYAML", "dhctl"}
      BY <2>3 DEF ConnYAMLStays
    <3>2. Run(p) \in past'.kept /\ ~ Idle(p)
      <4>1. past' = [past EXCEPT !.disturbed = @ \cup {Run(p)}, !.kept = @ \cup {Run(p)}]
        BY <2>3 DEF ConnYAMLStays
      <4>2. Run(p) \in past'.kept
        BY SMT, <4>1 DEF Shape, Pasts
      <4> QED BY <3>1, <4>2 DEF Stage
    <3>3. CASE Ends(p, "failed") /\ held' = [held EXCEPT ![p] = {"connYAML"}]
      <4>1. HeldElse(p) /\ held'[p] = {"connYAML"}
        BY <3>3, HeldIs
      <4> QED BY <3>2, <3>3, <4>1, <1>4
    <3>4. CASE Advance(p) /\ UNCHANGED held
      <4>1. HeldElse(p) /\ held'[p] = held[p] /\ Goes(p, proc[p].pc + 1)
        BY <3>4, HeldIs, AdvanceGoes
      <4> QED BY <2>1, <3>1, <3>2, <4>1, <1>3
    <3> QED BY <2>3, <3>3, <3>4 DEF ConnYAMLStays
  <2>4. CASE CleanupFails(p)
    <3>1. CASE Stage(p) = "delete" /\ Ends(p, "done") /\ UNCHANGED held
      BY <3>1, <1>17
    <3>2. CASE /\ Stage(p) = "close" /\ Kind(p) \in {"create", "resume"}
               /\ Closes(p, {"test", "testTunnel", "setup"})
               /\ proc' = [proc EXCEPT ![p].pc = Place[Kind(p)]["closeBase"]]
      BY <2>1, <3>2, <1>18
    <3> QED BY <2>4, <3>1, <3>2 DEF CleanupFails
  <2>5. CASE Kill(p)
    <3>1. Ends(p, "killed") /\ held' = [held EXCEPT ![p] = {}]
      BY <2>5 DEF Kill
    <3>2. HeldElse(p) /\ held'[p] = {}
      BY <3>1, HeldIs
    <3> QED BY <3>1, <3>2, <1>4
  <2> QED BY <2>2, <2>3, <2>4, <2>5
\* Every step of a process keeps it fine.
<1>23. ASSUME Shape, NEW p \in Procs, Fine(p), Create(p) \/ Use(p) \/ Cleanup(p) \/ Faults(p)
       PROVE  Open(p)
  <2> USE <1>23
  <2>1. past.kept \subseteq past'.kept
    BY ActionMoves DEF Frame, Grows
  <2>2. CASE Create(p)
    BY <2>1, <2>2, <1>7, <1>13, <1>14, <1>15, <1>21 DEF Create
  <2>3. CASE Use(p)
    BY <2>3, <1>13
  <2>4. CASE Cleanup(p)
    BY <2>1, <2>4, <1>19, <1>20, <1>15, <1>21 DEF Cleanup
  <2>5. CASE Faults(p)
    BY <2>1, <2>5, <1>22, <1>15, <1>21 DEF Faults
  <2> QED BY <2>2, <2>3, <2>4, <2>5
\* A run begins with nothing open.
<1>24. ASSUME Shape, NEW p \in Procs, Start(p)
       PROVE  Open(p) /\ (\A q \in Procs \ {p} : proc'[q] = proc[q]) /\ past.kept \subseteq past'.kept
  <2> USE <1>24
  <2>1. PICK k, id : proc' = [proc EXCEPT ![p] = [NoProc EXCEPT !.kind = k, !.pc = 1, !.run = runs + 1, !.id = id]]
    BY DEF Start
  <2> DEFINE r == [NoProc EXCEPT !.kind = k, !.pc = 1, !.run = runs + 1, !.id = id]
  <2>2. r.pc = 1
    BY SMT DEF NoProc
  <2>3. proc' = [proc EXCEPT ![p] = r]
    BY <2>1
  <2> HIDE DEF r
  <2>4. proc'[p].pc = 1 /\ \A q \in Procs \ {p} : proc'[q] = proc[q]
    BY <2>2, <2>3 DEF Shape
  <2>5. held' = [held EXCEPT ![p] = {}]
    BY DEF Start
  <2>6. HeldElse(p) /\ held'[p] = {}
    BY <2>5, HeldIs
  <2>7. ~ Idle(p)'
    BY SMT, <2>4 DEF Idle
  <2>8. Busy(p)'
    BY <2>6 DEF Busy
  <2>9. past'.kept = past.kept
    BY SMT DEF Start, Shape, Pasts
  <2> QED BY <2>4, <2>6, <2>7, <2>8, <2>9 DEF Open, Fine
<1>25. ASSUME NEW p \in Procs, Start(p) \/ Create(p) \/ Use(p) \/ Cleanup(p) \/ Faults(p)
      PROVE  OpenInv'
  <2>1. Fine(p)
    BY DEF OpenInv
  <2>2. Open(p) /\ (\A q \in Procs \ {p} : proc'[q] = proc[q]) /\ past.kept \subseteq past'.kept
    BY <1>25, <2>1, <1>24, <1>23, ActionMoves DEF Moves, Frame, Grows
  <2>3. \A q \in Procs \ {p} : Fine(q)'
    BY <2>2, OthersFine DEF Open
  <2> QED BY <2>2, <2>3 DEF OpenInv, Open
<1>26. ASSUME UNCHANGED proc, UNCHANGED held, UNCHANGED past PROVE OpenInv'
  BY <1>26, <1>12 DEF OpenInv, Open
<1>27. CASE World
  <2>1. UNCHANGED proc /\ UNCHANGED held /\ UNCHANGED past
    BY SMTT(20), <1>27 DEF World
  <2> QED BY <1>26, <2>1
<1>28. CASE UNCHANGED vars
  <2>1. UNCHANGED proc /\ UNCHANGED held /\ UNCHANGED past
    BY SMT, <1>28 DEF vars
  <2> QED BY <1>26, <2>1
<1> QED BY <1>25, <1>27, <1>28 DEF Next

\* A run that has ended by itself has nothing open but what the error paths are known to
\* leave: each connection that CreateOrConnectToTestCluster opens is closed on every other path.
THEOREM NothingLeftOpenHolds == Spec => []NothingLeftOpen
\* It holds at the beginning.
<1>1. Init => OpenInv
  <2> SUFFICES ASSUME Init, NEW p \in Procs PROVE Fine(p)
    BY DEF OpenInv
  <2>1. proc[p] = NoProc /\ held[p] = {}
    BY DEF Init
  <2>2. NoProc.pc = 0
    BY SMT DEF NoProc
  <2> QED BY <2>1, <2>2 DEF Fine, Idle, Gone
\* The steps whose error path forgets the tunnel.
<1>2. Range(SubSeq(CreateTestCluster, Place["create"]["connect"], Len(CreateTestCluster))) = Late
  <2>1. Place["create"]["connect"] = 14 /\ Len(CreateTestCluster) = 19
    <3>1. Len(CreateTestCluster) = 19
      BY SMT DEF CreateTestCluster
    <3> QED BY <3>1, CreatePlaces
  <2> DEFINE q == SubSeq(CreateTestCluster, 14, 19)
  <2>2. DOMAIN q = 1 .. 6 /\ q[1] = "connect" /\ q[2] = "nodeGroup" /\ q[3] = "join"
        /\ q[4] = "joined" /\ q[5] = "modules" /\ q[6] = "ready"
    BY SMT DEF CreateTestCluster
  <2> HIDE DEF q
  <2>3. Range(q) = {q[i] : i \in 1 .. 6}
    BY <2>2 DEF Range
  <2>4. Range(q) = Late
    BY SMT, <2>2, <2>3 DEF Late
  <2> QED BY <2>1, <2>4 DEF q
<1>3. OpenInv => NothingLeftOpen
  <2> SUFFICES ASSUME OpenInv, NEW p \in Procs, Idle(p), proc[p].at # "ready"
               PROVE  held[p] \ {f \in {"connYAML"} : Run(p) \in past.kept} \subseteq Left(p)
    BY <1>2 DEF NothingLeftOpen, Left, Base
  <2>1. Gone(p)
    BY DEF OpenInv, Fine
  <2> QED BY <2>1 DEF Gone
<1>4. Init => Shape /\ LockInv /\ OpenInv
  BY LockInit, <1>1
<1>5. (Shape /\ LockInv /\ OpenInv) /\ [Next]_vars => (Shape /\ LockInv /\ OpenInv)'
  BY LockNext, OpenNext
<1> QED BY <1>3, <1>4, <1>5, PTL DEF Spec

================================================================================
