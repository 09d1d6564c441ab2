--------------------------- MODULE StressTestsProofs ---------------------------
(***************************************************************************)
(* Proofs about StressTests, for any configurations, indexes, numbers of   *)
(* runs and of faults: a run with Cleanup that passes leaves nothing but   *)
(* objects that are being deleted.                                         *)
(***************************************************************************)
EXTENDS StressTests, SequenceTheorems, TLAPS

\* A leaf is for Zenon, unless it names another prover.
USE Zenon

---------------------------------------------------------------------------
(* Objects.                                                                *)

\* Objects say whether they are being deleted.
Objects(f) == \A n \in DOMAIN f : "deleted" \in DOMAIN f[n]
AllDeleted(f) == \A n \in DOMAIN f : f[n].deleted

\* g has objects of f, and they are being deleted if they were in f.
Remains(f, g) ==
    /\ Objects(g)
    /\ DOMAIN g \subseteq DOMAIN f
    /\ \A n \in DOMAIN g : f[n].deleted => g[n].deleted

\* What remains of objects that were all being deleted is being deleted.
LEMMA RemainsDeleted ==
    ASSUME NEW f, NEW g, Remains(f, g), AllDeleted(f)
    PROVE  AllDeleted(g)
BY DEF Remains, AllDeleted

\* Nothing changes.
LEMMA RemainsSame ==
    ASSUME NEW f, Objects(f)
    PROVE  Remains(f, f)
BY DEF Remains

\* Objects are changed, but not whether they are being deleted.
LEMMA RemainsLike ==
    ASSUME NEW f, NEW g, Objects(f), DOMAIN g = DOMAIN f,
           \A n \in DOMAIN f : DOMAIN g[n] = DOMAIN f[n] /\ (f[n].deleted => g[n].deleted)
    PROVE  Remains(f, g)
BY DEF Remains, Objects

\* Marked objects are all being deleted.
LEMMA MarkedDeleted ==
    ASSUME NEW f, Objects(f)
    PROVE  Remains(f, Marked(f)) /\ AllDeleted(Marked(f))
<1>1. DOMAIN Marked(f) = DOMAIN f
  BY SMT DEF Marked
<1>2. ASSUME NEW n \in DOMAIN f PROVE "deleted" \in DOMAIN Marked(f)[n] /\ Marked(f)[n].deleted
  <2>1. "deleted" \in DOMAIN f[n]
    BY DEF Objects
  <2> QED BY SMT, <2>1 DEF Marked
<1> QED BY <1>1, <1>2 DEF Remains, Objects, AllDeleted

\* Objects go.
LEMMA RemainsWithout ==
    ASSUME NEW f, Objects(f), NEW S
    PROVE  Remains(f, Without(f, S))
<1>1. DOMAIN Without(f, S) = DOMAIN f \ S /\ \A n \in DOMAIN f \ S : Without(f, S)[n] = f[n]
  BY SMT DEF Without
<1> QED BY <1>1 DEF Remains, Objects

\* There are none left.
LEMMA RemainsEmpty ==
    ASSUME NEW f PROVE Remains(f, Empty) /\ Objects(Empty)
<1>1. DOMAIN Empty = {}
  BY SMT DEF Empty
<1> QED BY <1>1 DEF Remains, Objects

\* An object is created.
LEMMA PutObject ==
    ASSUME NEW f, Objects(f), NEW n, NEW o, "deleted" \in DOMAIN o
    PROVE  Objects(Put(f, n, o))
<1>1. DOMAIN Put(f, n, o) = DOMAIN f \cup {n} /\ \A m \in DOMAIN f \cup {n} : Put(f, n, o)[m] = IF m = n THEN o ELSE f[m]
  BY SMT DEF Put
<1> QED BY SMT, <1>1 DEF Objects

---------------------------------------------------------------------------
(* Stages.                                                                 *)

\* The goroutines of cleanup.
DeletePods == [calls |-> <<"deletePods">>]
DeleteClaims == [calls |-> <<"deleteClaims">>]
DeleteSnapshot(x) == [calls |-> <<"deleteSnapshot">>, snap |-> x]
DeleteNamespace == [calls |-> <<"deleteNamespace">>]

\* The number of stages of cleanup, and the one a run is in; 0 or less: it is not there yet.
Cleanups == IF inDefault THEN 4 ELSE 5
Cleaning == at - Len(Stages[config])

\* What a run that cleans up has still to do, and what it has done.
Left ==
    /\ Cleaning = 1 => todo \subseteq {DeletePods}
    /\ Cleaning = 2 => todo \subseteq {DeleteClaims}
    /\ Cleaning = 3 => \A t \in todo : t = DeleteSnapshot(t.snap)
    /\ Cleaning = 4 => todo = {}
    /\ Cleaning = 5 => todo \subseteq {DeleteNamespace}
Through(k) == Cleaning > k \/ (Cleaning = k /\ ~ failed /\ todo = {})
Cleaned ==
    /\ Through(1) => AllDeleted(pods)
    /\ Through(2) => AllDeleted(claims)
    /\ Cleaning > 3 => AllDeleted(snaps)
    /\ Cleaning = 3 /\ ~ failed => \A x \in DOMAIN snaps : snaps[x].deleted \/ DeleteSnapshot(x) \in todo
    /\ Through(5) => ns # "active"

\* The invariant.
Places ==
    /\ at \in Nat
    /\ at = 0 => todo = {}
    /\ at # 0 => config \in Configs /\ at <= Length
ObjectsInv == Objects(claims) /\ Objects(pods) /\ Objects(snaps)
CleanupInv == Places /\ ObjectsInv /\ (at # 0 /\ Cleaning > 0 => Left /\ Cleaned) /\ CleanRunLeavesNothing

\* cleanup has four or five stages.
LEMMA CleanupIs ==
    /\ Len(cleanup) = Cleanups /\ Cleanups \in {4, 5} /\ (Cleanups = 4 <=> inDefault)
    /\ cleanup[1] = Call("deletePods") /\ cleanup[2] = Call("deleteClaims")
    /\ cleanup[3] = [op |-> "deleteSnapshots"] /\ cleanup[4] = [op |-> "gone"]
    /\ Cleanups = 5 => cleanup[5] = Call("deleteNamespace")
<1> DEFINE a == Call("deletePods")  b == Call("deleteClaims")  c == [op |-> "deleteSnapshots"]
           d == [op |-> "gone"]  e == Call("deleteNamespace")
<1>1. cleanup = <<a, b, c, d>> \o (IF inDefault THEN <<>> ELSE <<e>>)
  BY DEF cleanup
<1> HIDE DEF a, b, c, d, e
<1>2. /\ Len(cleanup) = Cleanups /\ Cleanups \in {4, 5} /\ (Cleanups = 4 <=> inDefault)
      /\ cleanup[1] = a /\ cleanup[2] = b /\ cleanup[3] = c /\ cleanup[4] = d /\ (Cleanups = 5 => cleanup[5] = e)
  <2>1. CASE inDefault
    <3>1. cleanup = <<a, b, c, d>>
      BY SMT, <1>1, <2>1
    <3> QED BY SMT, <2>1, <3>1 DEF Cleanups
  <2>2. CASE ~ inDefault
    <3> DEFINE q == <<a, b, c, d>>  w == <<e>>  T == {a, b, c, d, e}
    <3>1. cleanup = q \o w
      BY <1>1, <2>2
    <3>2. /\ q \in Seq(T) /\ w \in Seq(T) /\ Len(q) = 4 /\ Len(w) = 1
          /\ q[1] = a /\ q[2] = b /\ q[3] = c /\ q[4] = d /\ w[1] = e
      BY SMT
    <3> HIDE DEF q, w, T
    <3>3. Len(cleanup) = 5 /\ cleanup[1] = a /\ cleanup[2] = b /\ cleanup[3] = c /\ cleanup[4] = d /\ cleanup[5] = e
      <4>1. /\ Len(q \o w) = Len(q) + Len(w)
            /\ \A i \in 1 .. Len(q) + Len(w) : (q \o w)[i] = IF i <= Len(q) THEN q[i] ELSE w[i - Len(q)]
        BY <3>2, ConcatProperties
      <4>2. /\ Len(cleanup) = 4 + 1
            /\ \A i \in 1 .. 4 + 1 : cleanup[i] = IF i <= 4 THEN q[i] ELSE w[i - 4]
        BY <3>1, <3>2, <4>1
      <4> QED BY SMT, <3>2, <4>2
    <3> QED BY SMT, <2>2, <3>3 DEF Cleanups
  <2> QED BY <2>1, <2>2
<1> QED BY <1>2 DEF a, b, c, d, e

\* The stages of a run that cleans up.
LEMMA CleanupStages ==
    ASSUME Places, at # 0, Cleaning > 0
    PROVE  /\ config.cleanup /\ Cleaning \in 1 .. Cleanups /\ Stage = cleanup[Cleaning]
           /\ (Cleaning = 4 <=> Stage.op = "gone")
           /\ (Cleaning # 4 <=> Stage.op \in {"group", "deleteSnapshots"})
<1> DEFINE n == Len(Stages[config])
<1>1. n \in Nat /\ n # 0 /\ at \in Nat /\ at <= Length
  BY StagesAssumption DEF Places
<1>2. Cleaning = at - n /\ Length = n + (IF config.cleanup THEN Cleanups ELSE 0)
  BY CleanupIs DEF Cleaning, Length
<1>3. Stage = IF at <= n THEN Stages[config][at] ELSE cleanup[at - n]
  BY DEF Stage, StageAt
<1> HIDE DEF n
<1>4. config.cleanup /\ Cleaning \in 1 .. Cleanups /\ Stage = cleanup[Cleaning]
  BY SMT, <1>1, <1>2, <1>3, CleanupIs
<1>5. Cleaning \in {1, 2, 3, 4, 5} /\ (Cleaning = 5 => Cleanups = 5)
  BY SMT, <1>4, CleanupIs
<1>6. /\ Call("deletePods").op = "group" /\ Call("deleteClaims").op = "group" /\ Call("deleteNamespace").op = "group"
      /\ [op |-> "deleteSnapshots"].op = "deleteSnapshots" /\ [op |-> "gone"].op = "gone"
  BY SMT DEF Call, Group
<1>7. /\ Cleaning = 4 => Stage.op = "gone"
      /\ Cleaning # 4 => Stage.op \in {"group", "deleteSnapshots"}
  BY SMT, <1>4, <1>5, <1>6, CleanupIs
<1> QED BY <1>4, <1>7

---------------------------------------------------------------------------
(* Steps.                                                                  *)

\* Nobody creates anything.
Fades ==
    /\ Remains(claims, claims') /\ Remains(pods, pods') /\ Remains(snaps, snaps')
    /\ ns' = "active" => ns = "active"
    /\ inDefault' = inDefault
Waits == UNCHANGED <<config, at, todo, failed, last>>

\* What a run has cleaned stays cleaned.
LEMMA FadesKeeps ==
    ASSUME CleanupInv, Fades, Waits
    PROVE  CleanupInv'
<1> DEFINE n == Len(Stages[config])
<1>1. /\ config' = config /\ at' = at /\ todo' = todo /\ failed' = failed /\ last' = last
      /\ Length' = Length /\ Cleaning' = Cleaning
  BY DEF Waits, Fades, Length, Cleaning, cleanup
<1>2. Places' /\ ObjectsInv'
  BY <1>1 DEF CleanupInv, Places, ObjectsInv, Fades, Remains
<1>3. /\ AllDeleted(claims) => AllDeleted(claims')
      /\ AllDeleted(pods) => AllDeleted(pods')
      /\ AllDeleted(snaps) => AllDeleted(snaps')
  BY RemainsDeleted DEF Fades
<1>4. CleanRunLeavesNothing'
  BY <1>1, <1>3 DEF CleanupInv, CleanRunLeavesNothing, AllDeleted, Fades
<1>5. ASSUME at # 0, Cleaning > 0 PROVE Left' /\ Cleaned'
  <2>1. Left /\ Cleaned
    BY <1>5 DEF CleanupInv
  <2>2. Left'
    BY <1>1, <2>1 DEF Left
  <2>3. \A k : Through(k)' <=> Through(k)
    BY <1>1 DEF Through
  <2>4. Cleaning = 3 /\ ~ failed => \A x \in DOMAIN snaps' : snaps'[x].deleted \/ DeleteSnapshot(x) \in todo
    BY <2>1 DEF Cleaned, Fades, Remains
  <2> QED BY <1>1, <1>3, <2>1, <2>2, <2>3, <2>4 DEF Cleaned, Fades, DeleteSnapshot
<1> QED BY <1>1, <1>2, <1>4, <1>5 DEF CleanupInv

\* A run that is over without success has promised nothing.
LEMMA EndsKeeps ==
    ASSUME CleanupInv, UNCHANGED <<inDefault, objects, config>>, at' = 0, todo' = {}, last' # "ok"
    PROVE  CleanupInv'
<1>1. Places' /\ ObjectsInv'
  BY SMT DEF CleanupInv, Places, ObjectsInv, objects
<1>2. CleanRunLeavesNothing'
  BY DEF CleanRunLeavesNothing
<1> QED BY <1>1, <1>2 DEF CleanupInv

\* The same, as Return is used.
LEMMA ReturnKeeps ==
    ASSUME CleanupInv, UNCHANGED <<inDefault, objects>>, Return("err") \/ Return("killed")
    PROVE  CleanupInv'
<1>1. UNCHANGED <<inDefault, objects, config>> /\ at' = 0 /\ todo' = {}
  BY DEF Return
<1>2. last' # "ok"
  BY SMT DEF Return
<1> QED BY <1>1, <1>2, EndsKeeps

\* The goroutines of a stage are through, if it has any.
Complete == Cleaning > 0 => Cleaning = 4 \/ (todo = {} /\ ~ failed)

\* The next stage begins, or the run is over.
LEMMA ProceedKeeps ==
    ASSUME CleanupInv, at # 0, Complete, Proceed, UNCHANGED <<inDefault, objects>>
    PROVE  CleanupInv'
<1> DEFINE n == Len(Stages[config])
<1>1. n \in Nat /\ n # 0 /\ at \in Nat /\ at <= Length /\ config \in Configs
  BY StagesAssumption DEF CleanupInv, Places
<1>2. Cleaning = at - n /\ Length = n + (IF config.cleanup THEN Cleanups ELSE 0)
  BY CleanupIs DEF Cleaning, Length
<1>3. config' = config /\ cleanup' = cleanup /\ Length' = Length /\ inDefault' = inDefault
  BY DEF Proceed, Return, Length, cleanup
<1>4. claims' = claims /\ pods' = pods /\ snaps' = snaps /\ ns' = ns
  BY DEF objects
<1>5. ObjectsInv'
  BY <1>4 DEF CleanupInv, ObjectsInv
<1>6. Cleaning > 0 => /\ Cleaning \in {1, 2, 3, 4, 5} /\ Left /\ Cleaned
                      /\ (Cleaning = 4 \/ (todo = {} /\ ~ failed))
  <2>1. Cleaning > 0 => Cleaning \in {1, 2, 3, 4, 5}
    BY SMT, CleanupStages, CleanupIs DEF CleanupInv
  <2> QED BY <2>1 DEF CleanupInv, Complete
\* So far all of cleanup is done.
<1>7. /\ Cleaning > 0 => AllDeleted(pods)
      /\ Cleaning > 1 => AllDeleted(claims)
      /\ Cleaning > 2 => AllDeleted(snaps)
      /\ Cleaning > 4 => ns # "active"
  <2>1. Cleaning > 0 => /\ Cleaning > 1 \/ Cleaning = 1
                        /\ Cleaning > 1 => Cleaning > 2 \/ Cleaning = 2
                        /\ Cleaning > 2 => Cleaning > 3 \/ Cleaning = 3
                        /\ Cleaning > 4 => Cleaning = 5
    BY SMT, <1>6
  <2>2. Cleaning \in {1, 2, 3, 5} => todo = {} /\ ~ failed
    <3>1. Cleaning \in {1, 2, 3, 5} => Cleaning > 0 /\ Cleaning # 4
      BY SMT
    <3> QED BY <1>6, <3>1
  <2>3. (Cleaning > 1 => Cleaning > 0) /\ (Cleaning > 2 => Cleaning > 1) /\ (Cleaning > 4 => Cleaning > 2)
    BY SMT, <1>1, <1>2
  <2>4. CASE Cleaning > 0
    BY <1>6, <2>1, <2>2, <2>4 DEF Cleaned, Through, AllDeleted
  <2> QED BY <2>3, <2>4
<1>10. \A i : ~ (i <= n) => StageAt(i) = cleanup[i - n]
  BY DEF StageAt
<1> HIDE DEF n
<1>8. CASE at = Length
  <2>1. at' = 0 /\ todo' = {}
    BY <1>8 DEF Proceed, Return
  <2>2. Places'
    BY SMT, <1>1, <1>3, <2>1 DEF Places
  <2>3. ASSUME config.cleanup
        PROVE  AllDeleted(pods) /\ AllDeleted(claims) /\ AllDeleted(snaps) /\ (~ inDefault => ns # "active")
    <3>1. Cleaning > 2 /\ (~ inDefault => Cleaning > 4) /\ Cleaning > 1 /\ Cleaning > 0
      BY SMT, <1>1, <1>2, <1>8, <2>3, CleanupIs
    <3> QED BY <1>7, <3>1
  <2>4. CleanRunLeavesNothing'
    <3>1. config'.cleanup => AllDeleted(pods') /\ AllDeleted(claims') /\ AllDeleted(snaps')
      BY <1>3, <1>4, <2>3
    <3>2. config'.cleanup => (~ inDefault' => ns' # "active")
      BY SMT, <1>3, <1>4, <2>3
    <3> QED BY <3>1, <3>2 DEF CleanRunLeavesNothing, AllDeleted
  <2> QED BY <1>5, <2>1, <2>2, <2>4 DEF CleanupInv
<1>9. CASE at # Length
  <2>1. at' = at + 1 /\ todo' = Tasks(StageAt(at + 1)) /\ failed' = FALSE
    BY <1>9 DEF Proceed
  <2>2. Cleaning' = Cleaning + 1
    BY SMT, <1>1, <1>2, <1>3, <2>1 DEF Cleaning, n
  <2>3. Places'
    BY SMT, <1>1, <1>2, <1>3, <1>9, <2>1, CleanupIs DEF Places
  <2>4. at' # 0
    BY SMT, <1>1, <2>1
  <2>5. CleanRunLeavesNothing'
    BY <2>4 DEF CleanRunLeavesNothing
  <2>6. ASSUME Cleaning' > 0 PROVE Left' /\ Cleaned'
    <3>1. /\ Cleaning' \in {1, 2, 3, 4, 5} /\ StageAt(at + 1) = cleanup[Cleaning']
          /\ Cleaning' = 5 => Cleanups = 5
      <4>1. ~ (at + 1 <= n) => StageAt(at + 1) = cleanup[(at + 1) - n]
        BY <1>10
      <4>2. Cleaning' = (at + 1) - n /\ ~ (at + 1 <= n)
        BY SMT, <1>1, <1>2, <2>2, <2>6
      <4>3. StageAt(at + 1) = cleanup[Cleaning']
        BY <4>1, <4>2
      <4>4. Cleaning' \in {1, 2, 3, 4, 5} /\ (Cleaning' = 5 => Cleanups = 5)
        BY SMT, <1>1, <1>2, <1>9, <4>2, CleanupIs
      <4> QED BY <4>3, <4>4
    <3>2. /\ Cleaning' = 1 => todo' = {DeletePods}
          /\ Cleaning' = 2 => todo' = {DeleteClaims}
          /\ Cleaning' = 3 => todo' = {DeleteSnapshot(x) : x \in DOMAIN snaps}
          /\ Cleaning' = 4 => todo' = {}
          /\ Cleaning' = 5 => todo' = {DeleteNamespace}
      <4>1. \A name : Tasks(Call(name)) = {[calls |-> <<name>>]}
        BY SMT DEF Tasks, Call, Group
      <4>2. Tasks([op |-> "deleteSnapshots"]) = {DeleteSnapshot(x) : x \in DOMAIN snaps}
        BY SMT DEF Tasks, DeleteSnapshot
      <4>3. Tasks([op |-> "gone"]) = {}
        BY SMT DEF Tasks
      <4> QED BY <2>1, <3>1, <4>1, <4>2, <4>3, CleanupIs DEF DeletePods, DeleteClaims, DeleteNamespace
    <3>3. Left'
      <4>1. \A x : DeleteSnapshot(x).snap = x
        BY SMT DEF DeleteSnapshot
      <4> QED BY <3>2, <4>1 DEF Left, DeletePods, DeleteClaims, DeleteNamespace, DeleteSnapshot
    <3>4. /\ Cleaning' > 1 => Cleaning > 0
          /\ Cleaning' > 2 => Cleaning > 1
          /\ Cleaning' > 3 => Cleaning > 2
          /\ ~ (Cleaning' > 5)
      BY SMT, <1>1, <1>2, <2>2, <3>1
    <3>5. /\ Through(1)' => Cleaning' > 1
          /\ Through(2)' => Cleaning' > 2
          /\ Through(5)' => Cleaning' > 5
      BY <3>2 DEF Through
    <3> QED BY <1>4, <1>7, <3>2, <3>3, <3>4, <3>5 DEF Cleaned, AllDeleted, DeleteSnapshot
  <2> QED BY <1>5, <2>3, <2>5, <2>6 DEF CleanupInv
<1> QED BY <1>8, <1>9

\* What a call that is served does to the objects.
LEMMA ServeObjects ==
    ASSUME ObjectsInv, NEW t, Serve(t)
    PROVE  ObjectsInv'
<1> DEFINE call == Head(t.calls)
<1>1. Objects(claims')
  <2>1. CASE call = "claim"
    <3> DEFINE o == [role |-> t.role, size |-> SizeFor(t), cap |-> 0, source |-> t.source, deleted |-> FALSE]
    <3>1. claims' = Put(claims, t.claim, o)
      BY SMT, <2>1 DEF Serve
    <3>2. "deleted" \in DOMAIN o
      BY SMT
    <3> QED BY <3>1, <3>2, PutObject DEF ObjectsInv
  <2>2. CASE call = "patch"
    <3>1. claims' = [claims EXCEPT ![t.claim].size = t.size]
      BY SMT, <2>2 DEF Serve
    <3>2. DOMAIN claims' = DOMAIN claims /\ \A n \in DOMAIN claims : DOMAIN claims'[n] = DOMAIN claims[n]
      BY SMT, <3>1
    <3> QED BY <3>2 DEF ObjectsInv, Objects
  <2>3. CASE call = "deleteClaims"
    <3>1. claims' = Marked(claims)
      BY SMT, <2>3 DEF Serve
    <3> QED BY <3>1, MarkedDeleted DEF ObjectsInv, Remains
  <2>4. CASE call \notin {"claim", "patch", "deleteClaims"}
    <3>1. claims' = claims
      BY SMT, <2>4 DEF Serve
    <3> QED BY <3>1 DEF ObjectsInv
  <2> QED BY <2>1, <2>2, <2>3, <2>4
<1>2. Objects(pods')
  <2>1. CASE call = "pod"
    <3> DEFINE o == [role |-> t.role, phase |-> "Pending", to |-> t.phase, claim |-> t.claim,
                     run |-> runs, reached |-> FALSE, deleted |-> FALSE]
    <3>1. pods' = Put(pods, t.pod, o)
      BY SMT, <2>1 DEF Serve
    <3>2. "deleted" \in DOMAIN o
      BY SMT
    <3> QED BY <3>1, <3>2, PutObject DEF ObjectsInv
  <2>2. CASE call = "deletePods"
    <3>1. pods' = Marked(pods)
      BY SMT, <2>2 DEF Serve
    <3> QED BY <3>1, MarkedDeleted DEF ObjectsInv, Remains
  <2>3. CASE call \notin {"pod", "deletePods"}
    <3>1. pods' = pods
      BY SMT, <2>3 DEF Serve
    <3> QED BY <3>1 DEF ObjectsInv
  <2> QED BY <2>1, <2>2, <2>3
<1>3. Objects(snaps')
  <2>1. CASE call = "snapshot"
    <3> DEFINE o == [source |-> t.source, ready |-> FALSE, size |-> 0, deleted |-> FALSE]
    <3>1. snaps' = Put(snaps, t.snap, o)
      BY SMT, <2>1 DEF Serve
    <3>2. "deleted" \in DOMAIN o
      BY SMT
    <3> QED BY <3>1, <3>2, PutObject DEF ObjectsInv
  <2>2. CASE call = "deleteSnapshot"
    <3>1. snaps' = [snaps EXCEPT ![t.snap].deleted = TRUE]
      BY SMT, <2>2 DEF Serve
    <3>2. DOMAIN snaps' = DOMAIN snaps /\ \A n \in DOMAIN snaps : DOMAIN snaps'[n] = DOMAIN snaps[n]
      BY SMT, <3>1
    <3> QED BY <3>2 DEF ObjectsInv, Objects
  <2>3. CASE call \notin {"snapshot", "deleteSnapshot"}
    <3>1. snaps' = snaps
      BY SMT, <2>3 DEF Serve
    <3> QED BY <3>1 DEF ObjectsInv
  <2> QED BY <2>1, <2>2, <2>3
<1> QED BY <1>1, <1>2, <1>3 DEF ObjectsInv

\* What a goroutine of cleanup calls, and what its call does.
LEMMA ServeCleans ==
    ASSUME ObjectsInv, NEW t, Serve(t)
    PROVE  /\ t = DeletePods => /\ Len(t.calls) = 1 /\ AllDeleted(pods') /\ Remains(pods, pods')
                                /\ claims' = claims /\ snaps' = snaps /\ ns' = ns
           /\ t = DeleteClaims => /\ Len(t.calls) = 1 /\ AllDeleted(claims') /\ Remains(claims, claims')
                                  /\ pods' = pods /\ snaps' = snaps /\ ns' = ns
           /\ t = DeleteSnapshot(t.snap) =>
                  /\ Len(t.calls) = 1 /\ Remains(snaps, snaps')
                  /\ t.snap \in DOMAIN snaps' => snaps'[t.snap].deleted
                  /\ claims' = claims /\ pods' = pods /\ ns' = ns
           /\ t = DeleteNamespace => /\ Len(t.calls) = 1 /\ ns' = "terminating"
                                     /\ claims' = claims /\ pods' = pods /\ snaps' = snaps
<1> DEFINE call == Head(t.calls)
<1>1. ASSUME t = DeletePods
      PROVE  /\ Len(t.calls) = 1 /\ AllDeleted(pods') /\ Remains(pods, pods')
             /\ claims' = claims /\ snaps' = snaps /\ ns' = ns
  <2>1. t.calls = <<"deletePods">>
    BY SMT, <1>1 DEF DeletePods
  <2>2. call = "deletePods" /\ Len(t.calls) = 1
    BY SMT, <2>1
  <2>3. pods' = Marked(pods) /\ claims' = claims /\ snaps' = snaps /\ ns' = ns
    BY SMT, <2>2 DEF Serve
  <2> QED BY <2>2, <2>3, MarkedDeleted DEF ObjectsInv
<1>2. ASSUME t = DeleteClaims
      PROVE  /\ Len(t.calls) = 1 /\ AllDeleted(claims') /\ Remains(claims, claims')
             /\ pods' = pods /\ snaps' = snaps /\ ns' = ns
  <2>1. t.calls = <<"deleteClaims">>
    BY SMT, <1>2 DEF DeleteClaims
  <2>2. call = "deleteClaims" /\ Len(t.calls) = 1
    BY SMT, <2>1
  <2>3. claims' = Marked(claims) /\ pods' = pods /\ snaps' = snaps /\ ns' = ns
    BY SMT, <2>2 DEF Serve
  <2> QED BY <2>2, <2>3, MarkedDeleted DEF ObjectsInv
<1>3. ASSUME t = DeleteSnapshot(t.snap)
      PROVE  /\ Len(t.calls) = 1 /\ Remains(snaps, snaps')
             /\ t.snap \in DOMAIN snaps' => snaps'[t.snap].deleted
             /\ claims' = claims /\ pods' = pods /\ ns' = ns
  <2>1. t.calls = <<"deleteSnapshot">>
    BY SMT, <1>3 DEF DeleteSnapshot
  <2>2. call = "deleteSnapshot" /\ Len(t.calls) = 1
    BY SMT, <2>1
  <2>3. snaps' = [snaps EXCEPT ![t.snap].deleted = TRUE] /\ claims' = claims /\ pods' = pods /\ ns' = ns
    BY SMT, <2>2 DEF Serve
  <2>4. DOMAIN snaps' = DOMAIN snaps /\ \A n \in DOMAIN snaps : DOMAIN snaps'[n] = DOMAIN snaps[n]
    BY SMT, <2>3
  <2>5. ASSUME NEW n \in DOMAIN snaps
        PROVE  snaps'[n].deleted = IF n = t.snap THEN TRUE ELSE snaps[n].deleted
    <3>1. "deleted" \in DOMAIN snaps[n]
      BY DEF ObjectsInv, Objects
    <3> QED BY SMT, <2>3, <3>1
  <2>6. Remains(snaps, snaps')
    BY <2>4, <2>5, RemainsLike DEF ObjectsInv
  <2> QED BY <2>2, <2>3, <2>4, <2>5, <2>6
<1>4. ASSUME t = DeleteNamespace
      PROVE  /\ Len(t.calls) = 1 /\ ns' = "terminating"
             /\ claims' = claims /\ pods' = pods /\ snaps' = snaps
  <2>1. t.calls = <<"deleteNamespace">>
    BY SMT, <1>4 DEF DeleteNamespace
  <2>2. call = "deleteNamespace" /\ Len(t.calls) = 1
    BY SMT, <2>1
  <2> QED BY SMT, <2>2 DEF Serve
<1> QED BY <1>1, <1>2, <1>3, <1>4

\* A goroutine goes on.
LEMMA StepKeeps ==
    ASSUME CleanupInv, NEW t \in todo, Step(t)
    PROVE  CleanupInv'
<1>1. /\ inDefault' = inDefault /\ config' = config /\ at' = at /\ last' = last
      /\ Length' = Length /\ Cleaning' = Cleaning
  BY DEF Step, Length, Cleaning, cleanup
<1>2. Places'
  BY <1>1 DEF CleanupInv, Places
<1>3. ObjectsInv'
  <2>1. CASE Serve(t)
    BY <2>1, ServeObjects DEF CleanupInv
  <2>2. CASE UNCHANGED <<ns, claims, pods, snaps>>
    BY <2>2 DEF CleanupInv, ObjectsInv
  <2> QED BY <2>1, <2>2 DEF Step
<1>4. at # 0
  BY DEF CleanupInv, Places
<1>5. CleanRunLeavesNothing'
  BY <1>1, <1>4 DEF CleanRunLeavesNothing
<1>6. ASSUME Cleaning > 0 PROVE Left' /\ Cleaned'
  <2>1. Left /\ Cleaned /\ Cleaning \in {1, 2, 3, 5}
    <3>1. Left /\ Cleaned
      BY <1>4, <1>6 DEF CleanupInv
    <3>2. Cleaning \in {1, 2, 3, 4, 5}
      BY SMT, <1>4, <1>6, CleanupStages, CleanupIs DEF CleanupInv
    <3> QED BY <3>1, <3>2 DEF Left
  <2>2. /\ Cleaning = 1 => t = DeletePods
        /\ Cleaning = 2 => t = DeleteClaims
        /\ Cleaning = 3 => t = DeleteSnapshot(t.snap)
        /\ Cleaning = 5 => t = DeleteNamespace
    BY <2>1 DEF Left
  \* One call, and the goroutine is through.
  <2>3. todo' = todo \ {t}
    <3>1. CASE Serve(t)
      <4>1. Len(t.calls) = 1
        BY <2>1, <2>2, <3>1, ServeCleans DEF CleanupInv
      <4>2. {[t EXCEPT !.calls = Tail(@)] : u \in {v \in {t} : Len(v.calls) > 1}} = {}
        <5>1. {v \in {t} : Len(v.calls) > 1} = {}
          <6>1. ~ (Len(t.calls) > 1)
            BY SMT, <4>1
          <6> QED BY <6>1
        <5> QED BY <5>1
      <4> QED BY <4>2 DEF Step
    <3>2. CASE ~ Serve(t)
      BY <3>2 DEF Step
    <3> QED BY <3>1, <3>2
  <2>4. Left'
    BY <1>1, <2>1, <2>3 DEF Left
  <2>5. failed' \/ (failed' = failed /\ Serve(t))
    BY DEF Step
  <2>6. Serve(t) \/ UNCHANGED <<ns, claims, pods, snaps>>
    BY DEF Step
  \* Only the objects of this stage are touched, and only deleted.
  <2>7. /\ Remains(claims, claims') /\ Remains(pods, pods') /\ Remains(snaps, snaps')
        /\ ns' = "active" => ns = "active"
    <3>1. Remains(claims, claims) /\ Remains(pods, pods) /\ Remains(snaps, snaps)
      BY RemainsSame DEF CleanupInv, ObjectsInv
    <3>2. CASE Serve(t)
      BY <2>1, <2>2, <3>1, <3>2, ServeCleans DEF CleanupInv
    <3>3. CASE UNCHANGED <<ns, claims, pods, snaps>>
      BY <3>1, <3>3
    <3> QED BY <2>6, <3>2, <3>3
  <2>8. /\ AllDeleted(claims) => AllDeleted(claims')
        /\ AllDeleted(pods) => AllDeleted(pods')
        /\ AllDeleted(snaps) => AllDeleted(snaps')
    BY <2>7, RemainsDeleted
  <2>9. /\ Cleaning > 1 => AllDeleted(pods)
        /\ Cleaning > 2 => AllDeleted(claims)
        /\ Cleaning > 3 => AllDeleted(snaps)
        /\ Cleaning > 5 => ns # "active"
    BY <2>1 DEF Cleaned, Through
  \* The call of this stage was served, if no goroutine of it has failed.
  <2>10. /\ Cleaning = 1 /\ ~ failed' => AllDeleted(pods')
         /\ Cleaning = 2 /\ ~ failed' => AllDeleted(claims')
         /\ Cleaning = 5 /\ ~ failed' => ns' # "active"
    BY <2>2, <2>5, ServeCleans DEF CleanupInv
  <2>11. ASSUME Cleaning = 3, ~ failed', NEW x \in DOMAIN snaps'
         PROVE  snaps'[x].deleted \/ DeleteSnapshot(x) \in todo'
    <3>1. ~ failed /\ Serve(t)
      <4>1. Serve(t)
        BY <2>5, <2>11
      <4>2. ~ failed
        BY SMT, <2>5, <2>11
      <4> QED BY <4>1, <4>2
    <3>2. x \in DOMAIN snaps /\ (snaps[x].deleted => snaps'[x].deleted)
      BY <2>7 DEF Remains
    <3>3. snaps[x].deleted \/ DeleteSnapshot(x) \in todo
      BY <2>1, <2>11, <3>1, <3>2 DEF Cleaned
    <3>4. DeleteSnapshot(x).snap = x
      BY SMT DEF DeleteSnapshot
    <3>5. t.snap \in DOMAIN snaps' => snaps'[t.snap].deleted
      BY <2>2, <2>11, <3>1, ServeCleans DEF CleanupInv
    <3>6. DeleteSnapshot(x) = t => t.snap = x
      BY <3>4
    <3> QED BY <2>3, <3>2, <3>3, <3>5, <3>6
  <2>12. Cleaned'
    BY <1>1, <2>7, <2>8, <2>9, <2>10, <2>11 DEF Cleaned, Through, DeleteSnapshot
  <2> QED BY <2>4, <2>12
<1> QED BY <1>1, <1>2, <1>3, <1>5, <1>6 DEF CleanupInv

\* A stage whose goroutines are joined.
LEMMA JoinKeeps ==
    ASSUME CleanupInv, Join
    PROVE  CleanupInv'
<1>1. UNCHANGED <<inDefault, objects>> /\ at # 0 /\ Stage.op \in {"group", "deleteSnapshots"} /\ todo = {}
  BY DEF Join
<1>2. CASE failed
  BY <1>1, <1>2, ReturnKeeps DEF Join, Err
<1>3. CASE ~ failed
  <2>1. Complete
    BY <1>1, <1>3 DEF Complete
  <2>2. Proceed
    BY <1>3 DEF Join
  <2> QED BY <1>1, <2>1, <2>2, ProceedKeeps
<1> QED BY <1>2, <1>3

\* One more attempt, or one too many.
LEMMA AgainKeeps ==
    ASSUME CleanupInv, UNCHANGED <<inDefault, objects>>, NEW counted, NEW guarded, Again(counted, guarded)
    PROVE  CleanupInv'
<1>1. CASE Err
  BY <1>1, ReturnKeeps DEF Err
<1>2. CASE UNCHANGED <<config, at, todo, failed, ctxDone, last, hollow>>
  <2>1. Waits /\ Fades
    BY <1>2, RemainsSame DEF Waits, Fades, CleanupInv, ObjectsInv, objects
  <2> QED BY <2>1, FadesKeeps
<1> QED BY <1>1, <1>2 DEF Again

\* A poll.
LEMMA PollKeeps ==
    ASSUME CleanupInv, Poll
    PROVE  CleanupInv'
<1>1. UNCHANGED <<inDefault, objects>> /\ at # 0
  BY DEF Poll
\* In cleanup, only the wait for the claims is one.
<1>2. Complete
  <2>1. Stage.op \notin {"group", "deleteSnapshots"}
    BY SMT DEF Poll
  <2> QED BY <1>1, <2>1, CleanupStages DEF Complete, CleanupInv
<1>3. CASE Proceed
  BY <1>1, <1>2, <1>3, ProceedKeeps
<1>4. CASE Err
  BY <1>1, <1>4, ReturnKeeps DEF Err
<1>5. CASE \E counted, guarded : Again(counted, guarded)
  BY <1>1, <1>5, AgainKeeps
<1>6. PollBound \/ PollPods \/ PollReady \/ PollResized \/ PollGone =>
          Proceed \/ Err \/ \E counted, guarded : Again(counted, guarded)
  BY DEF PollBound, PollPods, PollReady, PollResized, PollGone
<1>7. PollFails => Proceed \/ Err
  BY DEF PollFails
<1>8. PollBound \/ PollPods \/ PollReady \/ PollResized \/ PollGone \/ PollFails
  BY DEF Poll
<1> QED BY <1>3, <1>4, <1>5, <1>6, <1>7, <1>8

\* A run begins.
LEMMA RunKeeps ==
    ASSUME CleanupInv, NEW c \in Configs, Run(c) \/ RunFails(c)
    PROVE  CleanupInv'
<1>1. claims' = claims /\ pods' = pods /\ snaps' = snaps /\ config' = c /\ inDefault' = inDefault /\ at = 0
  BY DEF Run, RunFails, objects
<1>2. ObjectsInv'
  BY <1>1 DEF CleanupInv, ObjectsInv
<1>3. CASE Run(c) /\ Validate(c)
  <2>1. at' = 1 /\ Len(Stages[c]) \in Nat /\ Len(Stages[c]) # 0
    BY <1>3, StagesAssumption DEF Run
  <2>2. Len(cleanup') \in Nat /\ cleanup' = cleanup
    BY SMT, <1>1, CleanupIs DEF cleanup
  <2>3. at' \in Nat /\ at' # 0 /\ at' <= Length' /\ ~ (Cleaning' > 0)
    <3> DEFINE n == Len(Stages[c])
    <3>1. Length' = n + (IF c.cleanup THEN Len(cleanup) ELSE 0) /\ Cleaning' = at' - n
      BY <1>1, <2>2 DEF Length, Cleaning
    <3>2. n \in Nat /\ n # 0 /\ at' = 1 /\ Len(cleanup) \in Nat
      BY <2>1, <2>2
    <3> HIDE DEF n
    <3> QED BY SMT, <3>1, <3>2
  <2> QED BY <1>1, <1>2, <2>3 DEF CleanupInv, Places, CleanRunLeavesNothing
<1>4. CASE RunFails(c) \/ ~ Validate(c)
  <2>1. at' = 0 /\ todo' = todo /\ last' = "err"
    BY <1>1, <1>4 DEF Run, RunFails
  <2>2. Places'
    BY SMT, <1>1, <2>1 DEF CleanupInv, Places
  <2>3. last' # "ok"
    BY SMT, <2>1
  <2> QED BY <1>2, <2>1, <2>2, <2>3 DEF CleanupInv, CleanRunLeavesNothing
<1> QED BY <1>3, <1>4

\* The storage makes progress.
LEMMA StorageKeeps ==
    ASSUME CleanupInv, Storage
    PROVE  CleanupInv'
<1>1. Waits /\ inDefault' = inDefault /\ ns' = ns
  BY DEF Storage, Waits, runner, history
<1>2. Remains(claims, claims) /\ Remains(pods, pods) /\ Remains(snaps, snaps)
  BY RemainsSame DEF CleanupInv, ObjectsInv
<1>3. ASSUME NEW c \in DOMAIN claims, claims' = [claims EXCEPT ![c].cap = claims[c].size]
      PROVE  Remains(claims, claims')
  <2>1. DOMAIN claims' = DOMAIN claims /\ \A n \in DOMAIN claims : DOMAIN claims'[n] = DOMAIN claims[n]
    BY SMT, <1>3
  <2>2. ASSUME NEW n \in DOMAIN claims PROVE claims'[n].deleted = claims[n].deleted
    <3>1. "deleted" \in DOMAIN claims[n]
      BY DEF CleanupInv, ObjectsInv, Objects
    <3> QED BY SMT, <1>3, <3>1
  <2> QED BY <2>1, <2>2, RemainsLike DEF CleanupInv, ObjectsInv
<1>4. ASSUME NEW x \in DOMAIN snaps,
             snaps' = [snaps EXCEPT ![x].ready = TRUE, ![x].size = Source(snaps[x].source)]
      PROVE  Remains(snaps, snaps')
  <2>1. DOMAIN snaps' = DOMAIN snaps /\ \A n \in DOMAIN snaps : DOMAIN snaps'[n] = DOMAIN snaps[n]
    BY SMT, <1>4
  <2>2. ASSUME NEW n \in DOMAIN snaps PROVE snaps'[n].deleted = snaps[n].deleted
    <3>1. "deleted" \in DOMAIN snaps[n]
      BY DEF CleanupInv, ObjectsInv, Objects
    <3> QED BY SMT, <1>4, <3>1
  <2> QED BY <2>1, <2>2, RemainsLike DEF CleanupInv, ObjectsInv
<1>5. ASSUME NEW p \in DOMAIN pods,
             pods' = [pods EXCEPT ![p].phase = pods[p].to, ![p].reached = TRUE]
      PROVE  Remains(pods, pods')
  <2>1. DOMAIN pods' = DOMAIN pods /\ \A n \in DOMAIN pods : DOMAIN pods'[n] = DOMAIN pods[n]
    BY SMT, <1>5
  <2>2. ASSUME NEW n \in DOMAIN pods PROVE pods'[n].deleted = pods[n].deleted
    <3>1. "deleted" \in DOMAIN pods[n]
      BY DEF CleanupInv, ObjectsInv, Objects
    <3> QED BY SMT, <1>5, <3>1
  <2> QED BY <2>1, <2>2, RemainsLike DEF CleanupInv, ObjectsInv
<1>6. Fades
  BY <1>1, <1>2, <1>3, <1>4, <1>5 DEF Fades, Storage
<1> QED BY <1>1, <1>6, FadesKeeps

\* A pod fails.
LEMMA PodFailsKeeps ==
    ASSUME CleanupInv, NEW p \in DOMAIN pods, PodFails(p)
    PROVE  CleanupInv'
<1>1. Waits /\ inDefault' = inDefault /\ ns' = ns /\ claims' = claims /\ snaps' = snaps
  BY DEF PodFails, Waits, runner
<1>2. pods' = [pods EXCEPT ![p].phase = "Failed"]
  BY DEF PodFails
<1>3. DOMAIN pods' = DOMAIN pods /\ \A n \in DOMAIN pods : DOMAIN pods'[n] = DOMAIN pods[n]
  BY SMT, <1>2
<1>4. ASSUME NEW n \in DOMAIN pods PROVE pods'[n].deleted = pods[n].deleted
  <2>1. "deleted" \in DOMAIN pods[n]
    BY DEF CleanupInv, ObjectsInv, Objects
  <2> QED BY SMT, <1>2, <2>1
<1>5. Fades
  BY <1>1, <1>3, <1>4, RemainsLike, RemainsSame DEF Fades, CleanupInv, ObjectsInv
<1> QED BY <1>1, <1>5, FadesKeeps

\* Deleted objects go.
LEMMA CollectKeeps ==
    ASSUME CleanupInv, Collect
    PROVE  CleanupInv'
<1>1. Waits /\ inDefault' = inDefault
  BY DEF Collect, Waits, runner, history
<1>2. /\ Remains(claims, claims) /\ Remains(pods, pods) /\ Remains(snaps, snaps)
      /\ \A S : Remains(claims, Without(claims, S)) /\ Remains(pods, Without(pods, S))
                /\ Remains(snaps, Without(snaps, S))
      /\ Remains(claims, Empty) /\ Remains(pods, Empty) /\ Remains(snaps, Empty)
  BY RemainsSame, RemainsWithout, RemainsEmpty DEF CleanupInv, ObjectsInv
<1>3. ns' = "active" => ns = "active"
  <2>1. ns' = ns \/ ns' = "absent"
    BY DEF Collect
  <2> QED BY SMT, <2>1
<1>4. Fades
  BY <1>1, <1>2, <1>3 DEF Fades, Collect
<1> QED BY <1>1, <1>4, FadesKeeps

---------------------------------------------------------------------------
(* Theorems.                                                               *)

\* The invariant holds: cleanup, and with it a run, only goes on when the calls
\* of a stage were served, and nothing is created until the run has returned.
THEOREM CleanupInvHolds == Spec => []CleanupInv
<1>1. Init => CleanupInv
  <2> SUFFICES ASSUME Init PROVE CleanupInv
    OBVIOUS
  <2>1. at = 0 /\ todo = {} /\ claims = Empty /\ pods = Empty /\ snaps = Empty
    BY DEF Init
  <2>2. Places
    BY SMT, <2>1 DEF Places
  <2>3. ObjectsInv
    BY <2>1, RemainsEmpty DEF ObjectsInv
  <2>4. last # "ok"
    BY SMT DEF Init
  <2> QED BY <2>1, <2>2, <2>3, <2>4 DEF CleanupInv, CleanRunLeavesNothing
<1>2. CleanupInv /\ [Next]_vars => CleanupInv'
  <2> SUFFICES ASSUME CleanupInv, [Next]_vars PROVE CleanupInv'
    OBVIOUS
  <2>1. ASSUME Fades, Waits PROVE CleanupInv'
    BY <2>1, FadesKeeps
  <2>2. ASSUME UNCHANGED <<inDefault, objects>> PROVE Fades
    BY <2>2, RemainsSame DEF Fades, objects, CleanupInv, ObjectsInv
  <2>3. CASE UNCHANGED vars
    BY <2>1, <2>2, <2>3 DEF vars, runner, history, Waits
  <2>4. CASE CtxEnds
    BY <2>1, <2>2, <2>4 DEF CtxEnds, Waits
  <2>5. CASE Killed
    BY <2>5, ReturnKeeps DEF Killed
  <2>6. CASE CleanupStressNamespaces
    <3>1. ns' # "active" /\ Waits /\ UNCHANGED <<inDefault, claims, pods, snaps>>
      BY SMT, <2>6 DEF CleanupStressNamespaces, Waits, runner, history
    <3>2. Fades
      BY <3>1, RemainsSame DEF Fades, CleanupInv, ObjectsInv
    <3> QED BY <2>1, <3>1, <3>2
  <2> QED
    BY <2>3, <2>4, <2>5, <2>6, RunKeeps, StepKeeps, JoinKeeps, PollKeeps, StorageKeeps, CollectKeeps,
       PodFailsKeeps DEF Next
<1> QED BY <1>1, <1>2, PTL DEF Spec

\* A Run with Cleanup that returns nil leaves nothing but objects that are being
\* deleted, and in a namespace of its own not even that: cleanup of
\* pkg/testkit/stress-tests.go.
THEOREM CleanRunLeavesNothingHolds == Spec => []CleanRunLeavesNothing
<1>1. CleanupInv => CleanRunLeavesNothing
  BY DEF CleanupInv
<1> QED BY <1>1, CleanupInvHolds, PTL

==============================================================================
