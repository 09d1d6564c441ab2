------------------------ MODULE CommanderClusterProofs ------------------------
(***************************************************************************)
(* Proofs about CommanderCluster, for any number of clients, keys and      *)
(* values, calls, faults and operator edits.                               *)
(***************************************************************************)
EXTENDS CommanderCluster, SequenceTheorems, TLAPS

Cluster == [id : Nat, rev : Nat, values : [Keys -> Values], status : Statuses]
Call ==
    [key : Keys, value : Values, id : Nat, rev : Nat, values : [Keys -> Values],
     attempt : Nat, failing : Nat, last : Statuses \cup {""}, polls : Seq(Statuses),
     calm : BOOLEAN]

Labels == {"idle", "ok", "error", "stuck", "byname", "byid", "put", "approve", "poll", "tick",
           "lookup", "create", "post", "ready", "connect", "kubeconfig", "modules", "find", "delete"}

Types ==
    /\ cluster \in Cluster
    /\ ids \in Nat /\ at \in [Clients -> Call] /\ pc \in [Clients -> Labels]

\* Ids are given out once; who reads a cluster by its id has one.
Known ==
    /\ cluster.id <= ids
    /\ \A c \in Clients : at[c].id <= ids
    /\ \A c \in Clients : pc[c] \in {"byid", "put"} => at[c].id # 0

\* Whoever knows the current revision knows the current values.
Knows(c) ==
    Exists /\ at[c].id = cluster.id =>
        /\ at[c].rev <= cluster.rev
        /\ at[c].rev = cluster.rev => at[c].values = cluster.values
Fresh == \A c \in Clients : pc[c] = "put" => Knows(c)

\* What Commander reports as in_sync it has applied.
InSync == Exists /\ cluster.status = "in_sync" => applied = cluster.values

IInv == Types /\ Known /\ Fresh /\ NoLostUpdate /\ InSync

\* A Bootstrap that nobody disturbs works on a cluster that has been ready.
Settled == Exists /\ cluster.status \in {"updating", "in_sync", "synchronization_failure"}
Late == {"connect", "kubeconfig", "modules"}
Calm == \A c \in Clients : at[c].calm /\ pc[c] \in Late => Settled

-----------------------------------------------------------------------------
\* The local variables after a call has returned.
LEMMA NoCallType == NoCall \in Call /\ NoCall.id = 0 /\ NoCall.calm = FALSE
<1>1. (CHOOSE k \in Keys : TRUE) \in Keys /\ Default \in Values
  BY Zenon, CommanderAssumption
<1>2. Defaults \in [Keys -> Values]
  BY Zenon, <1>1 DEF Defaults
<1> QED BY <1>1, <1>2 DEF NoCall, Call, Statuses

\* A call that learns the id of the cluster.
LEMMA LearnsId ==
    ASSUME NEW r \in Call, NEW n \in Nat
    PROVE  [r EXCEPT !.id = n] \in Call /\ [r EXCEPT !.id = n].id = n
BY Zenon DEF Call

\* A cluster that gets another status.
LEMMA StatusChange ==
    ASSUME NEW r \in Cluster, NEW s \in Statuses
    PROVE  /\ [r EXCEPT !.status = s] \in Cluster /\ [r EXCEPT !.status = s].id = r.id
           /\ [r EXCEPT !.status = s].rev = r.rev /\ [r EXCEPT !.status = s].values = r.values
           /\ [r EXCEPT !.status = s].status = s
BY Zenon DEF Cluster

\* The fields of a cluster record.
LEMMA ClusterFields ==
    ASSUME NEW r \in Cluster
    PROVE  r.id \in Nat /\ r.rev \in Nat /\ r.values \in [Keys -> Values] /\ r.status \in Statuses
BY Zenon DEF Cluster

\* The fields of a process's call.
LEMMA CallFields ==
    ASSUME NEW r \in Call
    PROVE  /\ r.key \in Keys /\ r.value \in Values /\ r.id \in Nat /\ r.rev \in Nat
           /\ r.attempt \in Nat /\ r.failing \in Nat /\ r.polls \in Seq(Statuses)
BY Zenon DEF Call

\* A step of client c that changes nothing in Commander and leaves c knowing no
\* more than the truth preserves the invariant.
Moves(c) ==
    /\ UNCHANGED <<cluster, ids, applied, want>>
    /\ at' \in [Clients -> Call] /\ pc' \in [Clients -> Labels]
    /\ \A d \in Clients \ {c} : at'[d].id = at[d].id /\ at'[d].rev = at[d].rev
                                /\ at'[d].values = at[d].values /\ pc'[d] = pc[d]
    /\ at'[c].id <= ids
    /\ pc'[c] \in {"byid", "put"} => at'[c].id # 0
    /\ pc'[c] = "put" => at'[c].rev = cluster.rev /\ at'[c].values = cluster.values

\* Steps of that kind keep the invariant.
LEMMA MovesKeep == ASSUME IInv, NEW c \in Clients, Moves(c) PROVE IInv'
<1>1. Types'
  BY Zenon DEF IInv, Types, Moves
<1>2. Known'
  BY Zenon DEF IInv, Known, Moves
<1>3. Fresh'
  <2>1. cluster' = cluster /\ cluster.rev <= cluster.rev
    BY ClusterFields DEF IInv, Types, Moves
  <2> QED BY <2>1 DEF IInv, Fresh, Knows, Exists, Moves
<1>4. NoLostUpdate' /\ InSync'
  BY Zenon DEF IInv, NoLostUpdate, InSync, Exists, Moves
<1> QED BY Zenon, <1>1, <1>2, <1>3, <1>4 DEF IInv

\* Steps that only go on, or return.
Quiet == UNCHANGED <<cluster, ids, applied, want>>
Elsewhere == Labels \ {"byid", "put"}

\* So do steps that only go on or return.
LEMMA PlainMoves ==
    ASSUME IInv, NEW c \in Clients, NEW p \in Elsewhere, Quiet, Goto(c, p) \/ Return(c, p)
    PROVE  IInv'
<1>1. Moves(c)
  <2>1. CASE Goto(c, p)
    BY Zenon, <2>1 DEF Goto, Moves, IInv, Types, Known, Quiet, Elsewhere
  <2>2. CASE Return(c, p)
    <3>1. at' \in [Clients -> Call] /\ at'[c] = NoCall
      BY Zenon, <2>2, NoCallType DEF Return, IInv, Types
    <3> QED BY <2>2, <3>1, NoCallType DEF Return, Moves, IInv, Types, Known, Quiet, Elsewhere
  <2> QED BY Zenon, <2>1, <2>2
<1> QED BY Zenon, <1>1, MovesKeep

\* A step that learns the id of the cluster.
LEMMA FoundMoves ==
    ASSUME IInv, NEW c \in Clients, NEW p \in Labels \ {"put"}, Quiet, Exists, Found(c, p)
    PROVE  IInv'
<1>1. at[c] \in Call /\ cluster.id \in Nat
  BY Zenon, ClusterFields DEF IInv, Types
<1>2. at' \in [Clients -> Call] /\ at'[c].id = cluster.id
  BY Zenon, <1>1, LearnsId DEF Found, IInv, Types
<1>3. Moves(c)
  BY Zenon, <1>2 DEF Found, Moves, IInv, Types, Known, Exists, Quiet
<1> QED BY Zenon, <1>3, MovesKeep

\* Disturbing the bootstraps changes nothing else of the calls.
LEMMA DisturbedType ==
    ASSUME NEW f \in [Clients -> Call]
    PROVE  /\ Disturbed(f) \in [Clients -> Call]
           /\ \A d \in Clients : /\ Disturbed(f)[d].id = f[d].id /\ Disturbed(f)[d].rev = f[d].rev
                                 /\ Disturbed(f)[d].values = f[d].values
                                 /\ Disturbed(f)[d].calm = FALSE
<1>1. \A d \in Clients :
          LET s == [f[d] EXCEPT !.calm = FALSE]
          IN  s \in Call /\ s.id = f[d].id /\ s.rev = f[d].rev /\ s.values = f[d].values
              /\ s.calm = FALSE
  BY DEF Call
<1> QED BY Zenon, <1>1 DEF Disturbed

\* A change of the cluster by PUT, or by an operator, that asks for what it writes.
LEMMA ChangeKeeps ==
    ASSUME IInv, Exists, Types', Known', UNCHANGED ids,
           cluster'.id = cluster.id, cluster'.rev = cluster.rev + 1, cluster'.values = want',
           cluster'.status = "updating",
           \A c \in Clients : pc'[c] = "put" =>
               pc[c] = "put" /\ at'[c].id = at[c].id /\ at'[c].rev = at[c].rev
    PROVE  IInv'
<1>1. Fresh'
  <2> SUFFICES ASSUME NEW c \in Clients, pc'[c] = "put", at'[c].id = cluster'.id
               PROVE  at'[c].rev <= cluster'.rev /\ at'[c].rev # cluster'.rev
    BY Zenon DEF Fresh, Knows, Exists
  <2>1. at[c].rev <= cluster.rev /\ at'[c].rev = at[c].rev
    BY Zenon DEF IInv, Fresh, Knows, Exists
  <2>2. cluster.rev \in Nat /\ at[c].rev \in Nat
    BY Zenon, CallFields, ClusterFields DEF IInv, Types
  <2> QED BY <2>1, <2>2
<1>2. NoLostUpdate' /\ InSync'
  BY Zenon DEF NoLostUpdate, InSync
<1> QED BY Zenon, <1>1, <1>2 DEF IInv

\* A change that leaves revision and values, as Commander makes when it works.
LEMMA WorkKeeps ==
    ASSUME IInv, UNCHANGED <<ids, pc, at, want>>,
           NEW s \in Statuses, cluster' = [cluster EXCEPT !.status = s],
           s = "in_sync" => applied' = cluster.values
    PROVE  IInv'
<1>1. /\ cluster'.id = cluster.id /\ cluster'.rev = cluster.rev /\ cluster'.values = cluster.values
      /\ cluster'.status = s
      /\ cluster' \in Cluster
  BY Zenon, StatusChange DEF IInv, Types
<1>2. Types' /\ Known'
  BY Zenon, <1>1 DEF IInv, Types, Known
<1>3. Fresh'
  BY Zenon, <1>1 DEF IInv, Fresh, Knows, Exists
<1>4. NoLostUpdate' /\ InSync'
  BY Zenon, <1>1 DEF IInv, NoLostUpdate, InSync, Exists
<1> QED BY Zenon, <1>2, <1>3, <1>4 DEF IInv

-----------------------------------------------------------------------------
\* A PUT that Commander takes writes what is wanted: the values it was made from
\* are the current ones.
LEMMA StoreKeeps ==
    ASSUME IInv, NEW c \in Clients, pc[c] = "put", Current(c), cluster.rev = at[c].rev, Store(c),
           NEW p \in Elsewhere, pc' = [pc EXCEPT ![c] = p],
           NEW r \in Call, r.id <= ids, at' = [at EXCEPT ![c] = r]
    PROVE  IInv'
<1>1. Exists /\ cluster.id \in Nat /\ cluster.rev \in Nat
  <2>1. cluster.id \in Nat /\ cluster.rev \in Nat
    BY Zenon, ClusterFields DEF IInv, Types
  <2> QED BY Zenon, <2>1 DEF IInv, Known, Current, Exists
<1>2. at[c].values = want /\ want \in [Keys -> Values]
  <2>1. cluster.values \in [Keys -> Values]
    BY Zenon, ClusterFields DEF IInv, Types
  <2> QED BY Zenon, <1>1, <2>1 DEF IInv, Fresh, Knows, Current, NoLostUpdate
<1>3. at[c].key \in Keys /\ at[c].value \in Values
  BY Zenon DEF IInv, Types, Call
<1>4. /\ cluster'.id = cluster.id /\ cluster'.rev = cluster.rev + 1 /\ cluster'.values = want'
      /\ cluster'.status = "updating" /\ UNCHANGED ids
      /\ cluster' \in Cluster
  <2>1. want' = [want EXCEPT ![at[c].key] = at[c].value] /\ want' \in [Keys -> Values]
    BY Zenon, <1>2, <1>3 DEF Store
  <2>2. cluster' = [cluster EXCEPT !.values = want', !.rev = @ + 1, !.status = "updating"] /\ UNCHANGED ids
    BY Zenon, <1>2, <2>1 DEF Store
  <2>3. cluster \in Cluster /\ cluster.rev + 1 \in Nat /\ "updating" \in Statuses
    BY <1>1 DEF IInv, Types, Statuses
  <2> QED BY Zenon, <2>1, <2>2, <2>3 DEF Cluster
<1>5. at' \in [Clients -> Call] /\ at'[c] = r /\ \A d \in Clients \ {c} : at'[d] = at[d]
  BY Zenon DEF IInv, Types
<1>6. pc' \in [Clients -> Labels] /\ pc'[c] = p /\ \A d \in Clients \ {c} : pc'[d] = pc[d]
  BY Zenon DEF IInv, Types, Elsewhere
<1>7. Types' /\ Known'
  BY Zenon, <1>4, <1>5, <1>6 DEF IInv, Types, Known, Elsewhere
<1>8. \A d \in Clients : pc'[d] = "put" => pc[d] = "put" /\ at'[d].id = at[d].id /\ at'[d].rev = at[d].rev
  BY Zenon, <1>5, <1>6 DEF Elsewhere
<1> QED BY Zenon, <1>1, <1>4, <1>7, <1>8, ChangeKeeps

\* Every step of a call preserves the invariant.
LEMMA StepKeeps == ASSUME IInv, NEW c \in Clients, Step(c) PROVE IInv'
<1> DEFINE Plain(p) == p \in Elsewhere /\ Quiet /\ (Goto(c, p) \/ Return(c, p))
<1>0. ASSUME NEW p, Plain(p) PROVE IInv'
  BY Zenon, <1>0, PlainMoves
<1> HIDE DEF Plain
<1>1. CASE GetClusterByName(c)
  <2>1. Quiet /\ ((Exists /\ Found(c, "byid")) \/ Return(c, "error"))
    BY Zenon, <1>1 DEF GetClusterByName, Quiet, extVars
  <2>2. CASE Return(c, "error")
    BY Zenon, <2>1, <2>2, <1>0 DEF Plain, Elsewhere, Labels
  <2> QED BY Zenon, <2>1, <2>2, FoundMoves DEF Labels
<1>2. CASE GetClusterByID(c)
  <2>1. CASE Return(c, "error")
    BY Zenon, <1>2, <2>1, <1>0 DEF Plain, Elsewhere, Labels, GetClusterByID, Quiet, extVars
  <2>2. CASE /\ pc[c] = "byid" /\ pc' = [pc EXCEPT ![c] = "put"] /\ Quiet
             /\ at' = [at EXCEPT ![c].rev = cluster.rev, ![c].values = cluster.values]
    <3>1. at[c] \in Call /\ cluster.rev \in Nat /\ cluster.values \in [Keys -> Values]
      BY Zenon, ClusterFields DEF IInv, Types
    <3> DEFINE s == [[at[c] EXCEPT !.rev = cluster.rev] EXCEPT !.values = cluster.values]
    <3>2. s \in Call /\ s.id = at[c].id /\ s.rev = cluster.rev /\ s.values = cluster.values
      BY Zenon, <3>1 DEF Call
    <3>3. at' = [at EXCEPT ![c] = s]
      BY Zenon, <2>2 DEF IInv, Types
    <3> HIDE DEF s
    <3>4. Moves(c)
      BY <2>2, <3>2, <3>3, ZenonT(30) DEF Moves, IInv, Types, Known, Quiet, Labels
    <3> QED BY Zenon, <3>4, MovesKeep
  <2> QED BY Zenon, <1>2, <2>1, <2>2 DEF GetClusterByID, Quiet, extVars
<1>3. CASE UpdateCluster(c)
  <2>1. PICK known \in {0, cluster.id} :
            at' = [at EXCEPT ![c] = [NoCall EXCEPT !.key = at[c].key, !.value = at[c].value,
                                                   !.id = known]]
    BY Zenon, <1>3 DEF UpdateCluster
  <2> DEFINE r == [NoCall EXCEPT !.key = at[c].key, !.value = at[c].value, !.id = known]
  <2>2. r \in Call /\ r.id = known
    <3>1. at[c].key \in Keys /\ at[c].value \in Values /\ known \in Nat
      BY CallFields, ClusterFields DEF IInv, Types
    <3> QED BY Zenon, <3>1, NoCallType DEF Call
  <2>3. known <= ids
    BY DEF IInv, Types, Known
  <2>4. at' = [at EXCEPT ![c] = r]
    BY Zenon, <2>1
  <2> HIDE DEF r
  <2>5. /\ pc[c] = "put" /\ Current(c) /\ cluster.rev = at[c].rev /\ Store(c)
        /\ pc' = [pc EXCEPT ![c] = "approve"] /\ "approve" \in Elsewhere /\ r.id <= ids
    BY Zenon, <1>3, <2>2, <2>3 DEF UpdateCluster, Elsewhere, Labels
  <2> QED BY Zenon, <2>2, <2>4, <2>5, StoreKeeps
<1>4. CASE UpdateAnswerLost(c)
  <2>1. /\ pc[c] = "put" /\ Current(c) /\ cluster.rev = at[c].rev /\ Store(c)
        /\ pc' = [pc EXCEPT ![c] = "error"] /\ "error" \in Elsewhere
        /\ at' = [at EXCEPT ![c] = NoCall]
    BY Zenon, <1>4 DEF UpdateAnswerLost, Return, Elsewhere, Labels
  <2>2. NoCall \in Call /\ NoCall.id <= ids
    BY NoCallType DEF IInv, Types
  <2> QED BY Zenon, <2>1, <2>2, StoreKeeps
<1>5. CASE UpdateConflict(c)
  <2>1. CASE Return(c, "error")
    BY Zenon, <1>5, <2>1, <1>0 DEF Plain, Elsewhere, Labels, UpdateConflict, Quiet, extVars
  <2> DEFINE r == [NoCall EXCEPT !.key = at[c].key, !.value = at[c].value,
                                 !.attempt = at[c].attempt + 1]
  <2>2. CASE pc' = [pc EXCEPT ![c] = "byname"] /\ at' = [at EXCEPT ![c] = r] /\ Quiet
    <3>1. at[c].key \in Keys /\ at[c].value \in Values /\ at[c].attempt + 1 \in Nat
      BY CallFields DEF IInv, Types
    <3>2. r \in Call /\ r.id = 0
      BY Zenon, <3>1, NoCallType DEF Call
    <3> HIDE DEF r
    <3>3. Moves(c)
      BY <2>2, <3>2 DEF Moves, IInv, Types, Quiet, Labels
    <3> QED BY Zenon, <3>3, MovesKeep
  <2> QED BY Zenon, <1>5, <2>1, <2>2 DEF UpdateConflict, Quiet, extVars
<1>6. CASE UpdateRefused(c) \/ PollFails(c) \/ ApproveClusterChangeRequests(c)
  <2>1. Plain("error") \/ Plain("tick") \/ Plain("poll")
    BY Zenon, <1>6
       DEF Plain, Elsewhere, Labels, Quiet, extVars, UpdateRefused, PollFails, ApproveClusterChangeRequests
  <2> QED BY Zenon, <2>1, <1>0
<1>7. CASE PollConvergence(c)
  <2> DEFINE s == cluster.status
             r == [[[[at[c] EXCEPT !.failing = Failing(c, s)] EXCEPT !.last = s]
                     EXCEPT !.polls = Seen(c, s)] EXCEPT !.id = IF @ = 0 THEN cluster.id ELSE @]
  <2>1. CASE /\ pc' = [pc EXCEPT ![c] = "tick"] /\ Quiet
             /\ at' = [at EXCEPT ![c].failing = Failing(c, s), ![c].last = s, ![c].polls = Seen(c, s),
                                 ![c].id = IF @ = 0 THEN cluster.id ELSE @]
    <3>1. s \in Statuses /\ cluster.id \in Nat /\ at[c] \in Call
      BY Zenon, ClusterFields DEF IInv, Types
    <3>2. Failing(c, s) \in Nat
      <4>1. at[c].failing \in Nat
        BY Zenon, <3>1 DEF Call
      <4> QED BY <4>1 DEF Failing
    <3>3. Seen(c, s) \in Seq(Statuses)
      <4>1. at[c].polls \in Seq(Statuses)
        BY Zenon, <3>1 DEF Call
      <4>2. Append(at[c].polls, s) \in Seq(Statuses) /\ Append(at[c].polls, s) # <<>>
        BY <3>1, <4>1
      <4>3. Tail(Append(at[c].polls, s)) \in Seq(Statuses)
        BY <4>2
      <4> QED BY Zenon, <4>2, <4>3 DEF Seen
    <3>4. r \in Call /\ r.id \in {at[c].id, cluster.id}
      BY Zenon, <3>1, <3>2, <3>3 DEF Call
    <3>5. at' = [at EXCEPT ![c] = r]
      BY Zenon, <2>1 DEF IInv, Types
    <3> HIDE DEF r
    <3>6. Moves(c)
      <4>1. r.id <= ids /\ "tick" \in Labels
        BY Zenon, <3>4 DEF IInv, Known, Labels
      <4>2. Quiet /\ pc' = [pc EXCEPT ![c] = "tick"]
        BY Zenon, <2>1
      <4>3. /\ at' \in [Clients -> Call] /\ at'[c] = r /\ \A d \in Clients \ {c} : at'[d] = at[d]
            /\ pc' \in [Clients -> Labels] /\ pc'[c] = "tick" /\ \A d \in Clients \ {c} : pc'[d] = pc[d]
        BY Zenon, <3>4, <3>5, <4>1, <4>2 DEF IInv, Types
      <4> QED BY Zenon, <4>1, <4>2, <4>3 DEF Moves, Quiet
    <3> QED BY Zenon, <3>6, MovesKeep
  <2>2. CASE Plain("ok") \/ Plain("error") \/ Plain("stuck")
    BY Zenon, <2>2, <1>0
  <2> QED BY Zenon, <1>7, <2>1, <2>2 DEF PollConvergence, Plain, Elsewhere, Labels, Quiet, extVars
<1>8. CASE Lookup(c) \/ createCluster(c) \/ WaitForClusterReady(c)
  <2>1. Plain("create") \/ Plain("connect") \/ Plain("ready") \/ Plain("post") \/ Plain("error")
    BY Zenon, <1>8
       DEF Plain, Elsewhere, Labels, Quiet, extVars, Lookup, createCluster, WaitForClusterReady
  <2> QED BY Zenon, <2>1, <1>0
<1>9. CASE OpenTunnel(c) \/ EnableModules(c) \/ CallFails(c)
  <2>1. Plain("modules") \/ Plain("ok") \/ Plain("error")
    BY Zenon, <1>9
       DEF Plain, Elsewhere, Labels, Quiet, extVars, OpenTunnel, EnableModules, CallFails
  <2> QED BY Zenon, <2>1, <1>0
<1>10. CASE Connect(c) \/ Find(c)
  <2>1. /\ Quiet
        /\ \/ Exists /\ (Found(c, "kubeconfig") \/ Found(c, "delete"))
           \/ Return(c, "error") \/ Return(c, "ok")
    <3>1. CASE Connect(c)
      BY Zenon, <3>1 DEF Connect, Quiet, extVars
    <3>2. CASE Find(c)
      BY Zenon, <3>2 DEF Find, Quiet, extVars
    <3> QED BY Zenon, <1>10, <3>1, <3>2
  <2>2. CASE Plain("ok") \/ Plain("error")
    BY Zenon, <2>2, <1>0
  <2>3. CASE Exists /\ (Found(c, "kubeconfig") \/ Found(c, "delete"))
    BY Zenon, <2>1, <2>3, FoundMoves DEF Labels
  <2> QED BY Zenon, <2>1, <2>2, <2>3 DEF Plain, Elsewhere, Labels
<1>11. CASE DeleteClusterByID(c)
  <2> DEFINE f == [at EXCEPT ![c] = NoCall]
  <2>1. f \in [Clients -> Call] /\ f[c].id = 0 /\ \A d \in Clients \ {c} : f[d] = at[d]
    BY Zenon, NoCallType DEF IInv, Types
  <2>2. at' = Disturbed(f) /\ UNCHANGED <<ids, want, applied>>
    BY Zenon, <1>11 DEF DeleteClusterByID
  <2> HIDE DEF f
  <2>3. /\ at' \in [Clients -> Call] /\ at'[c].id = 0
        /\ \A d \in Clients \ {c} : /\ at'[d].id = at[d].id /\ at'[d].rev = at[d].rev
                                    /\ at'[d].values = at[d].values
    <3>1. /\ at' \in [Clients -> Call]
          /\ \A d \in Clients : at'[d].id = f[d].id /\ at'[d].rev = f[d].rev /\ at'[d].values = f[d].values
      BY Zenon, <2>1, <2>2, DisturbedType
    <3> QED BY Zenon, <2>1, <3>1
  <2>4. pc' \in [Clients -> Labels] /\ pc'[c] \in {"ok", "error"} /\ \A d \in Clients \ {c} : pc'[d] = pc[d]
    BY Zenon, <1>11 DEF DeleteClusterByID, IInv, Types, Labels
  <2>5. /\ cluster'.id = cluster.id /\ cluster'.rev = cluster.rev /\ cluster'.values = cluster.values
        /\ cluster'.status \in {cluster.status, "deleting"}
        /\ cluster' \in Cluster
    <3>1. cluster \in Cluster /\ "deleting" \in Statuses
      BY Zenon DEF IInv, Types, Statuses
    <3>2. cluster' = [cluster EXCEPT !.status = "deleting"] \/ cluster' = cluster
      BY Zenon, <1>11 DEF DeleteClusterByID
    <3>3. CASE cluster' = [cluster EXCEPT !.status = "deleting"]
      BY Zenon, <3>1, <3>3, StatusChange
    <3>4. CASE cluster' = cluster
      BY Zenon, <3>1, <3>4
    <3> QED BY Zenon, <3>2, <3>3, <3>4
  <2>6. Types' /\ Known'
    BY <2>2, <2>3, <2>4, <2>5 DEF IInv, Types, Known
  <2>7. Fresh'
    BY Zenon, <2>3, <2>4, <2>5 DEF IInv, Fresh, Knows, Exists
  <2>8. NoLostUpdate' /\ InSync'
    BY Zenon, <2>2, <2>5 DEF IInv, NoLostUpdate, InSync, Exists
  <2> QED BY Zenon, <2>6, <2>7, <2>8 DEF IInv
<1>12. CASE CreateClusterFromTemplate(c)
  <2>1. CASE Plain("error")
    BY Zenon, <2>1, <1>0
  <2>2. CASE Creates /\ (Goto(c, "ready") \/ Return(c, "error"))
    <3>1. pc' \in [Clients -> Labels] /\ pc'[c] \in {"ready", "error"} /\ \A d \in Clients \ {c} : pc'[d] = pc[d]
      BY Zenon, <2>2 DEF Goto, Return, IInv, Types, Labels
    <3>2. at' \in [Clients -> Call] /\ \A d \in Clients : at'[d].id <= at[d].id /\ (d # c => at'[d] = at[d])
      <4>1. at[c].id \in Nat
        BY Zenon, CallFields DEF IInv, Types
      <4>2. \A d \in Clients : at[d].id <= at[d].id
        BY CallFields DEF IInv, Types
      <4>3. CASE Goto(c, "ready")
        BY Zenon, <4>2, <4>3 DEF Goto, IInv, Types
      <4>4. CASE Return(c, "error")
        BY <4>1, <4>2, <4>4, NoCallType DEF Return, IInv, Types
      <4> QED BY Zenon, <2>2, <4>3, <4>4
    <3>3. /\ cluster'.id = ids + 1 /\ cluster'.values = Defaults /\ cluster'.status = "creating"
          /\ cluster' \in Cluster
          /\ ids' = ids + 1 /\ want' = Defaults
      <4>1. ids + 1 \in Nat /\ Defaults \in [Keys -> Values] /\ "creating" \in Statuses
        BY CommanderAssumption DEF Defaults, Statuses, IInv, Types
      <4>2. /\ cluster' = [id |-> ids + 1, rev |-> 1, values |-> Defaults, status |-> "creating"]
            /\ ids' = ids + 1 /\ want' = Defaults
        BY Zenon, <2>2 DEF Creates, NoCluster
      <4> QED BY Zenon, <4>1, <4>2 DEF Cluster
    <3>4. \A d \in Clients : at'[d].id <= ids /\ at'[d].id \in Nat
      <4>1. \A d \in Clients : at'[d].id \in Nat /\ at[d].id \in Nat /\ at[d].id <= ids /\ ids \in Nat
        BY Zenon, <3>2, CallFields DEF IInv, Types, Known
      <4> QED BY <3>2, <4>1
    <3>5. Types' /\ Known'
      BY <3>1, <3>2, <3>3, <3>4 DEF IInv, Types, Known
    <3>6. \A d \in Clients : at'[d].id # cluster'.id
      BY <3>3, <3>4 DEF IInv, Types
    <3>7. Fresh' /\ NoLostUpdate' /\ InSync'
      BY Zenon, <3>3, <3>6 DEF Fresh, Knows, NoLostUpdate, InSync
    <3> QED BY Zenon, <3>5, <3>7 DEF IInv
  <2> QED BY Zenon, <1>12, <2>1, <2>2
     DEF CreateClusterFromTemplate, Plain, Elsewhere, Labels, Quiet, extVars
<1> QED BY Zenon, <1>1, <1>2, <1>3, <1>4, <1>5, <1>6, <1>7, <1>8, <1>9, <1>10, <1>11, <1>12 DEF Step

\* So does the beginning of a call.
LEMMA StartKeeps == ASSUME IInv, NEW c \in Clients, Start(c) PROVE IInv'
<1>1. CASE Bootstrap(c)
  <2>1. at[c] \in Call /\ [at[c] EXCEPT !.calm = TRUE] \in Call /\ [at[c] EXCEPT !.calm = TRUE].id = at[c].id
    BY Zenon DEF IInv, Types, Call
  <2>2. at' = [at EXCEPT ![c] = [at[c] EXCEPT !.calm = TRUE]] /\ pc' = [pc EXCEPT ![c] = "lookup"] /\ Quiet
    BY Zenon, <1>1 DEF Bootstrap, Begin, extVars, Quiet, IInv, Types
  <2>3. Moves(c)
    BY Zenon, <2>1, <2>2 DEF Moves, IInv, Types, Known, Quiet, Labels
  <2> QED BY Zenon, <2>3, MovesKeep
<1>2. CASE Remove(c)
  <2>1. at' = Disturbed(at) /\ pc' = [pc EXCEPT ![c] = "find"] /\ Quiet
    BY Zenon, <1>2 DEF Remove, Begin, extVars, Quiet
  <2>2. /\ at' \in [Clients -> Call]
        /\ \A d \in Clients : at'[d].id = at[d].id /\ at'[d].rev = at[d].rev /\ at'[d].values = at[d].values
    BY Zenon, <2>1, DisturbedType DEF IInv, Types
  <2>3. Moves(c)
    BY Zenon, <2>1, <2>2 DEF Moves, IInv, Types, Known, Quiet, Labels
  <2> QED BY Zenon, <2>3, MovesKeep
<1>3. ASSUME NEW w \in Wishes, SetClusterInputValue(c, w[1], w[2]) PROVE IInv'
  <2>1. w[1] \in Keys /\ w[2] \in Values
    BY Zenon, CommanderAssumption
  <2> DEFINE r == [[at[c] EXCEPT !.key = w[1]] EXCEPT !.value = w[2]]
  <2>2. r \in Call /\ r.id = at[c].id
    BY <2>1 DEF IInv, Types, Call
  <2>3. at' = [at EXCEPT ![c] = r] /\ pc' = [pc EXCEPT ![c] = "byname"] /\ Quiet
    BY Zenon, <1>3 DEF SetClusterInputValue, Begin, extVars, Quiet, IInv, Types
  <2> HIDE DEF r
  <2>4. Moves(c)
    BY Zenon, <2>2, <2>3 DEF Moves, IInv, Types, Known, Quiet, Labels
  <2> QED BY Zenon, <2>4, MovesKeep
<1> QED BY Zenon, <1>1, <1>2, <1>3 DEF Start

\* And so does whatever happens at Commander.
LEMMA CommanderKeeps == ASSUME IInv, Commander PROVE IInv'
<1>1. CASE Converges
  <2>1. "in_sync" \in Statuses /\ UNCHANGED <<ids, pc, at, want>> /\ applied' = cluster.values
        /\ cluster' = [cluster EXCEPT !.status = "in_sync"]
    BY Zenon, <1>1 DEF Converges, Statuses
  <2> QED BY Zenon, <2>1, WorkKeeps
<1>2. CASE FailsToConverge \/ TriesAgain
  <2>1. UNCHANGED <<ids, pc, at, want>>
    BY Zenon, <1>2 DEF FailsToConverge, TriesAgain
  <2>2. PICK s \in {"failed", "synchronization_failure", "updating"} : cluster' = [cluster EXCEPT !.status = s]
    BY Zenon, <1>2 DEF FailsToConverge, TriesAgain
  <2>3. s \in Statuses /\ s # "in_sync"
    BY Zenon DEF Statuses
  <2> QED BY Zenon, <2>1, <2>2, <2>3, WorkKeeps
<1>3. CASE Deleted
  <2>1. Defaults \in [Keys -> Values]
    BY Zenon, CommanderAssumption DEF Defaults
  <2>2. cluster' \in Cluster /\ cluster'.id = 0 /\ UNCHANGED <<ids, pc, at>>
    BY Zenon, <1>3, <2>1 DEF Deleted, NoCluster, Cluster, Statuses
  <2>3. Types' /\ Known'
    BY <2>2 DEF IInv, Types, Known
  <2>4. Fresh' /\ NoLostUpdate' /\ InSync'
    BY Zenon, <2>2 DEF Fresh, Knows, NoLostUpdate, InSync, Exists
  <2> QED BY Zenon, <2>3, <2>4 DEF IInv
<1>4. ASSUME NEW w \in Wishes, OperatorEdits(w[1], w[2]) PROVE IInv'
  <2>1. w[1] \in Keys /\ w[2] \in Values
    BY Zenon, CommanderAssumption
  <2>2. /\ cluster \in Cluster /\ cluster.rev \in Nat /\ cluster.values = want /\ want \in [Keys -> Values]
        /\ Exists /\ "updating" \in Statuses
    BY Zenon, <1>4, ClusterFields DEF OperatorEdits, IInv, Types, NoLostUpdate, Statuses
  <2>3. /\ want' = [want EXCEPT ![w[1]] = w[2]] /\ UNCHANGED <<ids, pc, at>>
        /\ cluster' = [cluster EXCEPT !.values[w[1]] = w[2], !.rev = @ + 1, !.status = "updating"]
    BY Zenon, <1>4 DEF OperatorEdits
  <2>4. /\ cluster'.id = cluster.id /\ cluster'.rev = cluster.rev + 1 /\ cluster'.values = want'
        /\ cluster'.status = "updating" /\ cluster' \in Cluster
    <3> DEFINE f == [cluster.values EXCEPT ![w[1]] = w[2]]
    <3>1. f = want' /\ f \in [Keys -> Values]
      BY Zenon, <2>1, <2>2, <2>3
    <3>2. cluster' = [cluster EXCEPT !.values = f, !.rev = @ + 1, !.status = "updating"]
      BY Zenon, <2>2, <2>3 DEF Cluster
    <3> HIDE DEF f
    <3>3. cluster.rev + 1 \in Nat
      BY <2>2
    <3> QED BY Zenon, <2>2, <3>1, <3>2, <3>3 DEF Cluster
  <2>5. Types' /\ Known'
    BY Zenon, <2>3, <2>4 DEF IInv, Types, Known
  <2> QED BY Zenon, <2>2, <2>3, <2>4, <2>5, ChangeKeeps
<1> QED BY Zenon, <1>1, <1>2, <1>3, <1>4 DEF Commander

\* The inductive invariant: holds at first, and every step preserves it.
LEMMA InitHolds == ASSUME Init PROVE IInv
<1>1. Defaults \in [Keys -> Values]
  BY Zenon, CommanderAssumption DEF Defaults
<1>2. /\ at \in [Clients -> Call] /\ (\A c \in Clients : at[c].id = 0)
      /\ pc \in [Clients -> Labels] /\ \A c \in Clients : pc[c] = "idle"
  BY Zenon, NoCallType DEF Init, Labels
<1>3. /\ cluster \in Cluster /\ cluster.values = Defaults /\ ids \in {0, 1} /\ cluster.id = ids
      /\ applied = Defaults /\ want = Defaults
  <2>1. CASE ids = 0
    BY Zenon, <2>1, <1>1 DEF Init, NoCluster, Cluster, Statuses
  <2>2. CASE ids = 1
    BY <2>2, <1>1 DEF Init, Cluster, Statuses
  <2> QED BY Zenon, <2>1, <2>2 DEF Init
<1> QED BY <1>2, <1>3 DEF IInv, Types, Known, Fresh, NoLostUpdate, InSync

\* Every step keeps the invariant.
LEMMA NextKeeps == ASSUME IInv, [Next]_vars PROVE IInv'
<1>1. ASSUME NEW c \in Clients, WaitExpires(c) PROVE IInv'
  <2>1. Quiet /\ Return(c, "error") /\ "error" \in Elsewhere
    BY Zenon, <1>1 DEF WaitExpires, Quiet, extVars, Elsewhere, Labels
  <2> QED BY Zenon, <2>1, PlainMoves
<1>2. CASE UNCHANGED vars
  <2>1. UNCHANGED <<cluster, ids, applied, want, pc, at>>
    BY Zenon, <1>2 DEF vars, extVars
  <2> QED BY Zenon, <2>1 DEF IInv, Types, Known, Fresh, Knows, NoLostUpdate, InSync, Exists
<1> QED BY Zenon, <1>1, <1>2, StepKeeps, StartKeeps, CommanderKeeps DEF Next, Finished

\* Although every PUT replaces all input values, none undoes what another client or an
\* operator asked for (UpdateClusterValues).
THEOREM NoLostUpdateHolds == Spec => []NoLostUpdate
<1>1. IInv => NoLostUpdate
  BY Zenon DEF IInv
<1> QED BY <1>1, InitHolds, NextKeeps, PTL DEF Spec

\* Who ends its call did so by a step of its own.
LEMMA OwnStep ==
    ASSUME IInv, NEW c \in Clients, pc[c] \in {"poll", "modules"}, pc'[c] \in {"ok", "stuck"}, Next
    PROVE  Step(c)
<1>1. pc \in [Clients -> Labels]
  BY Zenon DEF IInv, Types
<1>2. ~Commander /\ ~Finished
  BY Zenon
     DEF Commander, Converges, FailsToConverge, TriesAgain, Deleted, OperatorEdits, Finished, vars
<1>3. ASSUME NEW d \in Clients, Start(d) \/ WaitExpires(d) PROVE FALSE
  BY Zenon, <1>1, <1>3 DEF Start, Bootstrap, Remove, SetClusterInputValue, WaitExpires, Return
<1>4. PICK d \in Clients : Step(d)
  BY Zenon, <1>2, <1>3 DEF Next
<1>5. \E p \in Labels : pc' = [pc EXCEPT ![d] = p]
  BY Zenon, <1>4 DEF Step, GetClusterByName, GetClusterByID, UpdateCluster, UpdateAnswerLost,
              UpdateConflict, UpdateRefused, ApproveClusterChangeRequests, PollConvergence,
              PollFails, Lookup, createCluster, CreateClusterFromTemplate, WaitForClusterReady,
              Connect, OpenTunnel, EnableModules, Find, DeleteClusterByID, CallFails,
              Goto, Return, Found, Labels
<1>6. d = c
  BY Zenon, <1>1, <1>5
<1> QED BY Zenon, <1>4, <1>6

\* Only a poll that reads in_sync ends the wait with success.
LEMMA OkMeansInSync ==
    ASSUME IInv, NEW c \in Clients, pc[c] = "poll", pc'[c] = "ok", Next
    PROVE  Exists /\ cluster.status = "in_sync"
<1>1. pc \in [Clients -> Labels] /\ Step(c)
  BY Zenon, OwnStep DEF IInv, Types
<1>2. PollConvergence(c) \/ PollFails(c)
  BY Zenon, <1>1 DEF Step, GetClusterByName, GetClusterByID, UpdateCluster, UpdateAnswerLost,
              UpdateConflict, UpdateRefused, ApproveClusterChangeRequests,
              Lookup, createCluster, CreateClusterFromTemplate, WaitForClusterReady,
              Connect, OpenTunnel, EnableModules, Find, DeleteClusterByID, CallFails
<1>3. ~PollFails(c)
  BY Zenon, <1>1 DEF PollFails, Goto
<1> QED BY Zenon, <1>1, <1>2, <1>3 DEF PollConvergence, Return, Ready

\* Only EnableModules ends a Bootstrap with success.
LEMMA ModulesOk ==
    ASSUME IInv, NEW c \in Clients, pc[c] = "modules", pc'[c] = "ok", Next
    PROVE  EnableModules(c)
<1>1. pc \in [Clients -> Labels] /\ Step(c)
  BY Zenon, OwnStep DEF IInv, Types
<1>2. EnableModules(c) \/ CallFails(c)
  BY Zenon, <1>1 DEF Step, GetClusterByName, GetClusterByID, UpdateCluster, UpdateAnswerLost,
              UpdateConflict, UpdateRefused, ApproveClusterChangeRequests, PollConvergence,
              PollFails, Lookup, createCluster, CreateClusterFromTemplate, WaitForClusterReady,
              Connect, OpenTunnel, Find, DeleteClusterByID
<1>3. ~CallFails(c)
  BY Zenon, <1>1 DEF CallFails, Return
<1> QED BY Zenon, <1>2, <1>3

\* A SetClusterInputValueAndWait that reports success has had its value applied, unless
\* somebody asked for another one since (WaitForClusterConverged).
THEOREM ConvergedMeansAppliedHolds == Spec => ConvergedMeansApplied
<1> DEFINE A == \A c \in Clients : pc[c] = "poll" /\ pc'[c] = "ok" =>
                    applied[at[c].key] = at[c].value \/ want[at[c].key] # at[c].value
<1>1. ASSUME IInv, [Next]_vars PROVE [A]_vars
  <2> SUFFICES ASSUME NEW c \in Clients, pc[c] = "poll", pc'[c] = "ok", Next
               PROVE  applied[at[c].key] = at[c].value \/ want[at[c].key] # at[c].value
    BY Zenon, <1>1
  <2>1. Exists /\ cluster.status = "in_sync"
    BY Zenon, <1>1, OkMeansInSync
  <2>2. applied = want
    BY Zenon, <1>1, <2>1 DEF IInv, InSync, NoLostUpdate
  <2> QED BY Zenon, <2>2
<1> QED BY <1>1, InitHolds, NextKeeps, PTL DEF Spec, ConvergedMeansApplied

-----------------------------------------------------------------------------
\* A step of client d keeps Calm if it keeps a settled cluster and d goes on only
\* with a settled one.
LEMMA CalmMoves ==
    ASSUME Calm, NEW d \in Clients, Settled => Settled',
           \A c \in Clients \ {d} : at'[c].calm = at[c].calm /\ pc'[c] = pc[c],
           at'[d].calm /\ pc'[d] \in Late => Settled'
    PROVE  Calm'
BY Zenon DEF Calm

\* Every step keeps Calm.
LEMMA CalmKeeps == ASSUME IInv, Calm, [Next]_vars PROVE Calm'
<1>0. at \in [Clients -> Call] /\ pc \in [Clients -> Labels] /\ cluster \in Cluster
  BY Zenon DEF IInv, Types
<1>1. ASSUME NEW d \in Clients,
             \/ GetClusterByName(d) \/ GetClusterByID(d) \/ UpdateConflict(d) \/ UpdateRefused(d)
             \/ ApproveClusterChangeRequests(d) \/ PollConvergence(d) \/ PollFails(d)
             \/ createCluster(d) \/ EnableModules(d) \/ Find(d) \/ CallFails(d)
             \/ WaitExpires(d) \/ Bootstrap(d) \/ \E w \in Wishes : SetClusterInputValue(d, w[1], w[2])
      PROVE Calm'
  <2>1. UNCHANGED cluster
    BY Zenon, <1>1 DEF GetClusterByName, GetClusterByID, UpdateConflict, UpdateRefused,
                ApproveClusterChangeRequests, PollConvergence, PollFails, createCluster,
                EnableModules, Find, CallFails, WaitExpires, Bootstrap, SetClusterInputValue,
                Begin, extVars
  <2>2. \E p \in Labels \ Late : pc' = [pc EXCEPT ![d] = p]
    BY Zenon, <1>1 DEF GetClusterByName, GetClusterByID, UpdateConflict, UpdateRefused,
                ApproveClusterChangeRequests, PollConvergence, PollFails, createCluster,
                EnableModules, Find, CallFails, WaitExpires, Bootstrap, SetClusterInputValue,
                Goto, Return, Found, Labels, Late
  <2>3. \A c \in Clients \ {d} : at'[c] = at[c]
    BY Zenon, <1>0, <1>1 DEF GetClusterByName, GetClusterByID, UpdateConflict, UpdateRefused,
                ApproveClusterChangeRequests, PollConvergence, PollFails, createCluster,
                EnableModules, Find, CallFails, WaitExpires, Bootstrap, SetClusterInputValue,
                Goto, Return, Found
  <2>4. pc'[d] \notin Late /\ \A c \in Clients \ {d} : pc'[c] = pc[c]
    BY Zenon, <1>0, <2>2
  <2> QED BY Zenon, <2>1, <2>3, <2>4, CalmMoves DEF Settled, Exists
<1>2. ASSUME NEW d \in Clients, UpdateCluster(d) \/ UpdateAnswerLost(d) PROVE Calm'
  <2>1. Settled => Settled'
    <3>1. cluster'.id = cluster.id /\ cluster'.status = "updating"
      BY Zenon, <1>0, <1>2 DEF UpdateCluster, UpdateAnswerLost, Store, Cluster
    <3> QED BY Zenon, <3>1 DEF Settled, Exists
  <2>2. \E p \in Labels \ Late : pc' = [pc EXCEPT ![d] = p]
    BY Zenon, <1>2 DEF UpdateCluster, UpdateAnswerLost, Return, Labels, Late
  <2>3. \A c \in Clients \ {d} : at'[c] = at[c]
    BY Zenon, <1>0, <1>2 DEF UpdateCluster, UpdateAnswerLost, Return
  <2>4. pc'[d] \notin Late /\ \A c \in Clients \ {d} : pc'[c] = pc[c]
    BY Zenon, <1>0, <2>2
  <2> QED BY Zenon, <2>1, <2>3, <2>4, CalmMoves
<1>3. ASSUME NEW d \in Clients, Lookup(d) \/ WaitForClusterReady(d) PROVE Calm'
  <2>1. UNCHANGED cluster
    BY Zenon, <1>3 DEF Lookup, WaitForClusterReady, extVars
  <2>2. \A c \in Clients \ {d} : at'[c] = at[c] /\ pc'[c] = pc[c]
    BY Zenon, <1>0, <1>3 DEF Lookup, WaitForClusterReady, Goto, Return
  <2>3. pc'[d] \in Late => Exists /\ cluster.status = "in_sync"
    BY Zenon, <1>0, <1>3 DEF Lookup, WaitForClusterReady, Goto, Return, Ready, Late
  <2> QED BY Zenon, <2>1, <2>2, <2>3, CalmMoves DEF Settled, Exists
<1>4. ASSUME NEW d \in Clients, Connect(d) \/ OpenTunnel(d) PROVE Calm'
  <2>1. UNCHANGED cluster /\ pc[d] \in Late
    BY Zenon, <1>4 DEF Connect, OpenTunnel, extVars, Late
  <2>2. \A c \in Clients \ {d} : at'[c] = at[c] /\ pc'[c] = pc[c]
    BY Zenon, <1>0, <1>4 DEF Connect, OpenTunnel, Goto, Return, Found
  <2>3. at'[d].calm => at[d].calm
    <3>1. CASE UNCHANGED at
      BY Zenon, <3>1
    <3>2. CASE at' = [at EXCEPT ![d] = NoCall]
      BY Zenon, <1>0, <3>2, NoCallType
    <3>3. CASE at' = [at EXCEPT ![d].id = cluster.id]
      BY Zenon, <1>0, <3>3 DEF Call
    <3> QED BY Zenon, <1>4, <3>1, <3>2, <3>3 DEF Connect, OpenTunnel, Goto, Return, Found
  <2>4. Settled' <=> Settled
    BY Zenon, <2>1 DEF Settled, Exists
  <2> QED BY Zenon, <2>1, <2>2, <2>3, <2>4, CalmMoves DEF Calm
<1>5. ASSUME NEW d \in Clients, CreateClusterFromTemplate(d) PROVE Calm'
  <2>1. Settled => Settled'
    BY Zenon, <1>5 DEF CreateClusterFromTemplate, Creates, Settled, Exists, extVars
  <2>2. \E p \in Labels \ Late : pc' = [pc EXCEPT ![d] = p]
    BY Zenon, <1>5 DEF CreateClusterFromTemplate, Goto, Return, Labels, Late
  <2>3. \A c \in Clients \ {d} : at'[c] = at[c]
    BY Zenon, <1>0, <1>5 DEF CreateClusterFromTemplate, Goto, Return
  <2>4. pc'[d] \notin Late /\ \A c \in Clients \ {d} : pc'[c] = pc[c]
    BY Zenon, <1>0, <2>2
  <2> QED BY Zenon, <2>1, <2>3, <2>4, CalmMoves
<1>6. ASSUME NEW d \in Clients, Remove(d) \/ DeleteClusterByID(d) PROVE Calm'
  <2>1. PICK f \in [Clients -> Call] : at' = Disturbed(f)
    BY Zenon, <1>0, <1>6, NoCallType DEF Remove, DeleteClusterByID
  <2>2. \A c \in Clients : at'[c].calm = FALSE
    BY Zenon, <2>1, DisturbedType
  <2> QED BY Zenon, <2>2 DEF Calm
<1>7. ASSUME Commander PROVE Calm'
  <2>1. UNCHANGED <<at, pc>>
    BY Zenon, <1>7 DEF Commander, Converges, FailsToConverge, TriesAgain, Deleted, OperatorEdits
  <2>2. ASSUME Settled PROVE Settled'
    <3>1. ~Deleted
      BY Zenon, <2>2 DEF Deleted, Settled
    <3>2. cluster'.id = cluster.id /\ cluster'.status \in {"in_sync", "updating", "synchronization_failure"}
      BY Zenon, <1>0, <1>7, <2>2, <3>1
         DEF Commander, Converges, FailsToConverge, TriesAgain, OperatorEdits, Settled, Cluster
    <3> QED BY Zenon, <2>2, <3>2 DEF Settled, Exists
  <2> QED BY Zenon, <2>1, <2>2 DEF Calm
<1>8. CASE UNCHANGED vars
  <2>1. UNCHANGED <<cluster, at, pc>>
    BY Zenon, <1>8 DEF vars, extVars
  <2> QED BY Zenon, <2>1 DEF Calm, Settled, Exists
<1>9. ASSUME NEW d \in Clients, Step(d) \/ Start(d) \/ WaitExpires(d) PROVE Calm'
  BY Zenon, <1>9, <1>1, <1>2, <1>3, <1>4, <1>5, <1>6 DEF Step, Start
<1> QED BY Zenon, <1>7, <1>8, <1>9 DEF Next, Finished

\* A Bootstrap that succeeds and met no Remove leaves a cluster that has been ready and
\* has its modules, whatever the other processes and Commander did meanwhile.
THEOREM BootstrapDeliversHolds == Spec => BootstrapDelivers
<1> DEFINE A == \A c \in Clients : at[c].calm /\ pc[c] = "modules" /\ pc'[c] = "ok" =>
                    /\ cluster.id \in enabled'
                    /\ cluster.status \notin {"creating", "failed", "deleting"}
<1>1. Init => Calm
  BY Zenon DEF Init, Calm, Late
<1>2. ASSUME IInv, Calm, [Next]_vars PROVE [A]_vars
  <2> SUFFICES ASSUME NEW c \in Clients, at[c].calm, pc[c] = "modules", pc'[c] = "ok", Next
               PROVE  cluster.id \in enabled' /\ cluster.status \notin {"creating", "failed", "deleting"}
    BY Zenon, <1>2
  <2>1. Settled
    BY Zenon, <1>2 DEF Calm, Late
  <2>2. EnableModules(c)
    BY Zenon, <1>2, ModulesOk
  <2> QED BY Zenon, <2>1, <2>2 DEF Settled, EnableModules, Reachable
<1> QED BY <1>1, <1>2, InitHolds, NextKeeps, CalmKeeps, PTL DEF Spec, BootstrapDelivers

-----------------------------------------------------------------------------
(* The count of failing polls.                                             *)

\* The last f of the statuses p that were read are the failure status l.
Streak(p, f, l) ==
    /\ Len(p) <= FailurePolls /\ f <= Len(p)
    /\ f > 0 => isFailureStatus(l)
    /\ \A i \in 1 .. Len(p) : i > Len(p) - f => p[i] = l

\* What failingPolls counts is at the end of what was read.
Streaks ==
    \A c \in Clients :
        at[c].failing < FailurePolls /\ Streak(at[c].polls, at[c].failing, at[c].last)

\* The statuses p with one more, s, of which the last n are kept.
Kept(p, s, n) == LET all == Append(p, s) IN IF Len(all) > n THEN Tail(all) ELSE all

Follows(q, p, s, n) ==
    /\ q \in Seq(Statuses) /\ Len(q) \in Nat /\ Len(q) <= n /\ Len(q) > 0
    /\ Len(q) = Len(p) + 1 \/ (Len(q) = n /\ Len(p) = n)
    /\ q[Len(q)] = s
    /\ \A i \in 1 .. Len(q) : i < Len(q) => q[i] = p[i + Len(p) + 1 - Len(q)]

\* The statuses before the last are those read before it.
LEMMA KeptFollows ==
    ASSUME NEW p \in Seq(Statuses), NEW s \in Statuses, NEW n \in Nat \ {0}, Len(p) <= n
    PROVE  Follows(Kept(p, s, n), p, s, n)
<1>1. /\ Append(p, s) \in Seq(Statuses) /\ Append(p, s) # <<>>
      /\ Len(Append(p, s)) = Len(p) + 1
      /\ \A i \in 1 .. Len(p) : Append(p, s)[i] = p[i]
      /\ Append(p, s)[Len(p) + 1] = s
  BY ONLY AppendProperties, p \in Seq(Statuses), s \in Statuses
<1>2. Len(p) \in Nat
  BY LenProperties
<1>3. SUFFICES ASSUME NEW a \in Seq(Statuses), a # <<>>, Len(a) = Len(p) + 1,
                      \A i \in 1 .. Len(p) : a[i] = p[i], a[Len(p) + 1] = s,
                      NEW q, q = IF Len(a) > n THEN Tail(a) ELSE a
               PROVE  Follows(q, p, s, n)
  BY <1>1, <1>3, Zenon DEF Kept
<1>4. CASE Len(a) > n
  <2>1. /\ Tail(a) \in Seq(Statuses) /\ Len(Tail(a)) = Len(a) - 1
        /\ \A i \in 1 .. Len(Tail(a)) : Tail(a)[i] = a[i + 1]
    BY ONLY a \in Seq(Statuses), a # <<>>, HeadTailProperties
  <2>2. q \in Seq(Statuses) /\ Len(q) = Len(a) - 1 /\ \A i \in 1 .. Len(q) : q[i] = a[i + 1]
    BY <1>3, <1>4, <2>1, Zenon
  <2>3. Len(q) = n /\ Len(p) = n
    BY ONLY <1>2, <1>3, <1>4, <2>2, Len(p) <= n, n \in Nat
  <2>4. q[n] = s /\ \A i \in 1 .. n : i < n => q[i] = p[i + 1]
    BY ONLY <1>2, <1>3, <2>2, <2>3, n \in Nat \ {0}
  <2>5. ASSUME NEW i \in 1 .. n, i < n PROVE q[i] = p[i + n + 1 - n]
    <3>1. i + n + 1 - n = i + 1
      OBVIOUS
    <3> QED BY <2>4, <2>5, <3>1, Zenon
  <2>6. n > 0 /\ n <= n
    OBVIOUS
  <2> QED BY <2>2, <2>3, <2>4, <2>5, <2>6, Zenon DEF Follows
<1>5. CASE ~(Len(a) > n)
  <2>1. q = a
    BY <1>3, <1>5, Zenon
  <2>2. Len(a) <= n /\ Len(a) > 0 /\ a[Len(a)] = s
    BY <1>2, <1>3, <1>5
  <2>3. ASSUME NEW i \in 1 .. Len(a), i < Len(a) PROVE a[i] = p[i + Len(p) + 1 - Len(a)]
    <3>1. i \in 1 .. Len(p) /\ i + Len(p) + 1 - Len(a) = i
      BY <1>2, <1>3, <2>3
    <3> QED BY <1>3, <3>1, Zenon
  <2> QED BY <1>3, <2>1, <2>2, <2>3, LenProperties DEF Follows
<1> QED BY <1>4, <1>5

\* failingPolls after status s, where it was f and the status l.
Counted(f, l, s) == (IF s # l THEN 0 ELSE f) + (IF isFailureStatus(s) THEN 1 ELSE 0)

\* One more poll makes the streak longer, or begins a new one.
LEMMA StreakGrows ==
    ASSUME NEW p \in Seq(Statuses), NEW f \in Nat, NEW l, NEW s \in Statuses,
           f < FailurePolls, Streak(p, f, l),
           NEW q, q = Kept(p, s, FailurePolls), NEW g, g = Counted(f, l, s)
    PROVE  Streak(q, g, s) /\ q \in Seq(Statuses) /\ Len(q) \in Nat /\ g \in Nat /\ g <= FailurePolls
<1>0. FailurePolls \in Nat \ {0} /\ Len(p) \in Nat /\ Len(p) <= FailurePolls /\ f <= Len(p)
  BY CommanderAssumption, LenProperties DEF Streak
<1>1. /\ q \in Seq(Statuses) /\ Len(q) \in Nat /\ Len(q) <= FailurePolls /\ Len(q) > 0
      /\ Len(q) = Len(p) + 1 \/ (Len(q) = FailurePolls /\ Len(p) = FailurePolls)
      /\ q[Len(q)] = s
      /\ \A i \in 1 .. Len(q) : i < Len(q) => q[i] = p[i + Len(p) + 1 - Len(q)]
  <2>1. Follows(Kept(p, s, FailurePolls), p, s, FailurePolls)
    BY ONLY <1>0, KeptFollows, p \in Seq(Statuses), s \in Statuses
  <2> QED BY <2>1, Zenon DEF Follows
<1>2. g \in Nat /\ g <= f + 1 /\ (g > 0 => isFailureStatus(s)) /\ (g > 1 => s = l)
  <2>1. f > 0 => isFailureStatus(l)
    BY DEF Streak
  <2> QED BY <2>1 DEF Counted
<1>3. g <= Len(q) /\ g <= FailurePolls
  BY <1>0, <1>1, <1>2
<1>4. ASSUME NEW i \in 1 .. Len(q), i > Len(q) - g PROVE q[i] = s
  <2>1. CASE i = Len(q)
    BY <1>1, <2>1
  <2>2. CASE i < Len(q)
    <3>1. g > 1 /\ s = l
      BY ONLY <1>1, <1>2, <1>4, <2>2, i \in 1 .. Len(q)
    <3>2. /\ i + Len(p) + 1 - Len(q) \in 1 .. Len(p)
          /\ i + Len(p) + 1 - Len(q) > Len(p) - f
      BY ONLY <1>0, <1>1, <1>2, <1>4, <2>2, i \in 1 .. Len(q), f \in Nat
    <3>3. p[i + Len(p) + 1 - Len(q)] = l
      BY <3>2 DEF Streak
    <3> QED BY <1>1, <2>2, <3>1, <3>3
  <2> QED BY <1>1, <2>1, <2>2
<1> QED BY <1>1, <1>2, <1>3, <1>4 DEF Streak

\* A step that is not a poll leaves the count and what was read, or begins both anew.
LEMMA CountsStay ==
    ASSUME IInv, Streaks,
           \A c \in Clients :
              \/ at'[c].polls = at[c].polls /\ at'[c].failing = at[c].failing /\ at'[c].last = at[c].last
              \/ at'[c].polls = <<>> /\ at'[c].failing = 0
    PROVE  Streaks'
<1>1. FailurePolls \in Nat /\ 0 < FailurePolls /\ Len(<<>>) = 0
  BY CommanderAssumption
<1>2. \A l : Streak(<<>>, 0, l)
  BY <1>1 DEF Streak
<1> QED BY <1>1, <1>2 DEF Streaks

\* Every step keeps the count in line with what was read.
LEMMA StreaksKeep == ASSUME IInv, Streaks, [Next]_vars PROVE Streaks'
<1>0. /\ at \in [Clients -> Call] /\ NoCall.polls = <<>> /\ NoCall.failing = 0
      /\ cluster \in Cluster
  BY DEF IInv, Types, NoCall
<1> DEFINE Kind(c) ==
       \/ at'[c].polls = at[c].polls /\ at'[c].failing = at[c].failing /\ at'[c].last = at[c].last
       \/ at'[c].polls = <<>> /\ at'[c].failing = 0
<1>1. ASSUME NEW d \in Clients, Start(d) PROVE \A c \in Clients : Kind(c)
  <2>1. CASE Bootstrap(d)
    BY <1>0, <2>1, Zenon DEF Bootstrap, Call
  <2>3. ASSUME NEW k, NEW v, SetClusterInputValue(d, k, v) PROVE \A c \in Clients : Kind(c)
    <3>1. at' = [at EXCEPT ![d] = [at[d] EXCEPT !.key = k, !.value = v]]
      BY <1>0, <2>3 DEF SetClusterInputValue
    <3> QED BY <1>0, <3>1, Zenon DEF Call
  <2>2. CASE Remove(d)
    BY <1>0, <2>2, Zenon DEF Remove, Disturbed, Call
  <2> QED BY <1>1, <2>1, <2>2, <2>3, Zenon DEF Start
<1>2. ASSUME NEW d \in Clients, NEW p, Goto(d, p) \/ Return(d, p) \/ Found(d, p)
      PROVE  \A c \in Clients : Kind(c)
  <2>1. CASE Goto(d, p)
    BY <2>1, Zenon DEF Goto
  <2>2. CASE Return(d, p)
    BY <1>0, <2>2, Zenon DEF Return
  <2>3. CASE Found(d, p)
    BY <1>0, <2>3, Zenon DEF Found, Call
  <2> QED BY <1>2, <2>1, <2>2, <2>3, Zenon
<1>3. ASSUME NEW d \in Clients, Step(d), ~PollConvergence(d)
      PROVE  \A c \in Clients : Kind(c)
  <2>1. CASE GetClusterByName(d) \/ UpdateAnswerLost(d) \/ UpdateRefused(d)
             \/ ApproveClusterChangeRequests(d) \/ PollFails(d) \/ Lookup(d) \/ createCluster(d)
             \/ CreateClusterFromTemplate(d)
    BY <1>2, <2>1, Zenon DEF GetClusterByName, UpdateAnswerLost, UpdateRefused,
       ApproveClusterChangeRequests, PollFails, Lookup, createCluster, CreateClusterFromTemplate
  <2>2. CASE WaitForClusterReady(d) \/ Connect(d) \/ OpenTunnel(d) \/ EnableModules(d) \/ Find(d)
             \/ CallFails(d)
    BY <1>2, <2>2, Zenon DEF WaitForClusterReady, Connect, OpenTunnel, EnableModules, Find, CallFails
  <2>3. CASE GetClusterByID(d)
    <3>1. CASE at' = [at EXCEPT ![d].rev = cluster.rev, ![d].values = cluster.values]
      BY <1>0, <3>1, Zenon DEF Call
    <3> QED BY <1>2, <2>3, <3>1, Zenon DEF GetClusterByID
  <2>4. CASE UpdateCluster(d) \/ UpdateConflict(d)
    <3>1. ASSUME NEW r, r.polls = <<>>, r.failing = 0, at' = [at EXCEPT ![d] = r]
          PROVE  \A c \in Clients : Kind(c)
      BY <1>0, <3>1, Zenon
    <3> HIDE DEF Kind
    <3>2. CASE UpdateCluster(d)
      <4>1. PICK n : at' = [at EXCEPT ![d] = [NoCall EXCEPT !.key = at[d].key,
                                                            !.value = at[d].value, !.id = n]]
        BY <3>2, Zenon DEF UpdateCluster
      <4> DEFINE r == [NoCall EXCEPT !.key = at[d].key, !.value = at[d].value, !.id = n]
      <4>2. r.polls = <<>> /\ r.failing = 0 /\ at' = [at EXCEPT ![d] = r]
        BY <4>1 DEF NoCall
      <4> HIDE DEF r
      <4> QED BY <3>1, <4>2, Zenon
    <3>3. CASE UpdateConflict(d)
      <4> DEFINE r == [NoCall EXCEPT !.key = at[d].key, !.value = at[d].value,
                                     !.attempt = at[d].attempt + 1]
      <4>1. CASE at' = [at EXCEPT ![d] = r]
        <5>1. r.polls = <<>> /\ r.failing = 0
          BY DEF NoCall
        <5> HIDE DEF r
        <5> QED BY <3>1, <4>1, <5>1, Zenon
      <4> QED BY <1>2, <3>3, <4>1, Zenon DEF UpdateConflict
    <3> QED BY <2>4, <3>2, <3>3, Zenon
  <2>5. CASE DeleteClusterByID(d)
    <3>1. at' = Disturbed([at EXCEPT ![d] = NoCall])
      BY Zenon, <2>5 DEF DeleteClusterByID
    <3>2. ASSUME NEW c \in Clients \ {d} PROVE Kind(c)
      BY <1>0, <3>1, Zenon DEF Disturbed, Call
    <3>3. at'[d] = [NoCall EXCEPT !.calm = FALSE]
      BY <1>0, <3>1, Zenon DEF Disturbed, Call
    <3>4. at'[d].polls = <<>> /\ at'[d].failing = 0
      BY <3>3 DEF NoCall
    <3> QED BY Zenon, <3>2, <3>4
  <2> QED BY <1>3, <2>1, <2>2, <2>3, <2>4, <2>5, Zenon DEF Step
<1>4. ASSUME NEW d \in Clients, PollConvergence(d) PROVE Streaks'
  <2> DEFINE s == cluster.status
             g == Failing(d, s)
             q == Seen(d, s)
  <2>1. CASE \E p : Return(d, p)
    BY <1>2, <2>1, CountsStay, Zenon
  <2>2. ASSUME NEW n, g < FailurePolls,
               at' = [at EXCEPT ![d].failing = g, ![d].last = s, ![d].polls = q, ![d].id = n]
        PROVE  Streaks'
    <3>1. /\ at'[d].failing = g /\ at'[d].last = s /\ at'[d].polls = q
          /\ \A c \in Clients \ {d} : at'[c] = at[c]
      BY <1>0, <2>2, Zenon DEF Call
    <3>2. Streak(q, g, s)
      <4>1. /\ at[d].polls \in Seq(Statuses) /\ at[d].failing \in Nat /\ s \in Statuses
            /\ at[d].failing < FailurePolls /\ Streak(at[d].polls, at[d].failing, at[d].last)
        BY <1>0, CallFields, ClusterFields, Zenon DEF Streaks
      <4>2. /\ q = Kept(at[d].polls, s, FailurePolls)
            /\ g = Counted(at[d].failing, at[d].last, s)
        BY Zenon DEF Seen, Kept, Failing, Counted
      <4> HIDE DEF s, g, q
      <4> QED BY <4>1, <4>2, StreakGrows, Zenon
    <3> QED BY <2>2, <3>1, <3>2, Zenon DEF Streaks
  <2> QED BY <1>4, <2>1, <2>2, Zenon DEF PollConvergence
<1>5. CASE Commander \/ Finished \/ UNCHANGED vars
  <2>1. UNCHANGED at
    BY <1>5, Zenon DEF Commander, Converges, FailsToConverge, TriesAgain, Deleted, OperatorEdits,
       Finished, vars
  <2> QED BY <2>1, CountsStay, Zenon
<1>6. ASSUME NEW d \in Clients, WaitExpires(d) PROVE \A c \in Clients : Kind(c)
  BY <1>2, <1>6, Zenon DEF WaitExpires
<1>7. (\A c \in Clients : Kind(c)) => Streaks'
  BY CountsStay, Zenon
<1> HIDE DEF Kind
<1> QED BY <1>1, <1>3, <1>4, <1>5, <1>6, <1>7, Zenon DEF Next

\* Only a poll that has counted enough gives up.
LEMMA StuckMeansCounted ==
    ASSUME IInv, NEW c \in Clients, pc[c] = "poll", pc'[c] = "stuck", Next
    PROVE  Failing(c, cluster.status) >= FailurePolls
<1>1. pc \in [Clients -> Labels] /\ Step(c)
  BY Zenon, OwnStep DEF IInv, Types
<1>2. PollConvergence(c) \/ PollFails(c)
  BY Zenon, <1>1 DEF Step, GetClusterByName, GetClusterByID, UpdateCluster, UpdateAnswerLost,
              UpdateConflict, UpdateRefused, ApproveClusterChangeRequests,
              Lookup, createCluster, CreateClusterFromTemplate, WaitForClusterReady,
              Connect, OpenTunnel, EnableModules, Find, DeleteClusterByID, CallFails
<1>3. ~PollFails(c)
  BY Zenon, <1>1 DEF PollFails, Goto
<1> QED BY Zenon, <1>1, <1>2, <1>3 DEF PollConvergence, Return

\* The wait gives up on a failure status only when it has read that status in
\* failureStatusPolls polls in a row (WaitForClusterConverged).
THEOREM GivesUpOnlyWhenStuckHolds == Spec => GivesUpOnlyWhenStuck
<1> DEFINE A == \A c \in Clients : pc[c] = "poll" /\ pc'[c] = "stuck" =>
                    LET seen == Seen(c, cluster.status) IN
                    /\ Len(seen) = FailurePolls
                    /\ \A i \in 1 .. FailurePolls :
                           isFailureStatus(seen[i]) /\ seen[i] = cluster.status
<1>1. Init => Streaks
  <2>1. FailurePolls \in Nat /\ 0 < FailurePolls /\ NoCall.polls = <<>> /\ NoCall.failing = 0
    BY CommanderAssumption DEF NoCall
  <2>2. \A l : Streak(<<>>, 0, l)
    BY <2>1 DEF Streak
  <2> QED BY <2>1, <2>2, Zenon DEF Init, Streaks
<1>2. ASSUME IInv, Streaks, [Next]_vars PROVE [A]_vars
  <2> DEFINE s == cluster.status
  <2> SUFFICES ASSUME NEW c \in Clients, pc[c] = "poll", pc'[c] = "stuck", Next
               PROVE  /\ Len(Seen(c, s)) = FailurePolls
                      /\ \A i \in 1 .. FailurePolls :
                             isFailureStatus(Seen(c, s)[i]) /\ Seen(c, s)[i] = s
    BY <1>2, Zenon
  <2> DEFINE g == Failing(c, s)
             q == Seen(c, s)
  <2>1. g >= FailurePolls
    BY <1>2, StuckMeansCounted, Zenon
  <2>2. /\ at[c].polls \in Seq(Statuses) /\ at[c].failing \in Nat /\ s \in Statuses
        /\ at[c].failing < FailurePolls /\ Streak(at[c].polls, at[c].failing, at[c].last)
    BY <1>2, CallFields, ClusterFields, Zenon DEF Streaks, IInv, Types
  <2>3. q = Kept(at[c].polls, s, FailurePolls) /\ g = Counted(at[c].failing, at[c].last, s)
    BY Zenon DEF Seen, Kept, Failing, Counted
  <2> HIDE DEF s, g, q
  <2>4. Streak(q, g, s) /\ Len(q) \in Nat /\ g \in Nat /\ g <= FailurePolls
    BY ONLY <2>2, <2>3, StreakGrows
  <2>5. FailurePolls \in Nat \ {0}
    BY CommanderAssumption
  <2>6. /\ Len(q) = FailurePolls /\ g > 0
        /\ \A i \in 1 .. FailurePolls : i \in 1 .. Len(q) /\ i > Len(q) - g
    BY <2>1, <2>4, <2>5 DEF Streak
  <2> QED BY <2>4, <2>6, Zenon DEF Streak, q
<1> QED BY <1>1, <1>2, InitHolds, NextKeeps, StreaksKeep, PTL DEF Spec, GivesUpOnlyWhenStuck

===============================================================================
