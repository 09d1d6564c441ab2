--------------------------- MODULE CommanderCluster ---------------------------
(***************************************************************************)
(* A cluster ordered from Deckhouse Commander (internal/provisioning/      *)
(* commander, internal/kubernetes/commander): Bootstrap, Remove and        *)
(* SetClusterInputValueAndWait, called by several processes that share     *)
(* nothing but the Commander API.                                          *)
(*                                                                         *)
(* A cluster is found by its name and changed by its id.  A PUT replaces   *)
(* all input values and carries the revision they were read at.  Commander *)
(* itself is external: it gives every cluster a new id, refuses a PUT of   *)
(* an old revision, reports "updating" from the PUT until the values are   *)
(* applied, and may ask for an approval first.                             *)
(***************************************************************************)
EXTENDS Naturals, Sequences

CONSTANTS
    Clients,         \* processes that use the provider
    Keys, Values,    \* input values of the template
    Default,         \* what the template gives every key
    Wishes,          \* the keys and values that clients and operators ask for
    RevisionRetries, \* updateRevisionRetries
    FailurePolls,    \* failureStatusPolls
    MaxCalls,        \* bound: calls of the three operations
    MaxFaults        \* bound: failing requests, operator edits, failures to apply values

ASSUME CommanderAssumption ==
    /\ Keys # {} /\ Default \in Values /\ Wishes \subseteq Keys \X Values
    /\ RevisionRetries \in Nat \ {0} /\ FailurePolls \in Nat \ {0}
    /\ MaxCalls \in Nat /\ MaxFaults \in Nat

VARIABLES
    cluster,    \* the cluster of that name: id (0: none), rev, values, status
    pending,    \* a change request of it waits for approval
    applied,    \* the values it has converged to
    ids,        \* clusters created so far
    enabled,    \* ids of the clusters whose modules are enabled
    pc,
    at,         \* local variables of the calls, see NoCall
    calls, faults,
    want        \* history: the last value somebody asked for each key

extVars == <<cluster, pending, applied, ids, enabled>>
counts == <<calls, faults>>
vars == <<extVars, pc, at, counts, want>>

Statuses == {"creating", "updating", "in_sync", "failed", "synchronization_failure", "deleting"}
Defaults == [k \in Keys |-> Default]
NoCluster == [id |-> 0, rev |-> 0, values |-> Defaults, status |-> "deleting"]
Exists == cluster.id # 0

\* id, rev and values are what the call knows of the cluster.  History: polls, the
\* statuses it has read since its PUT; calm, a Bootstrap with no Remove since it began.
NoCall ==
    [key |-> CHOOSE k \in Keys : TRUE, value |-> Default, id |-> 0, rev |-> 0,
     values |-> Defaults, attempt |-> 0, failing |-> 0, last |-> "",
     polls |-> <<>>, calm |-> FALSE]

\* The cluster is there already, or it is not.
Init ==
    /\ ids \in {0, 1}
    /\ cluster = IF ids = 0 THEN NoCluster
                 ELSE [id |-> 1, rev |-> 1, values |-> Defaults, status |-> "in_sync"]
    /\ pending = FALSE /\ applied = Defaults /\ enabled = {}
    /\ pc = [c \in Clients |-> "idle"] /\ at = [c \in Clients |-> NoCall]
    /\ calls = 0 /\ faults = 0
    /\ want = Defaults

Returned == {"idle", "ok", "error", "stuck"}
Goto(c, p) == pc' = [pc EXCEPT ![c] = p] /\ UNCHANGED at
Return(c, p) == pc' = [pc EXCEPT ![c] = p] /\ at' = [at EXCEPT ![c] = NoCall]
\* Go on to p, knowing the cluster's id.
Found(c, p) == pc' = [pc EXCEPT ![c] = p] /\ at' = [at EXCEPT ![c].id = cluster.id]
Fault == faults < MaxFaults /\ faults' = faults + 1

\* Mutant: a cluster that is being updated passes for a ready one.
ReadyOrUpdating(s) == s \in {"in_sync", "updating"}

\* mapStatusToPhase
Ready(s) == s = "in_sync"
Failed(s) == s = "failed"
isFailureStatus(s) == s \in {"failed", "synchronization_failure"}

Begin(c) ==
    /\ pc[c] \in Returned
    /\ calls < MaxCalls /\ calls' = calls + 1 /\ UNCHANGED <<extVars, faults, want>>

-----------------------------------------------------------------------------
(* SetClusterInputValueAndWait.                                            *)

SetClusterInputValue(c, k, v) ==
    /\ Begin(c)
    /\ pc' = [pc EXCEPT ![c] = "byname"] /\ at' = [at EXCEPT ![c].key = k, ![c].value = v]

GetClusterByName(c) ==
    /\ pc[c] = "byname"
    /\ \/ Exists /\ Found(c, "byid")
       \/ ~Exists /\ Return(c, "error")
    /\ UNCHANGED <<extVars, counts, want>>

\* Mutant: the values are taken from the list, which may leave them out.
GetClusterByIDRevision(c) ==
    /\ pc[c] = "byid"
    /\ \/ /\ cluster.id = at[c].id /\ pc' = [pc EXCEPT ![c] = "put"]
          /\ at' = [at EXCEPT ![c].rev = cluster.rev]
       \/ cluster.id # at[c].id /\ Return(c, "error")
    /\ UNCHANGED <<extVars, counts, want>>

GetClusterByID(c) ==
    /\ pc[c] = "byid"
    /\ \/ /\ cluster.id = at[c].id /\ pc' = [pc EXCEPT ![c] = "put"]
          /\ at' = [at EXCEPT ![c].rev = cluster.rev, ![c].values = cluster.values]
       \/ cluster.id # at[c].id /\ Return(c, "error")
    /\ UNCHANGED <<extVars, counts, want>>

\* Commander takes a PUT of the current revision, wholesale.
Store(c) ==
    /\ cluster' = [cluster EXCEPT !.values = [at[c].values EXCEPT ![at[c].key] = at[c].value],
                                  !.rev = @ + 1, !.status = "updating"]
    /\ pending' \in BOOLEAN
    /\ want' = [want EXCEPT ![at[c].key] = at[c].value]
    /\ UNCHANGED <<applied, ids, enabled, calls>>

Current(c) == cluster.id = at[c].id /\ cluster.status # "deleting"

\* An answer with an empty body leaves the id unknown.
UpdateCluster(c) ==
    /\ pc[c] = "put" /\ Current(c) /\ cluster.rev = at[c].rev
    /\ Store(c)
    /\ pc' = [pc EXCEPT ![c] = "approve"]
    /\ \E known \in {0, cluster.id} :
           at' = [at EXCEPT ![c] = [NoCall EXCEPT !.key = at[c].key, !.value = at[c].value,
                                                  !.id = known]]
    /\ UNCHANGED faults

UpdateAnswerLost(c) ==
    /\ pc[c] = "put" /\ Current(c) /\ cluster.rev = at[c].rev /\ Fault
    /\ Store(c) /\ Return(c, "error")

\* ErrRevisionConflict: everything is read again, up to updateRevisionRetries times.
UpdateConflict(c) ==
    /\ pc[c] = "put" /\ Current(c) /\ cluster.rev # at[c].rev
    /\ \/ /\ at[c].attempt + 1 < RevisionRetries /\ pc' = [pc EXCEPT ![c] = "byname"]
          /\ at' = [at EXCEPT ![c] = [NoCall EXCEPT !.key = at[c].key, !.value = at[c].value,
                                                    !.attempt = at[c].attempt + 1]]
       \/ at[c].attempt + 1 >= RevisionRetries /\ Return(c, "error")
    /\ UNCHANGED <<extVars, counts, want>>

UpdateRefused(c) ==
    /\ pc[c] = "put" /\ ~Current(c) /\ Return(c, "error")
    /\ UNCHANGED <<extVars, counts, want>>

\* At first and at every tick all change requests of the cluster are approved, also
\* those of others; a list or an approval that fails is tried at the next tick.
ApproveClusterChangeRequests(c) ==
    /\ pc[c] \in {"approve", "tick"}
    /\ \/ /\ at[c].id # 0 /\ at[c].id = cluster.id
          /\ pending' \in {pending, FALSE} /\ Goto(c, "poll")
       \/ /\ at[c].id = 0 \/ at[c].id # cluster.id
          /\ Goto(c, "poll") /\ UNCHANGED pending
       \/ /\ at[c].id = cluster.id /\ pending  \* ErrClusterCannotConverge
          /\ Return(c, "error") /\ UNCHANGED pending
    /\ UNCHANGED <<cluster, applied, ids, enabled, counts, want>>

\* Mutant: failingPolls is not reset when the status changes.
FailingEver(c, s) == at[c].failing + (IF isFailureStatus(s) THEN 1 ELSE 0)

\* failingPolls after a poll that reads status s.
Failing(c, s) ==
    (IF s # at[c].last THEN 0 ELSE at[c].failing) + (IF isFailureStatus(s) THEN 1 ELSE 0)

\* The last FailurePolls statuses read, s included.
Seen(c, s) ==
    LET all == Append(at[c].polls, s) IN IF Len(all) > FailurePolls THEN Tail(all) ELSE all

PollConvergence(c) ==
    /\ pc[c] = "poll" /\ Exists
    /\ LET s == cluster.status
           failing == Failing(c, s)
       IN \/ Ready(s) /\ Return(c, "ok")
          \/ Failed(s) /\ Return(c, "error")
          \/ ~Ready(s) /\ ~Failed(s) /\ failing >= FailurePolls /\ Return(c, "stuck")
          \/ /\ ~Ready(s) /\ ~Failed(s) /\ failing < FailurePolls
             /\ pc' = [pc EXCEPT ![c] = "tick"]
             /\ at' = [at EXCEPT ![c].failing = failing, ![c].last = s, ![c].polls = Seen(c, s),
                                 ![c].id = IF @ = 0 THEN cluster.id ELSE @]
    /\ UNCHANGED <<extVars, counts, want>>

PollFails(c) ==
    /\ pc[c] = "poll"
    /\ \/ ~Exists /\ UNCHANGED faults
       \/ Fault
    /\ Goto(c, "tick")
    /\ UNCHANGED <<extVars, calls, want>>

\* Mutant: only WaitForClusterReady has a deadline.
WaitReadyExpires(c) ==
    /\ pc[c] = "ready" /\ Return(c, "error")
    /\ UNCHANGED <<extVars, counts, want>>

\* The deadline, or the end of the context.
WaitExpires(c) ==
    /\ pc[c] \in {"tick", "ready"} /\ Return(c, "error")
    /\ UNCHANGED <<extVars, counts, want>>

-----------------------------------------------------------------------------
(* Bootstrap and Remove.                                                   *)

Bootstrap(c) ==
    /\ Begin(c)
    /\ pc' = [pc EXCEPT ![c] = "lookup"] /\ at' = [at EXCEPT ![c].calm = TRUE]

\* Mutant: a cluster that exists is taken for a ready one.
LookupAny(c) ==
    /\ pc[c] = "lookup" /\ Goto(c, IF ~Exists THEN "create" ELSE "connect")
    /\ UNCHANGED <<extVars, counts, want>>

Lookup(c) ==
    /\ pc[c] = "lookup"
    /\ Goto(c, IF ~Exists THEN "create" ELSE IF Ready(cluster.status) THEN "connect" ELSE "ready")
    /\ UNCHANGED <<extVars, counts, want>>

\* Commander makes a new cluster of a name that is free.
Creates ==
    /\ ~Exists /\ ids' = ids + 1
    /\ cluster' = [NoCluster EXCEPT !.id = ids', !.rev = 1, !.status = "creating"]
    /\ want' = Defaults /\ pending' = FALSE /\ UNCHANGED <<applied, enabled>>

\* The template, its version and the registry are looked up.
createCluster(c) ==
    /\ pc[c] = "create" /\ Goto(c, "post")
    /\ UNCHANGED <<extVars, counts, want>>

\* The name of another cluster is refused.
CreateClusterFromTemplate(c) ==
    /\ pc[c] = "post"
    /\ \/ Creates /\ Goto(c, "ready") /\ UNCHANGED faults
       \/ Creates /\ Return(c, "error") /\ Fault  \* the answer is lost
       \/ Exists /\ Return(c, "error") /\ UNCHANGED <<extVars, want, faults>>
    /\ UNCHANGED calls

\* A cluster that is not found, or a status that is not final, is polled again.
WaitForClusterReady(c) ==
    /\ pc[c] = "ready" /\ Exists
    /\ \/ Ready(cluster.status) /\ Goto(c, "connect")
       \/ Failed(cluster.status) /\ Return(c, "error")
    /\ UNCHANGED <<extVars, counts, want>>

\* resolveMaster and the SSH client.
Connect(c) ==
    /\ pc[c] = "connect"
    /\ \/ Exists /\ Found(c, "kubeconfig")
       \/ ~Exists /\ Return(c, "error")
    /\ UNCHANGED <<extVars, counts, want>>

Reachable(c) == cluster.id = at[c].id

OpenTunnel(c) ==
    /\ pc[c] = "kubeconfig" /\ Reachable(c) /\ Goto(c, "modules")
    /\ UNCHANGED <<extVars, counts, want>>

\* The wait for the ModuleConfig API and the modules themselves; the deferred
\* cleanup closes tunnel and client.
EnableModules(c) ==
    /\ pc[c] = "modules" /\ Reachable(c)
    /\ enabled' = enabled \cup {at[c].id}
    /\ Return(c, "ok")
    /\ UNCHANGED <<cluster, pending, applied, ids, counts, want>>

\* History: a Remove is under way.
Disturbed(f) == [c \in Clients |-> [f[c] EXCEPT !.calm = FALSE]]

Remove(c) ==
    /\ Begin(c)
    /\ pc' = [pc EXCEPT ![c] = "find"] /\ at' = Disturbed(at)

Find(c) ==
    /\ pc[c] = "find"
    /\ \/ Exists /\ Found(c, "delete")
       \/ ~Exists /\ Return(c, "ok")
    /\ UNCHANGED <<extVars, counts, want>>

\* By id: that the cluster has gone since is an unexpected status.
DeleteClusterByID(c) ==
    /\ pc[c] = "delete"
    /\ at' = Disturbed([at EXCEPT ![c] = NoCall])
    /\ \/ /\ cluster.id = at[c].id /\ pc' = [pc EXCEPT ![c] = "ok"]
          /\ cluster' = [cluster EXCEPT !.status = "deleting"]
       \/ cluster.id # at[c].id /\ pc' = [pc EXCEPT ![c] = "error"] /\ UNCHANGED cluster
    /\ UNCHANGED <<pending, applied, ids, enabled, counts, want>>

\* Any other request that fails ends its call; what was opened is closed.
CallFails(c) ==
    /\ pc[c] \in {"byname", "byid", "put", "lookup", "create", "post", "connect",
                  "kubeconfig", "modules", "find", "delete"}
    /\ \/ Fault
       \/ pc[c] \in {"kubeconfig", "modules"} /\ ~Reachable(c) /\ UNCHANGED faults
    /\ Return(c, "error")
    /\ UNCHANGED <<extVars, calls, want>>

-----------------------------------------------------------------------------
(* Commander.                                                              *)

Converges ==
    /\ cluster.status \in {"creating", "updating"} /\ ~pending
    /\ cluster' = [cluster EXCEPT !.status = "in_sync"] /\ applied' = cluster.values
    /\ UNCHANGED <<pending, ids, enabled, pc, at, counts, want>>

\* A creation fails for good, an update is tried again.
FailsToConverge ==
    /\ Fault
    /\ \/ /\ cluster.status = "creating"
          /\ cluster' = [cluster EXCEPT !.status = "failed"]
       \/ /\ cluster.status = "updating"
          /\ cluster' = [cluster EXCEPT !.status = "synchronization_failure"]
    /\ UNCHANGED <<pending, applied, ids, enabled, pc, at, calls, want>>

TriesAgain ==
    /\ cluster.status = "synchronization_failure"
    /\ cluster' = [cluster EXCEPT !.status = "updating"]
    /\ UNCHANGED <<pending, applied, ids, enabled, pc, at, counts, want>>

OperatorEdits(k, v) ==
    /\ Exists /\ cluster.status # "deleting" /\ cluster.values[k] # v /\ Fault
    /\ cluster' = [cluster EXCEPT !.values[k] = v, !.rev = @ + 1, !.status = "updating"]
    /\ want' = [want EXCEPT ![k] = v]
    /\ UNCHANGED <<pending, applied, ids, enabled, pc, at, calls>>

Deleted ==
    /\ Exists /\ cluster.status = "deleting"
    /\ cluster' = NoCluster /\ pending' = FALSE /\ applied' = Defaults /\ want' = Defaults
    /\ UNCHANGED <<ids, enabled, pc, at, counts>>

-----------------------------------------------------------------------------
Step(c) ==
    \/ GetClusterByName(c) \/ GetClusterByID(c) \/ UpdateCluster(c) \/ UpdateAnswerLost(c)
    \/ UpdateConflict(c) \/ UpdateRefused(c) \/ ApproveClusterChangeRequests(c)
    \/ PollConvergence(c) \/ PollFails(c)
    \/ Lookup(c) \/ createCluster(c) \/ CreateClusterFromTemplate(c) \/ WaitForClusterReady(c)
    \/ Connect(c) \/ OpenTunnel(c) \/ EnableModules(c) \/ Find(c) \/ DeleteClusterByID(c)
    \/ CallFails(c)

Start(c) ==
    \/ Bootstrap(c) \/ Remove(c)
    \/ \E w \in Wishes : SetClusterInputValue(c, w[1], w[2])

Commander ==
    \/ Converges \/ FailsToConverge \/ TriesAgain \/ Deleted
    \/ \E w \in Wishes : OperatorEdits(w[1], w[2])

Finished == (\A c \in Clients : pc[c] \in Returned) /\ UNCHANGED vars

Next == (\E c \in Clients : Step(c) \/ Start(c) \/ WaitExpires(c)) \/ Commander \/ Finished

Spec == Init /\ [][Next]_vars

\* A call goes on; a wait that does not end otherwise ends by its deadline.
FairSpec ==
    /\ Spec
    /\ \A c \in Clients : WF_vars(Step(c)) /\ SF_vars(WaitExpires(c))

-----------------------------------------------------------------------------
(* Properties.                                                             *)

\* "so a concurrent Commander-side change does not lose the update"
\* (UpdateClusterValues): although a PUT replaces all values, every key has the value
\* that was asked for last, by whichever client or operator.
NoLostUpdate == Exists => cluster.values = want

\* SetClusterInputValueAndWait reports success only when the cluster has converged
\* to its value, unless somebody asked for another one since.
ConvergedMeansApplied ==
    [][\A c \in Clients : pc[c] = "poll" /\ pc'[c] = "ok" =>
            applied[at[c].key] = at[c].value \/ want[at[c].key] # at[c].value]_vars

\* "A failure status that sticks is the answer": the wait gives up on a failure only
\* when failureStatusPolls polls in a row have read it.
GivesUpOnlyWhenStuck ==
    [][\A c \in Clients : pc[c] = "poll" /\ pc'[c] = "stuck" =>
            LET seen == Seen(c, cluster.status) IN
            /\ Len(seen) = FailurePolls
            /\ \A i \in 1 .. FailurePolls :
                   isFailureStatus(seen[i]) /\ seen[i] = cluster.status]_vars

\* A Bootstrap that succeeds, with no Remove since it began, leaves a cluster that
\* has been ready and has its modules, whatever state it found the cluster in.
BootstrapDelivers ==
    [][\A c \in Clients : at[c].calm /\ pc[c] = "modules" /\ pc'[c] = "ok" =>
            /\ cluster.id \in enabled'
            /\ cluster.status \notin {"creating", "failed", "deleting"}]_vars

\* Every call returns: conflicts, failures that stick and clusters that have gone
\* included.
CallReturns ==
    \A c \in Clients :
        pc[c] \notin Returned ~> pc[c] \in Returned

\* "A cluster that is already gone is treated as success so teardown is idempotent"
\* (Remove): a Remove does not fail because the cluster has gone.
RemoveIsIdempotent ==
    [][\A c \in Clients : pc[c] = "delete" /\ pc'[c] = "error" => cluster.id = at[c].id]_vars

=============================================================================
