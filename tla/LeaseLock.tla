------------------------------ MODULE LeaseLock ------------------------------
(***************************************************************************)
(* The cluster lock of internal/kubernetes/clusterlock/lease.go: several   *)
(* test runs compete for one coordination.k8s.io Lease.  A run acquires it *)
(* through the retry wrapper of pkg/retry, renews it from a goroutine and  *)
(* releases it once; the lease of a dead run expires and is taken over.    *)
(*                                                                         *)
(* The API server holds one lease object, or none.  A write travels as a   *)
(* request in `net' and is served at some later moment; the client may     *)
(* have given up on it by then (timeout, broken connection, cancelled      *)
(* context, crash), and the answer of a served request may be lost.  A Get *)
(* and the write request derived from it are one step: what others do      *)
(* between a Get and the service of its write is what `net' interleaves.   *)
(*                                                                         *)
(* Time is counted in renewal periods (duration/3, lease.go:86), so every  *)
(* step of `clock' makes the ticker of each renewal goroutine fire once.   *)
(* Each run reads its own clock, which is off by Skew[r].                  *)
(***************************************************************************)
EXTENDS Integers

CONSTANTS
    Runs,           \* test processes; a run is its holder identity (user@host/pid)
    Nobody,         \* the holder of no lease, and of one left by an earlier process
    Duration,       \* lease duration in renewal periods (3 in the code)
    Skew,           \* what each run's clock is ahead of the true time
    MaxSkew,        \* bound on the difference of two runs' clocks
    LeftoverTimes,  \* RenewTimes a lease left by an earlier process may carry
    MaxRetries,     \* retry.Config.MaxRetries
    MaxFaults,      \* bound: API calls that fail in a behaviour
    MaxClock,       \* bound: last value of the clock
    LateRequests,   \* may a request its sender gave up on still be served?
    Timely          \* do renewals, releases and acquisitions beat the expiry?

ASSUME RunsAssumption == Nobody \notin Runs
ASSUME DurationAssumption == Duration \in Nat
ASSUME SkewAssumption == /\ Skew \in [Runs -> Int]
                         /\ MaxSkew \in Nat
                         /\ \A r, s \in Runs : Skew[s] - Skew[r] <= MaxSkew
ASSUME LeftoverAssumption == LeftoverTimes \subseteq Int
ASSUME BoundAssumption == /\ MaxRetries \in Nat
                          /\ MaxFaults \in Nat
                          /\ MaxClock \in Nat
                          /\ LateRequests \in BOOLEAN
                          /\ Timely \in BOOLEAN

VARIABLES
    clock,      \* true time
    lease,      \* the Lease object of the API server
    version,    \* source of fresh resourceVersions and UIDs
    net,        \* write requests not served yet
    faults,     \* failed calls so far
    pc,         \* where the main goroutine of a run is
    attempt,    \* attempt counter of retry.Do
    now,        \* timestamp of the run's latest write
    reply,      \* answer to the write the main goroutine waits for
    renewer,    \* the renewal goroutine
    ticked,     \* a tick waits in the ticker's channel
    granted,    \* history: RenewTime of the run's last write that was served
    wronged,    \* history: runs whose lease another run's Release deleted
    ended       \* history: local time at which the run stopped using the lock

apiVars == <<lease, version, net>>
runVars == <<pc, attempt, now, reply>>
renewVars == <<renewer, ticked>>
history == <<granted, wronged, ended>>
vars == <<clock, apiVars, faults, runVars, renewVars, history>>

-----------------------------------------------------------------------------
(* Objects and messages.                                                   *)

\* An absent lease has uid 0.
NoLease == [uid |-> 0, rv |-> 0, holder |-> Nobody, renew |-> 0]
Leases == [uid : Nat, rv : Nat, holder : Runs \cup {Nobody}, renew : Int]
Exists(l) == l.uid # 0

Requests == [op : {"create", "takeover", "renew", "delete"}, from : Runs,
             n : Nat, uid : Nat, rv : Nat, now : Int]

\* The write a goroutine of run r sends after it read the lease l.
Request(op, r, l, t) ==
    [op |-> op, from |-> r, n |-> attempt[r], uid |-> l.uid, rv |-> l.rv, now |-> t]

Acquiring == {"attempt", "get", "writing"}
Releasing == {"release", "deleting"}
PCs == {"held", "stopped"} \cup Acquiring \cup Releasing

Local(r) == clock + Skew[r]

\* Mutant: a lease expires one period early.
leaseExpiredEarly(l, t) == t >= l.renew + Duration

\* A lease without timestamps counts as expired: it is a leftover with a
\* RenewTime as old as one likes.
leaseExpired(l, t) == t > l.renew + Duration

-----------------------------------------------------------------------------
Init ==
    /\ clock = 0
    /\ version = 1
    /\ \/ lease = NoLease
       \/ \E t \in LeftoverTimes :
             lease = [uid |-> 1, rv |-> 1, holder |-> Nobody, renew |-> t]
    /\ net = {}
    /\ faults = 0
    /\ pc = [r \in Runs |-> "attempt"]
    /\ attempt = [r \in Runs |-> 0]
    /\ now = [r \in Runs |-> 0]
    /\ reply = [r \in Runs |-> "none"]
    /\ renewer = [r \in Runs |-> "off"]
    /\ ticked = [r \in Runs |-> FALSE]
    /\ granted = [r \in Runs |-> 0]
    /\ wronged = {}
    /\ ended = [r \in Runs |-> 0]

-----------------------------------------------------------------------------
(* What a call can do besides succeed.                                     *)

\* A goroutine of run q.from waits for the answer to q.
Awaited(q) ==
    \/ /\ q.op \in {"create", "takeover"}
       /\ pc[q.from] = "writing" /\ q.n = attempt[q.from]
    \/ /\ q.op = "delete"
       /\ pc[q.from] = "deleting" /\ q.n = attempt[q.from]
    \/ /\ q.op = "renew"
       /\ renewer[q.from] = "sent" /\ q.now = now[q.from]

\* Run r stops waiting: its request was lost, or is still on its way.
Abandon(r) ==
    /\ \/ LateRequests /\ net' = net
       \/ net' = {q \in net : ~(q.from = r /\ Awaited(q))}
    /\ UNCHANGED <<lease, version>>

\* The run is over for the lock, whatever it returns: locked out, failed,
\* released or dead.
Stop(r) ==
    /\ pc' = [pc EXCEPT ![r] = "stopped"]
    /\ attempt' = [attempt EXCEPT ![r] = 0]
    /\ now' = [now EXCEPT ![r] = 0]
    /\ reply' = [reply EXCEPT ![r] = "none"]
    /\ ended' = [ended EXCEPT ![r] = Local(r)]

\* A retryable error inside retry.Do: another attempt, or the last error.
Transient(r, again) ==
    /\ faults < MaxFaults
    /\ faults' = faults + 1
    /\ \/ /\ attempt[r] < MaxRetries
          /\ attempt' = [attempt EXCEPT ![r] = @ + 1]
          /\ pc' = [pc EXCEPT ![r] = again]
          /\ reply' = [reply EXCEPT ![r] = "none"]
          /\ UNCHANGED <<now, ended>>
       \/ /\ attempt[r] >= MaxRetries
          /\ Stop(r)
    /\ UNCHANGED <<clock, renewVars, granted, wronged>>

Send(q) == net' = net \cup {q} /\ UNCHANGED <<lease, version>>

-----------------------------------------------------------------------------
(* Acquiring.                                                              *)

BeginAttempt(r) ==
    /\ pc[r] = "attempt"
    /\ now' = [now EXCEPT ![r] = Local(r)]
    /\ pc' = [pc EXCEPT ![r] = "get"]
    /\ UNCHANGED <<clock, apiVars, faults, attempt, reply, renewVars, history>>

tryAcquireLease(r) ==
    /\ pc[r] = "get"
    /\ \/ /\ ~Exists(lease)
          /\ Send(Request("create", r, NoLease, now[r]))
          /\ pc' = [pc EXCEPT ![r] = "writing"]
          /\ UNCHANGED <<attempt, now, reply, ended>>
       \/ /\ Exists(lease) /\ leaseExpired(lease, now[r])
          /\ Send(Request("takeover", r, lease, now[r]))
          /\ pc' = [pc EXCEPT ![r] = "writing"]
          /\ UNCHANGED <<attempt, now, reply, ended>>
       \/ /\ Exists(lease) /\ ~leaseExpired(lease, now[r])
          /\ Stop(r)
          /\ UNCHANGED apiVars
    /\ UNCHANGED <<clock, faults, renewVars, granted, wronged>>

AcquireCallFails(r) ==
    /\ pc[r] \in {"get", "writing"}
    /\ Transient(r, "attempt")
    /\ Abandon(r)

\* Mutant: AlreadyExists and Conflict count as success.
AcquiredAnyway(r) ==
    /\ pc[r] = "writing" /\ reply[r] # "none"
    /\ pc' = [pc EXCEPT ![r] = "held"]
    /\ reply' = [reply EXCEPT ![r] = "none"]
    /\ renewer' = [renewer EXCEPT ![r] = "idle"]
    /\ UNCHANGED <<clock, apiVars, faults, attempt, now, ticked, history>>

\* The lock is ours: start the renewal goroutine.
Acquired(r) ==
    /\ pc[r] = "writing" /\ reply[r] = "ok"
    /\ pc' = [pc EXCEPT ![r] = "held"]
    /\ reply' = [reply EXCEPT ![r] = "none"]
    /\ renewer' = [renewer EXCEPT ![r] = "idle"]
    /\ UNCHANGED <<clock, apiVars, faults, attempt, now, ticked, history>>

\* Another run created or updated the lease first (lockedError, which reads it
\* for its message; when that read fails the error is retryable, and the step is
\* AcquireCallFails), or deleted it before our update (a plain error).
Refused(r) ==
    /\ pc[r] = "writing" /\ reply[r] \in {"conflict", "notfound"}
    /\ Stop(r)
    /\ UNCHANGED <<clock, apiVars, faults, renewVars, granted, wronged>>

\* The context is cancelled, or an error is not retryable.
AcquireAborts(r) ==
    /\ pc[r] \in Acquiring
    /\ Stop(r)
    /\ Abandon(r)
    /\ UNCHANGED <<clock, faults, renewVars, granted, wronged>>

-----------------------------------------------------------------------------
(* Renewing.                                                               *)

renew(r) ==
    /\ renewer[r] = "idle" /\ ticked[r]
    /\ ticked' = [ticked EXCEPT ![r] = FALSE]
    /\ \/ /\ Exists(lease) /\ lease.holder = r
          /\ Send(Request("renew", r, lease, Local(r)))
          /\ now' = [now EXCEPT ![r] = Local(r)]
          /\ renewer' = [renewer EXCEPT ![r] = "sent"]
       \/ /\ ~(Exists(lease) /\ lease.holder = r)
          /\ UNCHANGED <<apiVars, now, renewer>>
    /\ UNCHANGED <<clock, faults, pc, attempt, reply, history>>

\* The Get of a renewal fails: the tick is lost, nothing else happens.
RenewGetFails(r) ==
    /\ renewer[r] = "idle" /\ ticked[r]
    /\ faults < MaxFaults
    /\ faults' = faults + 1
    /\ ticked' = [ticked EXCEPT ![r] = FALSE]
    /\ UNCHANGED <<clock, apiVars, runVars, renewer, history>>

\* The Update of a renewal was answered; the answer is only logged.
RenewReturns(r) ==
    /\ renewer[r] = "sent"
    /\ \A q \in net : q.from = r => ~Awaited(q)
    /\ renewer' = [renewer EXCEPT ![r] = "idle"]
    /\ UNCHANGED <<clock, apiVars, faults, runVars, ticked, history>>

\* renewRequestTimeout, or a broken connection.
RenewTimesOut(r) ==
    /\ renewer[r] = "sent"
    /\ faults < MaxFaults
    /\ faults' = faults + 1
    /\ Abandon(r)
    /\ renewer' = [renewer EXCEPT ![r] = "idle"]
    /\ UNCHANGED <<clock, runVars, ticked, history>>

-----------------------------------------------------------------------------
(* Releasing.                                                              *)

\* Mutant: the renewal goroutine is not cancelled.
BeginReleaseRenewing(r) ==
    /\ pc[r] = "held"
    /\ pc' = [pc EXCEPT ![r] = "release"]
    /\ attempt' = [attempt EXCEPT ![r] = 0]
    /\ UNCHANGED <<clock, apiVars, faults, now, reply, renewVars, history>>

\* Release cancels the renewal goroutine, and the request it may be waiting for,
\* and waits until it is gone.
BeginRelease(r) ==
    /\ pc[r] = "held"
    /\ pc' = [pc EXCEPT ![r] = "release"]
    /\ attempt' = [attempt EXCEPT ![r] = 0]
    /\ renewer' = [renewer EXCEPT ![r] = "off"]
    /\ ticked' = [ticked EXCEPT ![r] = FALSE]
    /\ Abandon(r)
    /\ UNCHANGED <<clock, faults, now, reply, history>>

\* Mutant: a lease that is gone is not taken as the end of a release.
ReleaseGetOwn(r) ==
    /\ pc[r] = "release"
    /\ Exists(lease) /\ lease.holder = r
    /\ Send(Request("delete", r, lease, Local(r)))
    /\ pc' = [pc EXCEPT ![r] = "deleting"]
    /\ UNCHANGED <<attempt, now, reply, ended, clock, faults, renewVars, granted, wronged>>

ReleaseGet(r) ==
    /\ pc[r] = "release"
    /\ \/ /\ Exists(lease) /\ lease.holder = r
          /\ Send(Request("delete", r, lease, Local(r)))
          /\ pc' = [pc EXCEPT ![r] = "deleting"]
          /\ UNCHANGED <<attempt, now, reply, ended>>
       \/ /\ ~(Exists(lease) /\ lease.holder = r)
          /\ Stop(r)
          /\ UNCHANGED apiVars
    /\ UNCHANGED <<clock, faults, renewVars, granted, wronged>>

\* Deleted; NotFound and Conflict count as success too.
Deleted(r) ==
    /\ pc[r] = "deleting" /\ reply[r] # "none"
    /\ Stop(r)
    /\ UNCHANGED <<clock, apiVars, faults, renewVars, granted, wronged>>

ReleaseCallFails(r) ==
    /\ pc[r] \in Releasing
    /\ Transient(r, "release")
    /\ Abandon(r)

ReleaseAborts(r) ==
    /\ pc[r] \in Releasing
    /\ Stop(r)
    /\ Abandon(r)
    /\ UNCHANGED <<clock, faults, renewVars, granted, wronged>>

-----------------------------------------------------------------------------
(* The process dies; the API server; time.                                 *)

Crash(r) ==
    /\ pc[r] # "stopped"
    /\ Stop(r)
    /\ Abandon(r)
    /\ renewer' = [renewer EXCEPT ![r] = "off"]
    /\ ticked' = [ticked EXCEPT ![r] = FALSE]
    /\ UNCHANGED <<clock, faults, granted, wronged>>

\* The server accepts a create when there is no lease, an update of the version
\* it holds, a delete of the UID it holds (the precondition of Release).
Accepts(q) ==
    \/ q.op = "create" /\ ~Exists(lease)
    \/ q.op \in {"takeover", "renew"} /\ Exists(lease) /\ q.rv = lease.rv
    \/ q.op = "delete" /\ Exists(lease) /\ q.uid = lease.uid

\* newLease and applyLeaseSpec: the object a create or an update stores.
Written(q) ==
    [uid |-> IF q.op = "create" THEN version + 1 ELSE lease.uid,
     rv |-> version + 1, holder |-> q.from, renew |-> q.now]

Answer(q) ==
    IF Accepts(q) THEN "ok"
    ELSE IF Exists(lease) THEN "conflict" ELSE "notfound"

Serve(q) ==
    /\ q \in net
    /\ net' = net \ {q}
    /\ reply' = IF q.op # "renew" /\ Awaited(q)
                THEN [reply EXCEPT ![q.from] = Answer(q)] ELSE reply
    /\ \/ /\ Accepts(q) /\ q.op # "delete"
          /\ version' = version + 1
          /\ lease' = Written(q)
          /\ granted' = [granted EXCEPT ![q.from] = q.now]
          /\ wronged' = wronged \ {q.from}
       \/ /\ Accepts(q) /\ q.op = "delete"
          /\ lease' = NoLease
          /\ wronged' = wronged \cup ({lease.holder} \ {q.from})
          /\ UNCHANGED <<version, granted>>
       \/ /\ ~Accepts(q)
          /\ UNCHANGED <<lease, version, granted, wronged>>
    /\ UNCHANGED <<clock, faults, pc, attempt, now, renewVars, ended>>

\* Every lease of a live run, and every acquisition under way, still has time
\* left at t on every run's clock.
InTime(t) ==
    \A r, s \in Runs :
        /\ pc[r] \in {"held"} \cup Releasing /\ lease.holder = r
              => ~leaseExpired(lease, t + Skew[s])
        /\ pc[r] \in {"get", "writing"} => t + Skew[s] <= now[r] + Duration

Tick ==
    /\ clock < MaxClock
    /\ Timely => InTime(clock + 1)
    /\ clock' = clock + 1
    /\ ticked' = [r \in Runs |-> ticked[r] \/ renewer[r] # "off"]
    /\ UNCHANGED <<apiVars, faults, runVars, renewer, history>>

-----------------------------------------------------------------------------
Acquire(r) ==
    \/ BeginAttempt(r) \/ tryAcquireLease(r) \/ Acquired(r) \/ Refused(r)

Renewal(r) == renew(r) \/ RenewReturns(r)

Release(r) == BeginRelease(r) \/ ReleaseGet(r) \/ Deleted(r)

Trouble(r) ==
    \/ AcquireCallFails(r) \/ AcquireAborts(r) \/ RenewGetFails(r)
    \/ RenewTimesOut(r) \/ ReleaseCallFails(r) \/ ReleaseAborts(r) \/ Crash(r)

Next ==
    \/ \E r \in Runs : Acquire(r) \/ Renewal(r) \/ Release(r) \/ Trouble(r)
    \/ \E q \in net : Serve(q)
    \/ Tick

Spec == Init /\ [][Next]_vars

-----------------------------------------------------------------------------
(* Properties.                                                             *)

\* Every variable stays within its type (the fields of LeaseLock, the Lease spec
\* that applyLeaseSpec writes, the states of retry.Do and renewLoop).
TypeOK ==
    /\ clock \in Int
    /\ lease \in Leases
    /\ version \in Nat
    /\ net \subseteq Requests
    /\ faults \in Nat
    /\ pc \in [Runs -> PCs]
    /\ attempt \in [Runs -> Nat]
    /\ now \in [Runs -> Int]
    /\ reply \in [Runs -> {"none", "ok", "conflict", "notfound"}]
    /\ renewer \in [Runs -> {"off", "idle", "sent"}]
    /\ ticked \in [Runs -> BOOLEAN]
    /\ granted \in [Runs -> Int]
    /\ wronged \subseteq Runs \cup {Nobody}
    /\ ended \in [Runs -> Int]

\* Run r has the lock and its last RenewTime the server stored is, on its own
\* clock, younger than the lease duration less the skew of the clocks.
Covered(r) ==
    /\ pc[r] = "held"
    /\ Local(r) <= granted[r] + Duration - MaxSkew

\* What the lease promises: of two runs that AcquireLease told they have the lock,
\* at most one is within the duration of its last renewal, whatever calls fail, are
\* delayed or are repeated.  The only exception is a run whose lease another run's
\* Release deleted (see ReleaseDeletesOwnLease).
LeaseGuarantee ==
    \A r, s \in Runs :
        r # s /\ Covered(r) /\ Covered(s) => r \in wronged \/ s \in wronged

\* The lease of a run that crashed, failed or closed carries no RenewTime later
\* than the moment it stopped, although its requests may still arrive: "a stale
\* lock from a dead run self-expires" (Connect), and so does one that a lost
\* answer left behind.
StaleLockExpires ==
    \A r \in Runs :
        pc[r] = "stopped" /\ Exists(lease) /\ lease.holder = r => lease.renew <= ended[r]

\* The lease passes from one holder to another only when it has expired at that
\* moment on the new holder's clock: a renewal between the Get and the Update of a
\* takeover (tryAcquireLease) makes the takeover fail.
TakeoverOnlyWhenExpired ==
    [][/\ Exists(lease) /\ Exists(lease')
       /\ lease'.uid = lease.uid /\ lease'.holder # lease.holder
       => Local(lease'.holder) > lease.renew + Duration]_vars

\* When renewals, releases and acquisitions are in time (Timely) and no request
\* outlives its sender's patience, at most one run uses the cluster, and its lease
\* is in the API server under its name.
OneRunUsesTheCluster ==
    \A r \in Runs : pc[r] = "held" => Exists(lease) /\ lease.holder = r

\* "Release stops the renewal and deletes the lease if still held by us"
\* (lease.go:144): Release never deletes a lease that another run holds.
ReleaseDeletesOwnLease == wronged = {}

=============================================================================
