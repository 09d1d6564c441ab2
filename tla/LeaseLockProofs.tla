--------------------------- MODULE LeaseLockProofs ---------------------------
(***************************************************************************)
(* Proofs about LeaseLock and about E2eConnect, which uses the lock, for   *)
(* any set of runs, duration, clock skew and number of retries and faults: *)
(*   - what the lock guarantees whatever is late, by the invariant IInv;   *)
(*   - that one run at a time uses the cluster when requests are in time,  *)
(*     by TimelyInv;                                                       *)
(*   - that a suite which goes through Connect and Close uses the lock as  *)
(*     LeaseLock says, so that all of this holds of every suite, and that  *)
(*     the lock never outlives the suite's connection, by E2eInv.          *)
(***************************************************************************)
EXTENDS E2eConnect, SequenceTheorems, TLAPS

\* resourceVersions come from one growing counter.
VersionsGrow ==
    /\ lease.rv <= version
    /\ \A q \in net : q.rv <= version

\* Requests and leases carry times their sender's clock has reached.
TimesArePast ==
    /\ \A q \in net : q.now <= Local(q.from)
    /\ \A r \in Runs : pc[r] \in {"get", "writing"} => now[r] <= Local(r)
    /\ \A r \in Runs : Exists(lease) /\ lease.holder = r => lease.renew <= Local(r)

\* An update that the server would accept still says the truth about the lease: a
\* takeover that it has expired, a renewal that its sender holds it.
UpdatesAreCurrent ==
    \A q \in net : Exists(lease) /\ q.rv = lease.rv =>
        /\ q.op = "takeover" => q.now > lease.renew + Duration
        /\ q.op = "renew" => lease.holder = q.from

\* What a goroutine does depends on where the run is.
Goroutines ==
    /\ \A r \in Runs : renewer[r] # "off" => pc[r] = "held"
    /\ \A r \in Runs : reply[r] # "none" => pc[r] \in {"writing", "deleting"}
    /\ \A q \in net : q.op = "delete" => pc[q.from] \in Releasing \cup {"stopped"}

\* The server accepted a write that gave run r the lock.
HasLock(r) == pc[r] = "held" \/ (pc[r] = "writing" /\ reply[r] = "ok")

\* As long as its grant lasts, the lease of a run that has the lock is in the
\* server, in its name and with the time of the grant.
GrantIsBacked ==
    \A r \in Runs :
        /\ HasLock(r)
        /\ r \notin wronged
        /\ Local(r) <= granted[r] + Duration - MaxSkew
        => Exists(lease) /\ lease.holder = r /\ lease.renew = granted[r]

\* A stopped run has written, and will write, only times before it stopped.
StoppedRunsArePast ==
    \A r \in Runs : pc[r] = "stopped" =>
        /\ Exists(lease) /\ lease.holder = r => lease.renew <= ended[r]
        /\ \A q \in net : q.from = r /\ q.op # "delete" => q.now <= ended[r]

IInv ==
    /\ TypeOK
    /\ VersionsGrow
    /\ TimesArePast
    /\ UpdatesAreCurrent
    /\ Goroutines
    /\ GrantIsBacked
    /\ StoppedRunsArePast

-----------------------------------------------------------------------------
\* A request built from a lease that was read is a well-formed request.
LEMMA RequestType ==
    ASSUME TypeOK, NEW r \in Runs, NEW l \in Leases, NEW t \in Int,
           NEW op \in {"create", "takeover", "renew", "delete"}
    PROVE  Request(op, r, l, t) \in Requests
BY Zenon DEF TypeOK, Leases, Requests, Request

\* Every step keeps every variable in its type.
LEMMA TypeStep == TypeOK /\ [Next]_vars => TypeOK'
<1> SUFFICES ASSUME TypeOK, [Next]_vars PROVE TypeOK'
  OBVIOUS
<1> USE SkewAssumption DEF TypeOK, PCs, Acquiring, Releasing,
      history, renewVars, runVars, apiVars, Local
<1>0. /\ NoLease \in Leases
      /\ \A r \in Runs, l \in Leases, t \in Int,
            op \in {"create", "takeover", "renew", "delete"} :
               Request(op, r, l, t) \in Requests
  BY RequestType DEF NoLease, Leases
<1>1. ASSUME NEW r \in Runs PROVE Acquire(r) => TypeOK'
  <2>1. BeginAttempt(r) => TypeOK'
    BY DEF BeginAttempt
  <2>2. ASSUME tryAcquireLease(r) PROVE TypeOK'
    <3>1. net' \subseteq Requests
      BY <1>0, <2>2 DEF tryAcquireLease, Send
    <3> QED BY <2>2, <3>1 DEF tryAcquireLease, Send, Stop
  <2>3. Acquired(r) => TypeOK'
    BY Zenon DEF Acquired
  <2>4. Refused(r) => TypeOK'
    BY DEF Refused, Stop
  <2> QED BY Zenon, <2>1, <2>2, <2>3, <2>4 DEF Acquire
<1>2. ASSUME NEW r \in Runs PROVE Renewal(r) => TypeOK'
  <2>1. renew(r) => TypeOK'
    BY <1>0 DEF renew, Send
  <2>2. RenewReturns(r) => TypeOK'
    BY Zenon DEF RenewReturns
  <2> QED BY Zenon, <2>1, <2>2 DEF Renewal
<1>3. ASSUME NEW r \in Runs PROVE Release(r) => TypeOK'
  <2>1. BeginRelease(r) => TypeOK'
    BY SMTT(30) DEF BeginRelease, Abandon
  <2>2. ASSUME ReleaseGet(r) PROVE TypeOK'
    <3>1. net' \subseteq Requests
      BY <1>0, <2>2 DEF ReleaseGet, Send
    <3> QED BY <2>2, <3>1 DEF ReleaseGet, Send, Stop
  <2>3. Deleted(r) => TypeOK'
    BY DEF Deleted, Stop
  <2> QED BY Zenon, <2>1, <2>2, <2>3 DEF Release
<1>4. ASSUME NEW r \in Runs PROVE Trouble(r) => TypeOK'
  <2>1. AcquireCallFails(r) => TypeOK'
    BY SMTT(30) DEF AcquireCallFails, Transient, Stop, Abandon
  <2>2. AcquireAborts(r) => TypeOK'
    BY SMTT(30) DEF AcquireAborts, Stop, Abandon
  <2>3. RenewGetFails(r) => TypeOK'
    BY DEF RenewGetFails
  <2>4. RenewTimesOut(r) => TypeOK'
    BY SMTT(30) DEF RenewTimesOut, Abandon
  <2>5. ReleaseCallFails(r) => TypeOK'
    BY SMTT(30) DEF ReleaseCallFails, Transient, Stop, Abandon
  <2>6. ReleaseAborts(r) => TypeOK'
    BY SMTT(30) DEF ReleaseAborts, Stop, Abandon
  <2>7. Crash(r) => TypeOK'
    BY DEF Crash, Stop, Abandon
  <2> QED BY Zenon, <2>1, <2>2, <2>3, <2>4, <2>5, <2>6, <2>7 DEF Trouble
<1>5. ASSUME NEW q \in net, Serve(q) PROVE TypeOK'
  <2>1. q \in Requests
    OBVIOUS
  <2>2. lease' \in Leases
    <3>1. q.from \in Runs /\ q.now \in Int /\ lease.uid \in Nat
      BY Zenon, <2>1 DEF Requests, Leases
    <3>2. Written(q) \in Leases
      BY <3>1 DEF Written, Leases
    <3> QED BY Zenon, <1>0, <1>5, <3>2 DEF Serve
  <2>3. reply' \in [Runs -> {"none", "ok", "conflict", "notfound"}]
    BY Zenon, <1>5, <2>1 DEF Serve, Answer, Requests
  <2>4. wronged' \subseteq Runs \cup {Nobody}
    BY Zenon, <1>5, <2>1 DEF Serve, Leases
  <2> QED BY <1>5, <2>1, <2>2, <2>3, <2>4 DEF Serve, Requests
<1>6. CASE Tick
  BY <1>6 DEF Tick
<1>7. CASE UNCHANGED vars
  BY Zenon, <1>7 DEF vars
<1> QED BY Zenon, <1>1, <1>2, <1>3, <1>4, <1>5, <1>6, <1>7 DEF Next

\* The variables of the lock always have their types.
THEOREM TypeCorrect == Spec => []TypeOK
<1>1. Init => TypeOK
  BY RunsAssumption, LeftoverAssumption, SkewAssumption
     DEF Init, TypeOK, Leases, NoLease, Requests, PCs, Acquiring, Releasing
<1> QED BY <1>1, TypeStep, PTL DEF Spec

-----------------------------------------------------------------------------
(* The steps of a run.  They leave the server alone but may send a request *)
(* that says the truth at that moment.                                     *)

Truthful(q, r) ==
    /\ q.from = r /\ q.now <= Local(r) /\ q.rv <= version
    /\ q.op = "takeover" => Exists(lease) /\ q.now > lease.renew + Duration
    /\ q.op = "renew" => lease.holder = r
    /\ q.op = "delete" => pc'[r] = "deleting"

RunStep(r) ==
    /\ UNCHANGED <<clock, lease, version, granted, wronged>>
    /\ \A s \in Runs \ {r} :
          /\ pc'[s] = pc[s] /\ reply'[s] = reply[s] /\ renewer'[s] = renewer[s]
          /\ now'[s] = now[s] /\ ended'[s] = ended[s]
    /\ pc[r] # "stopped"
    /\ pc[r] \in Releasing => pc'[r] \in Releasing \cup {"stopped"}
    /\ pc'[r] \in {"get", "writing"} => now'[r] <= Local(r)
    /\ pc'[r] = "stopped" => ended'[r] = Local(r) /\ net' \subseteq net
    /\ renewer'[r] # "off" => pc'[r] = "held"
    /\ reply'[r] # "none" => pc'[r] \in {"writing", "deleting"}
    /\ HasLock(r)' => HasLock(r)
    /\ \A q \in net' : q \in net \/ Truthful(q, r)

\* Each action of a run is such a step.
LEMMA ActionsAreRunSteps ==
    ASSUME IInv, TypeOK', NEW r \in Runs,
           Acquire(r) \/ Renewal(r) \/ Release(r) \/ Trouble(r)
    PROVE  RunStep(r)
<1> DEFINE Answers == {"none", "ok", "conflict", "notfound"}
<1>0. /\ clock \in Int /\ version \in Nat /\ lease \in Leases /\ Skew[r] \in Int
      /\ pc \in [Runs -> PCs] /\ now \in [Runs -> Int] /\ reply \in [Runs -> Answers]
      /\ renewer \in [Runs -> {"off", "idle", "sent"}] /\ ended \in [Runs -> Int]
      /\ lease.rv \in Nat /\ lease.rv <= version
  BY Zenon, SkewAssumption DEF IInv, TypeOK, Leases, VersionsGrow
<1>17. /\ renewer[r] # "off" => pc[r] = "held"
       /\ reply[r] # "none" => pc[r] \in {"writing", "deleting"}
       /\ pc[r] \in {"get", "writing"} => now[r] <= clock + Skew[r]
  BY Zenon DEF IInv, Goroutines, TimesArePast, Local
<1> USE DEF RunStep, HasLock, Local, Releasing
<1>1. BeginAttempt(r) => RunStep(r)
  BY <1>0, <1>17, SMTT(30) DEF BeginAttempt, apiVars, renewVars, history
<1>2. tryAcquireLease(r) => RunStep(r)
  BY <1>0, <1>17, SMTT(30) DEF tryAcquireLease, apiVars, renewVars, Send, Request, Stop, NoLease, Truthful, leaseExpired
<1>3. Acquired(r) => RunStep(r)
  BY <1>0, <1>17, SMTT(30) DEF Acquired, apiVars, history
<1>4. Refused(r) => RunStep(r)
  BY <1>0, <1>17, SMTT(30) DEF Refused, apiVars, renewVars, Stop
<1>5. renew(r) => RunStep(r)
  BY <1>0, <1>17, SMTT(30) DEF renew, apiVars, history, Send, Request, Truthful
<1>6. RenewReturns(r) => RunStep(r)
  BY <1>0, <1>17, SMTT(30) DEF RenewReturns, apiVars, runVars, history
<1>7. BeginRelease(r) => RunStep(r)
  BY <1>0, <1>17, SMTT(30) DEF BeginRelease, history, Abandon
<1>8. ReleaseGet(r) => RunStep(r)
  BY <1>0, <1>17, SMTT(30) DEF ReleaseGet, apiVars, renewVars, Send, Request, Stop, Truthful
<1>9. Deleted(r) => RunStep(r)
  BY <1>0, <1>17, SMTT(30) DEF Deleted, apiVars, renewVars, Stop
<1>10. AcquireCallFails(r) => RunStep(r)
  BY <1>0, <1>17, SMTT(30) DEF AcquireCallFails, renewVars, Transient, Stop, Abandon
<1>11. AcquireAborts(r) => RunStep(r)
  BY <1>0, <1>17, SMTT(30) DEF AcquireAborts, renewVars, Acquiring, Stop, Abandon
<1>12. RenewGetFails(r) => RunStep(r)
  BY <1>0, <1>17, SMTT(30) DEF RenewGetFails, apiVars, runVars, history
<1>13. RenewTimesOut(r) => RunStep(r)
  BY <1>0, <1>17, SMTT(30) DEF RenewTimesOut, runVars, history, Abandon
<1>14. ReleaseCallFails(r) => RunStep(r)
  BY <1>0, <1>17, SMTT(30) DEF ReleaseCallFails, renewVars, Transient, Stop, Abandon
<1>15. ReleaseAborts(r) => RunStep(r)
  BY <1>0, <1>17, SMTT(30) DEF ReleaseAborts, renewVars, Stop, Abandon
<1>16. Crash(r) => RunStep(r)
  BY <1>0, <1>17, SMTT(30) DEF Crash, Stop, Abandon
<1> HIDE DEF RunStep
<1> QED BY Zenon, <1>1, <1>2, <1>3, <1>4, <1>5, <1>6, <1>7, <1>8, <1>9, <1>10, <1>11, <1>12,
   <1>13, <1>14, <1>15, <1>16
        DEF Acquire, Renewal, Release, Trouble

\* A step of a run preserves the inductive invariant.
LEMMA RunStepKeepsInv ==
    ASSUME IInv, TypeOK', NEW r \in Runs, RunStep(r)
    PROVE  IInv'
<1> USE SkewAssumption DEF IInv, RunStep, Truthful, Local
<1>1. /\ clock \in Int /\ version \in Nat /\ lease.renew \in Int
      /\ \A s \in Runs : Skew[s] \in Int
      /\ \A q \in net' : q.from \in Runs /\ q.now \in Int
  BY DEF TypeOK, Leases, Requests
<1>2. VersionsGrow'
  BY Zenon DEF VersionsGrow
<1>3. TimesArePast'
  BY Zenon, <1>1 DEF TimesArePast, Exists
<1>4. UpdatesAreCurrent'
  BY Zenon, <1>1 DEF UpdatesAreCurrent, Exists
<1>5. Goroutines'
  BY <1>1, SMTT(30) DEF Goroutines, Releasing
<1>6. GrantIsBacked'
  BY DEF GrantIsBacked, HasLock, Exists
<1>7. StoppedRunsArePast'
  BY <1>1, <1>3, SMTT(30) DEF StoppedRunsArePast, TimesArePast, Exists
<1> QED BY Zenon, <1>2, <1>3, <1>4, <1>5, <1>6, <1>7

\* Serving a request preserves the inductive invariant.  Here the lease changes
\* hands: optimistic concurrency keeps the truth of a request until it is served.
LEMMA ServeKeepsInv ==
    ASSUME IInv, TypeOK', NEW q \in net, Serve(q)
    PROVE  IInv'
<1> USE SkewAssumption DEF IInv, Local
<1>1. /\ clock \in Int /\ version \in Nat /\ Duration \in Int
      /\ lease.uid \in Nat /\ lease.rv \in Nat /\ lease.renew \in Int
      /\ \A s \in Runs : Skew[s] \in Int /\ granted[s] \in Int
      /\ \A p \in net : /\ p.from \in Runs /\ p.now \in Int /\ p.rv \in Nat
                        /\ p.op \in {"create", "takeover", "renew", "delete"}
  BY DurationAssumption DEF TypeOK, Leases, Requests
<1>2. /\ net' \subseteq net
      /\ UNCHANGED <<clock, pc, now, renewer, ended>>
      /\ granted \in [Runs -> Int] /\ reply \in [Runs -> {"none", "ok", "conflict", "notfound"}]
  BY Zenon DEF Serve, renewVars, TypeOK
<1>3. \/ /\ Accepts(q) /\ q.op # "delete"
         /\ version' = version + 1 /\ lease' = Written(q)
         /\ granted' = [granted EXCEPT ![q.from] = q.now]
         /\ wronged' = wronged \ {q.from}
      \/ /\ Accepts(q) /\ q.op = "delete"
         /\ lease' = NoLease
         /\ wronged' = wronged \cup ({lease.holder} \ {q.from})
         /\ UNCHANGED <<version, granted>>
      \/ /\ ~Accepts(q)
         /\ UNCHANGED <<lease, version, granted, wronged>>
  BY Zenon DEF Serve
<1>4. \A r \in Runs : \/ reply'[r] = reply[r]
                      \/ r = q.from /\ q.op # "renew" /\ Awaited(q) /\ reply'[r] = Answer(q)
  BY Zenon, <1>1, <1>2 DEF Serve
<1>5. VersionsGrow'
  BY <1>1, <1>2, <1>3 DEF VersionsGrow, Written, NoLease
<1>6. TimesArePast'
  BY <1>1, <1>2, <1>3, SMTT(30) DEF TimesArePast, Written, NoLease, Exists
<1>7. UpdatesAreCurrent'
  BY <1>1, <1>2, <1>3 DEF UpdatesAreCurrent, VersionsGrow, Written, NoLease, Exists
<1>8. Goroutines'
  BY <1>1, <1>2, <1>4 DEF Goroutines, Awaited
<1>9. GrantIsBacked'
  <2> SUFFICES ASSUME NEW r \in Runs, HasLock(r)', r \notin wronged',
                      clock + Skew[r] <= granted'[r] + Duration - MaxSkew
               PROVE  Exists(lease') /\ lease'.holder = r /\ lease'.renew = granted'[r]
    BY Zenon, <1>2 DEF GrantIsBacked
  <2>1. CASE Accepts(q) /\ q.op # "delete" /\ q.from = r
    <3>1. lease' = Written(q) /\ granted' = [granted EXCEPT ![q.from] = q.now]
      BY Zenon, <2>1, <1>3
    <3>2. granted'[r] = q.now
      BY Zenon, <2>1, <3>1, <1>2
    <3>3. Written(q).uid # 0
      <4>1. CASE q.op = "create"
        BY <4>1, <1>1 DEF Written
      <4>2. CASE q.op \in {"takeover", "renew"}
        BY Zenon, <4>2, <2>1 DEF Written, Accepts, Exists
      <4> QED BY Zenon, <4>1, <4>2, <2>1, <1>1
    <3> QED BY Zenon, <2>1, <3>1, <3>2, <3>3 DEF Written, Exists
  <2>2. CASE ~(Accepts(q) /\ q.op # "delete" /\ q.from = r)
    <3>1. HasLock(r) /\ granted'[r] = granted[r] /\ r \notin wronged
      BY <2>2, <1>1, <1>2, <1>3, <1>4, SMTT(30) DEF HasLock, Awaited, Answer, Releasing, Goroutines
    <3>2. Exists(lease) /\ lease.holder = r /\ lease.renew = granted[r]
      BY Zenon, <3>1 DEF GrantIsBacked
    <3>3. CASE Accepts(q) /\ q.op # "delete" /\ q.from # r
      <4>1. q.op = "takeover" => FALSE
        BY <3>1, <3>2, <3>3, <1>1 DEF Accepts, UpdatesAreCurrent, TimesArePast
      <4>2. q.op = "renew" => FALSE
        BY Zenon, <3>2, <3>3 DEF Accepts, UpdatesAreCurrent
      <4>3. q.op = "create" => FALSE
        BY Zenon, <3>2, <3>3 DEF Accepts
      <4> QED BY Zenon, <3>3, <4>1, <4>2, <4>3, <1>1
    <3>4. CASE Accepts(q) /\ q.op = "delete"
      BY Zenon, <3>1, <3>2, <3>4, <1>2, <1>3 DEF Goroutines, HasLock, Releasing
    <3>5. CASE ~Accepts(q)
      BY Zenon, <3>1, <3>2, <3>5, <1>3
    <3> QED BY Zenon, <2>2, <3>3, <3>4, <3>5
  <2> QED BY Zenon, <2>1, <2>2
<1>10. StoppedRunsArePast'
  BY <1>1, <1>2, <1>3, SMTT(30) DEF StoppedRunsArePast, Written, NoLease, Exists
<1> QED BY Zenon, <1>5, <1>6, <1>7, <1>8, <1>9, <1>10

\* Every step preserves the inductive invariant.
LEMMA InvStep == IInv /\ [Next]_vars => IInv'
<1> SUFFICES ASSUME IInv, [Next]_vars PROVE IInv'
  OBVIOUS
<1>0. TypeOK'
  BY Zenon, TypeStep DEF IInv
<1>1. ASSUME NEW r \in Runs, Acquire(r) \/ Renewal(r) \/ Release(r) \/ Trouble(r)
      PROVE  IInv'
  BY Zenon, <1>0, <1>1, ActionsAreRunSteps, RunStepKeepsInv
<1>2. ASSUME NEW q \in net, Serve(q) PROVE IInv'
  BY Zenon, <1>0, <1>2, ServeKeepsInv
<1>3. CASE Tick
  <2>1. /\ clock \in Int /\ clock' = clock + 1 /\ Duration \in Int /\ lease.renew \in Int
        /\ \A s \in Runs : /\ Skew[s] \in Int /\ granted[s] \in Int /\ now[s] \in Int
                           /\ Local(s)' = Local(s) + 1 /\ Local(s) \in Int
        /\ \A q \in net : q.from \in Runs /\ q.now \in Int
    BY <1>3, SkewAssumption, DurationAssumption DEF Tick, IInv, TypeOK, Leases, Requests, Local
  <2>2. UNCHANGED <<lease, version, net, pc, now, reply, renewer, granted, wronged, ended>>
    BY Zenon, <1>3 DEF Tick, apiVars, runVars, history
  <2>3. TimesArePast'
    BY <2>1, <2>2, SMTT(30) DEF IInv, TimesArePast, Exists
  <2>4. GrantIsBacked'
    BY <2>1, <2>2, SkewAssumption DEF IInv, GrantIsBacked, HasLock, Exists
  <2>5. VersionsGrow' /\ UpdatesAreCurrent' /\ Goroutines' /\ StoppedRunsArePast'
    BY Zenon, <2>2 DEF IInv, VersionsGrow, UpdatesAreCurrent, Goroutines, StoppedRunsArePast, Exists
  <2> QED BY Zenon, <1>0, <2>3, <2>4, <2>5 DEF IInv
<1>4. CASE UNCHANGED vars
  BY Zenon, <1>0, <1>4 DEF vars, apiVars, runVars, renewVars, history, IInv, VersionsGrow,
     TimesArePast, UpdatesAreCurrent, Goroutines, GrantIsBacked, StoppedRunsArePast,
     Local, HasLock, Exists
<1> QED BY Zenon, <1>1, <1>2, <1>3, <1>4 DEF Next

\* The lock starts in the inductive invariant.
LEMMA InitIInv == Init => IInv
<1>1. Init => TypeOK
  BY RunsAssumption, LeftoverAssumption
     DEF Init, TypeOK, Leases, NoLease, Requests, PCs, Acquiring, Releasing
<1> SUFFICES ASSUME Init PROVE IInv
  OBVIOUS
<1> QED BY <1>1, RunsAssumption, SMTT(30)
           DEF Init, IInv, VersionsGrow, TimesArePast, UpdatesAreCurrent, Goroutines,
               GrantIsBacked, StoppedRunsArePast, HasLock, NoLease, Exists

\* The inductive invariant holds in every reachable state of the lock.
THEOREM Invariance == Spec => []IInv
BY InitIInv, InvStep, PTL DEF Spec

\* Of two runs that AcquireLease told they have the lock, at most one is within the
\* duration of its last stored renewal, unless a Release deleted another run's
\* lease: for any number of runs, any skew, and any failures and delays.
THEOREM LeaseGuaranteeHolds == Spec => []LeaseGuarantee
<1>1. IInv => LeaseGuarantee
  BY Zenon DEF IInv, GrantIsBacked, LeaseGuarantee, Covered, HasLock
<1> QED BY <1>1, Invariance, PTL

\* The lease of a run that stopped carries no time after it stopped: "a stale lock
\* from a dead run self-expires" (Connect), late requests included.
THEOREM StaleLockExpiresHolds == Spec => []StaleLockExpires
<1>1. IInv => StaleLockExpires
  BY Zenon DEF IInv, StoppedRunsArePast, StaleLockExpires
<1> QED BY <1>1, Invariance, PTL

\* tryAcquireLease takes the lease from another holder only when it has expired at
\* the moment the server stores the update.
THEOREM TakeoverOnlyWhenExpiredHolds == Spec => TakeoverOnlyWhenExpired
<1> DEFINE P == /\ Exists(lease) /\ Exists(lease')
                /\ lease'.uid = lease.uid /\ lease'.holder # lease.holder
                => Local(lease'.holder) > lease.renew + Duration
<1>1. IInv /\ [Next]_vars => P
  <2> SUFFICES ASSUME IInv, [Next]_vars, Exists(lease), Exists(lease'),
                      lease'.holder # lease.holder
               PROVE  Local(lease'.holder) > lease.renew + Duration
    OBVIOUS
  <2>1. ASSUME NEW r \in Runs, Acquire(r) \/ Renewal(r) \/ Release(r) \/ Trouble(r)
        PROVE  FALSE
    BY Zenon, <2>1, TypeStep, ActionsAreRunSteps DEF IInv, RunStep
  <2>2. ASSUME NEW q \in net, Serve(q)
        PROVE  Local(lease'.holder) > lease.renew + Duration
    <3>1. /\ Accepts(q) /\ lease' = Written(q) /\ q.op # "delete"
      BY <2>2, SMTT(30) DEF Serve, NoLease, Exists
    <3>2. /\ lease.renew \in Int /\ Duration \in Int /\ clock \in Int /\ q.from \in Runs
          /\ q.now \in Int /\ q.op \in {"create", "takeover", "renew", "delete"}
          /\ Skew[q.from] \in Int
      BY SkewAssumption, DurationAssumption DEF IInv, TypeOK, Leases, Requests
    <3>3. q.op = "takeover" /\ q.rv = lease.rv
      BY Zenon, <3>1, <3>2 DEF IInv, UpdatesAreCurrent, Accepts, Written
    <3>4. q.now > lease.renew + Duration /\ q.now <= Local(q.from)
      BY Zenon, <3>3 DEF IInv, UpdatesAreCurrent, TimesArePast
    <3> QED BY <3>1, <3>2, <3>4, SMTT(30) DEF Written, Local
  <2>3. CASE Tick
    BY Zenon, <2>3 DEF Tick, apiVars
  <2>4. CASE UNCHANGED vars
    BY Zenon, <2>4 DEF vars, apiVars
  <2> QED BY Zenon, <2>1, <2>2, <2>3, <2>4 DEF Next
<1> QED BY <1>1, Invariance, PTL DEF Spec, TakeoverOnlyWhenExpired

-----------------------------------------------------------------------------
(* When requests are in time.  MaxSkew <= Duration says that two clocks    *)
(* differ by less than the lease lasts.                                    *)

InTimeAlways == Timely /\ ~LateRequests /\ MaxSkew <= Duration

\* The sender of q waits for it and has no answer yet.
Pending(q) ==
    /\ Awaited(q)
    /\ q.op # "renew" => reply[q.from] = "none"
    /\ q.op \in {"create", "takeover"} => q.now = now[q.from]

\* A run has at most one request on its way.
OneRequest ==
    \A q \in net :
        /\ Pending(q) /\ q.uid <= version
        /\ \A p \in net : p.from = q.from => p = q

\* A renewal does not set the time back, and only the holder deletes.
Helps(q) ==
    Exists(lease) =>
        /\ q.op = "renew" /\ q.rv = lease.rv => lease.renew <= q.now
        /\ q.op = "delete" /\ q.uid = lease.uid => lease.holder = q.from

\* A lease renewed at t has expired on no run's clock.
Lasts(t) == \A s \in Runs : clock + Skew[s] <= t + Duration

\* The lease of a run that uses the lock is in the server and has not expired.
HoldersLast ==
    \A r \in Runs :
        /\ pc[r] \in {"get", "writing"} => Lasts(now[r])
        /\ HasLock(r) => Exists(lease) /\ lease.holder = r
        /\ pc[r] = "writing" /\ reply[r] = "ok" => lease.renew = now[r]
        /\ (HasLock(r) \/ pc[r] \in Releasing) /\ lease.holder = r => Lasts(lease.renew)

UidsGrow == lease.uid <= version /\ (lease.uid = 0 => lease.holder = Nobody)

TimelyInv ==
    /\ IInv
    /\ OneRequest
    /\ \A q \in net : Helps(q)
    /\ HoldersLast
    /\ UidsGrow

\* What the steps of a run do besides RunStep when no request outlives its
\* sender's patience.
TimelyRequests(r) ==
    /\ \A q \in net' : q.from = r => Pending(q)' /\ q.uid <= version
    /\ \A p, q \in net' : p.from = r /\ q.from = r => p = q
    /\ \A q \in net' : q \in net \/ Helps(q)

TimelyPlaces(r) ==
    /\ \A s \in Runs \ {r} : attempt'[s] = attempt[s]
    /\ pc'[r] \in {"get", "writing"} =>
          \/ now'[r] = Local(r) /\ pc'[r] = "get"
          \/ pc[r] \in {"get", "writing"} /\ now'[r] = now[r]
    /\ pc'[r] = "writing" /\ reply'[r] = "ok" => pc[r] = "writing" /\ reply[r] = "ok"
    /\ pc'[r] \in Releasing => HasLock(r) \/ pc[r] \in Releasing

\* A run that waits for no answer has no request on its way.
LEMMA IdleRunIsQuiet ==
    ASSUME IInv, OneRequest, NEW r \in Runs,
           \/ pc[r] \notin {"held", "writing", "deleting"}
           \/ reply[r] # "none"
           \/ renewer[r] = "idle"
           \/ \A q \in net : q.from = r => ~Awaited(q)
    PROVE  \A q \in net : q.from # r
BY DEF IInv, TypeOK, Requests, OneRequest, Pending, Awaited, Goroutines

\* A run that gives up has no request on its way afterwards.
LEMMA AbandonSilences ==
    ASSUME ~LateRequests, OneRequest, NEW r \in Runs, Abandon(r)
    PROVE  net' = {q \in net : q.from # r}
BY Zenon DEF Abandon, OneRequest, Pending

\* The steps of a run that leave no request of its own on the way.
LEMMA QuietSteps ==
    ASSUME ~LateRequests, IInv, OneRequest, NEW r \in Runs,
           \/ BeginAttempt(r) \/ Acquired(r) \/ Refused(r) \/ RenewReturns(r)
           \/ BeginRelease(r) \/ Deleted(r) \/ Trouble(r)
    PROVE  TimelyRequests(r) /\ TimelyPlaces(r)
<1>0. /\ pc \in [Runs -> PCs] /\ attempt \in [Runs -> Nat] /\ now \in [Runs -> Int]
      /\ reply \in [Runs -> {"none", "ok", "conflict", "notfound"}]
  BY Zenon DEF IInv, TypeOK
<1> DEFINE Quiet == net' = {q \in net : q.from # r}
<1> USE DEF TimelyPlaces, HasLock, Releasing, apiVars, runVars
<1>1. BeginAttempt(r) => Quiet /\ TimelyPlaces(r)
  BY Zenon, <1>0, IdleRunIsQuiet DEF BeginAttempt, Local
<1>2. Acquired(r) => Quiet /\ TimelyPlaces(r)
  BY Zenon, <1>0, IdleRunIsQuiet DEF Acquired
<1>3. Refused(r) => Quiet /\ TimelyPlaces(r)
  BY Zenon, <1>0, IdleRunIsQuiet DEF Refused, Stop
<1>4. RenewReturns(r) => Quiet /\ TimelyPlaces(r)
  BY Zenon, <1>0, IdleRunIsQuiet DEF RenewReturns
<1>5. BeginRelease(r) => Quiet /\ TimelyPlaces(r)
  BY Zenon, <1>0, AbandonSilences DEF BeginRelease
<1>6. Deleted(r) => Quiet /\ TimelyPlaces(r)
  BY Zenon, <1>0, IdleRunIsQuiet DEF Deleted, Stop
<1>7. AcquireCallFails(r) => Quiet /\ TimelyPlaces(r)
  BY Zenon, <1>0, AbandonSilences DEF AcquireCallFails, Transient, Stop
<1>8. AcquireAborts(r) => Quiet /\ TimelyPlaces(r)
  BY Zenon, <1>0, AbandonSilences DEF AcquireAborts, Stop
<1>9. RenewGetFails(r) => Quiet /\ TimelyPlaces(r)
  BY Zenon, <1>0, IdleRunIsQuiet DEF RenewGetFails
<1>10. RenewTimesOut(r) => Quiet /\ TimelyPlaces(r)
  BY Zenon, <1>0, AbandonSilences DEF RenewTimesOut
<1>11. ReleaseCallFails(r) => Quiet /\ TimelyPlaces(r)
  BY Zenon, <1>0, AbandonSilences DEF ReleaseCallFails, Transient, Stop
<1>12. ReleaseAborts(r) => Quiet /\ TimelyPlaces(r)
  BY Zenon, <1>0, AbandonSilences DEF ReleaseAborts, Stop
<1>13. Crash(r) => Quiet /\ TimelyPlaces(r)
  BY Zenon, <1>0, AbandonSilences DEF Crash, Stop
<1>14. Quiet => TimelyRequests(r)
  BY Zenon DEF TimelyRequests
<1> HIDE DEF Quiet, TimelyPlaces
<1> QED BY Zenon, <1>1, <1>2, <1>3, <1>4, <1>5, <1>6, <1>7, <1>8, <1>9, <1>10, <1>11, <1>12,
   <1>13, <1>14 DEF Trouble

\* The steps of a run that may send a request.
LEMMA SendingSteps ==
    ASSUME TimelyInv, NEW r \in Runs,
           tryAcquireLease(r) \/ renew(r) \/ ReleaseGet(r)
    PROVE  TimelyRequests(r) /\ TimelyPlaces(r)
<1>0. /\ pc \in [Runs -> PCs] /\ attempt \in [Runs -> Nat] /\ now \in [Runs -> Int]
      /\ reply \in [Runs -> {"none", "ok", "conflict", "notfound"}]
      /\ renewer \in [Runs -> {"off", "idle", "sent"}] /\ version \in Nat
      /\ lease.uid <= version
  BY Zenon DEF TimelyInv, IInv, TypeOK, UidsGrow
<1>1. \A q \in net : q.from # r
  BY Zenon, IdleRunIsQuiet DEF TimelyInv, tryAcquireLease, renew, ReleaseGet
<1>2. reply[r] = "none"
  BY Zenon, <1>0 DEF TimelyInv, IInv, Goroutines, tryAcquireLease, renew, ReleaseGet
<1>3. TimelyPlaces(r)
  <2>1. CASE tryAcquireLease(r)
    BY Zenon, <1>0, <1>2, <2>1 DEF tryAcquireLease, Stop, TimelyPlaces, HasLock, Releasing
  <2>2. CASE renew(r)
    <3>1. pc[r] = "held"
      BY Zenon, <2>2 DEF TimelyInv, IInv, Goroutines, renew
    <3> QED BY Zenon, <2>2, <3>1 DEF renew, TimelyPlaces, Releasing
  <2>3. CASE ReleaseGet(r)
    BY Zenon, <1>0, <2>3 DEF ReleaseGet, Stop, TimelyPlaces, HasLock, Releasing
  <2> QED BY Zenon, <2>1, <2>2, <2>3
<1>4. CASE net' = net
  BY Zenon, <1>1, <1>3, <1>4 DEF TimelyRequests
<1>5. ASSUME NEW q, net' = net \cup {q}, q.from = r, Pending(q)', q.uid <= version, Helps(q)
      PROVE  TimelyRequests(r)
  BY Zenon, <1>1, <1>5 DEF TimelyRequests
<1>6. ASSUME NEW op \in {"create", "takeover", "renew", "delete"}, NEW l, NEW t
      PROVE  /\ Request(op, r, l, t).from = r /\ Request(op, r, l, t).op = op
             /\ Request(op, r, l, t).n = attempt[r] /\ Request(op, r, l, t).now = t
             /\ Request(op, r, l, t).uid = l.uid
  BY Zenon DEF Request
<1>7. ASSUME NEW op \in {"create", "takeover"}, NEW l, l.uid <= version,
             net' = net \cup {Request(op, r, l, now[r])},
             pc' = [pc EXCEPT ![r] = "writing"], UNCHANGED <<attempt, now, reply>>
      PROVE  TimelyRequests(r)
  <2>0. PICK q : q = Request(op, r, l, now[r])
    OBVIOUS
  <2>1. q.from = r /\ q.op = op /\ q.n = attempt[r] /\ q.now = now[r] /\ q.uid = l.uid
    BY <1>6, <2>0
  <2>2. Pending(q)'
    BY Zenon, <1>0, <1>2, <1>7, <2>1 DEF Pending, Awaited
  <2>3. Helps(q)
    BY Zenon, <2>1 DEF Helps
  <2>4. net' = net \cup {q}
    BY Zenon, <1>7, <2>0
  <2> QED BY Zenon, <1>5, <1>7, <2>1, <2>2, <2>3, <2>4
<1>8. CASE tryAcquireLease(r)
  <2>1. NoLease.uid <= version
    BY <1>0 DEF NoLease
  <2> QED BY Zenon, <1>0, <1>4, <1>7, <1>8, <2>1, <1>3 DEF tryAcquireLease, Send, apiVars
<1>9. CASE renew(r) /\ net' # net
  <2>0. PICK q : q = Request("renew", r, lease, Local(r))
    OBVIOUS
  <2>1. q.from = r /\ q.op = "renew" /\ q.now = Local(r) /\ q.uid = lease.uid
    BY <1>6, <2>0
  <2>2. /\ Exists(lease) /\ lease.holder = r /\ net' = net \cup {q}
        /\ now' = [now EXCEPT ![r] = Local(r)] /\ renewer' = [renewer EXCEPT ![r] = "sent"]
    BY Zenon, <1>9, <2>0 DEF renew, Send, apiVars
  <2>3. Pending(q)'
    BY Zenon, <1>0, <2>1, <2>2 DEF Pending, Awaited
  <2>4. Helps(q)
    BY Zenon, <2>1, <2>2 DEF Helps, TimelyInv, IInv, TimesArePast
  <2> QED BY Zenon, <1>0, <1>3, <1>5, <2>1, <2>2, <2>3, <2>4
<1>10. CASE ReleaseGet(r) /\ net' # net
  <2>0. PICK q : q = Request("delete", r, lease, Local(r))
    OBVIOUS
  <2>1. q.from = r /\ q.op = "delete" /\ q.n = attempt[r] /\ q.uid = lease.uid
    BY <1>6, <2>0
  <2>2. /\ Exists(lease) /\ lease.holder = r /\ net' = net \cup {q}
        /\ pc' = [pc EXCEPT ![r] = "deleting"] /\ UNCHANGED <<attempt, reply>>
    BY Zenon, <1>10, <2>0 DEF ReleaseGet, Send, apiVars
  <2>3. Pending(q)'
    BY Zenon, <1>0, <1>2, <2>1, <2>2 DEF Pending, Awaited
  <2>4. Helps(q)
    BY Zenon, <2>1, <2>2 DEF Helps
  <2> QED BY Zenon, <1>0, <1>3, <1>5, <2>1, <2>2, <2>3, <2>4
<1> QED BY Zenon, <1>3, <1>4, <1>8, <1>9, <1>10

\* A step of a run keeps requests in time and the lease of its user alive.
LEMMA TimelyRunStepKeepsInv ==
    ASSUME InTimeAlways, TimelyInv, IInv', NEW r \in Runs, RunStep(r), TimelyRequests(r), TimelyPlaces(r)
    PROVE  TimelyInv'
<1> USE SkewAssumption, DurationAssumption DEF RunStep, TimelyRequests, TimelyPlaces, Local
<1>1. /\ clock \in Int /\ lease.renew \in Int /\ Duration \in Int /\ MaxSkew \in Int
      /\ \A s \in Runs : Skew[s] \in Int /\ now[s] \in Int
      /\ \A q \in net' : q.from \in Runs /\ q.op \in {"create", "takeover", "renew", "delete"}
  BY DEF TimelyInv, IInv, TypeOK, Leases, Requests
<1>2. OneRequest'
  <2>1. ASSUME NEW q \in net', q.from # r PROVE q \in net /\ Pending(q)'
    <3>1. q \in net
      BY Zenon, <2>1 DEF Truthful
    <3> QED BY <1>1, <2>1, <3>1, SMTT(30) DEF TimelyInv, OneRequest, Pending, Awaited
  <2>2. version' = version
    BY Zenon
  <2>3. ASSUME NEW q \in net', q.from = r
        PROVE  Pending(q)' /\ q.uid <= version /\ \A p \in net' : p.from = q.from => p = q
    BY Zenon, <2>3
  <2>4. ASSUME NEW q \in net', q.from # r
        PROVE  Pending(q)' /\ q.uid <= version /\ \A p \in net' : p.from = q.from => p = q
    BY Zenon, <2>1, <2>4 DEF TimelyInv, OneRequest
  <2> HIDE DEF RunStep, TimelyRequests, TimelyPlaces
  <2> QED BY Zenon, <2>2, <2>3, <2>4 DEF OneRequest
<1>3. (\A q \in net : Helps(q))'
  BY Zenon DEF TimelyInv, Helps, Exists
<1>4. HoldersLast'
  <2> SUFFICES ASSUME NEW s \in Runs
               PROVE  /\ pc'[s] \in {"get", "writing"} => Lasts(now[s])'
                      /\ HasLock(s)' => Exists(lease) /\ lease.holder = s
                      /\ pc'[s] = "writing" /\ reply'[s] = "ok" => lease.renew = now'[s]
                      /\ (HasLock(s)' \/ pc'[s] \in Releasing) /\ lease.holder = s => Lasts(lease.renew)
    BY Zenon DEF HoldersLast, Lasts, Exists
  <2>1. (HasLock(s)' => HasLock(s)) /\ (pc'[s] \in Releasing => HasLock(s) \/ pc[s] \in Releasing)
    BY Zenon DEF HasLock
  <2>2. pc'[s] \in {"get", "writing"} => Lasts(now[s])'
    <3>1. CASE now'[s] = Local(s)
      BY <1>1, <3>1 DEF Lasts, InTimeAlways
    <3>2. CASE pc[s] \in {"get", "writing"} /\ now'[s] = now[s]
      BY Zenon, <3>2 DEF TimelyInv, HoldersLast, Lasts
    <3> QED BY Zenon, <3>1, <3>2
  <2>3. pc'[s] = "writing" /\ reply'[s] = "ok" => lease.renew = now'[s]
    BY DEF TimelyInv, HoldersLast
  <2> QED BY Zenon, <2>1, <2>2, <2>3 DEF TimelyInv, HoldersLast
<1> QED BY Zenon, <1>2, <1>3, <1>4 DEF TimelyInv, UidsGrow

\* What the server does with a request that is waited for.
LEMMA ServeEffect ==
    ASSUME TimelyInv, NEW q \in net, Serve(q)
    PROVE  /\ net' = net \ {q} /\ Awaited(q) /\ q.from \in Runs /\ q.now \in Int
           /\ q.op \in {"create", "takeover", "renew", "delete"}
           /\ UNCHANGED <<clock, pc, attempt, now, renewer>>
           /\ \A s \in Runs \ {q.from} : reply'[s] = reply[s]
           /\ reply'[q.from] = IF q.op = "renew" THEN reply[q.from] ELSE Answer(q)
           /\ \/ /\ Accepts(q) /\ q.op # "delete" /\ version' = version + 1
                 /\ lease'.holder = q.from /\ lease'.renew = q.now /\ lease'.rv = version + 1
                 /\ lease'.uid = IF q.op = "create" THEN version + 1 ELSE lease.uid
              \/ /\ Accepts(q) /\ q.op = "delete" /\ version' = version
                 /\ lease'.uid = 0 /\ lease'.holder = Nobody
              \/ /\ ~Accepts(q) /\ lease' = lease /\ version' = version
<1>1. /\ q \in Requests /\ reply \in [Runs -> {"none", "ok", "conflict", "notfound"}] /\ Awaited(q)
  BY Zenon DEF TimelyInv, IInv, TypeOK, OneRequest, Pending
<1>2. /\ Written(q).holder = q.from /\ Written(q).renew = q.now /\ Written(q).rv = version + 1
      /\ Written(q).uid = IF q.op = "create" THEN version + 1 ELSE lease.uid
      /\ NoLease.uid = 0 /\ NoLease.holder = Nobody
  BY Zenon DEF Written, NoLease
<1> QED BY Zenon, <1>1, <1>2 DEF Serve, Requests, renewVars

\* The server accepts nothing from others while a run uses its lease or releases it.
LEMMA LeaseInUse ==
    ASSUME TimelyInv, NEW q \in net, Accepts(q), q.from \in Runs, NEW s \in Runs,
           HasLock(s) \/ pc[s] \in Releasing, lease.holder = s
    PROVE  q.from = s
<1>1. Lasts(lease.renew) /\ Exists(lease) /\ Helps(q)
  BY Zenon, RunsAssumption DEF TimelyInv, HoldersLast, UidsGrow, Exists
<1>2. q.op # "takeover"
  <2> SUFFICES ASSUME q.op = "takeover" PROVE FALSE
    OBVIOUS
  <2>1. q.now > lease.renew + Duration /\ q.now <= clock + Skew[q.from]
    BY Zenon, <1>1 DEF Accepts, TimelyInv, IInv, UpdatesAreCurrent, TimesArePast, Local
  <2>2. /\ lease.renew \in Int /\ q.now \in Int /\ Duration \in Int /\ clock \in Int
        /\ Skew[q.from] \in Int
    BY SkewAssumption, DurationAssumption DEF TimelyInv, IInv, TypeOK, Leases, Requests
  <2> QED BY <1>1, <2>1, <2>2 DEF Lasts
<1> QED BY Zenon, <1>1, <1>2 DEF Accepts, Helps, TimelyInv, IInv, UpdatesAreCurrent

\* Serving a request keeps the requests in order.
LEMMA ServeKeepsRequests ==
    ASSUME TimelyInv, NEW q \in net, Serve(q)
    PROVE  OneRequest' /\ UidsGrow' /\ (\A p \in net : Helps(p))'
<1>1. /\ version \in Nat /\ version' \in Nat /\ version <= version' /\ lease.uid \in Nat
      /\ lease.uid <= version /\ (lease.uid = 0 => lease.holder = Nobody)
  BY ServeEffect DEF TimelyInv, IInv, TypeOK, Leases, UidsGrow
<1>2. UidsGrow'
  BY <1>1, ServeEffect DEF UidsGrow, Accepts, Exists
<1>3. ASSUME NEW p \in net'
      PROVE  /\ p \in net /\ p.from # q.from /\ p.from \in Runs /\ p.uid \in Nat /\ p.rv \in Nat
             /\ Pending(p) /\ p.uid <= version /\ p.rv <= version /\ Helps(p)
  BY <1>3, ServeEffect DEF TimelyInv, IInv, TypeOK, Requests, VersionsGrow, OneRequest
<1>4. OneRequest'
  <2>1. ASSUME NEW p \in net' PROVE Pending(p)'
    BY <1>3, ServeEffect DEF Pending, Awaited
  <2> QED BY <1>1, <1>3, <2>1 DEF OneRequest, TimelyInv
<1>5. ASSUME NEW p \in net' PROVE Helps(p)'
  <2>1. Accepts(q) /\ p.op = "delete" /\ lease.holder = p.from => FALSE
    BY Zenon, <1>3, LeaseInUse, ServeEffect DEF Pending, Awaited, Releasing
  <2> QED BY <1>1, <1>3, <2>1, ServeEffect DEF Helps, Exists, Accepts
<1> QED BY Zenon, <1>2, <1>4, <1>5

\* Serving a request keeps the lease of a run that uses it.
LEMMA ServeKeepsHolders ==
    ASSUME TimelyInv, NEW q \in net, Serve(q), NEW s \in Runs
    PROVE  /\ pc[s] \in {"get", "writing"} => Lasts(now[s])
           /\ HasLock(s)' => Exists(lease') /\ lease'.holder = s
           /\ pc[s] = "writing" /\ reply'[s] = "ok" => lease'.renew = now[s]
           /\ (HasLock(s)' \/ pc[s] \in Releasing) /\ lease'.holder = s => Lasts(lease'.renew)
<1>0. pc[s] \in {"get", "writing"} => Lasts(now[s])
  BY Zenon DEF TimelyInv, HoldersLast
<1>1. /\ version \in Nat /\ lease.renew \in Int /\ clock \in Int /\ Duration \in Int
      /\ \A t \in Runs : Skew[t] \in Int
  BY SkewAssumption, DurationAssumption DEF TimelyInv, IInv, TypeOK, Leases
<1>2. Accepts(q) /\ q.op # "delete" => Exists(lease')
  BY <1>1, ServeEffect DEF Accepts, Exists
<1>3. CASE q.from = s /\ q.op # "renew" /\ pc[s] = "writing"
  <2>1. q.op # "delete" /\ q.now = now[s]
    BY Zenon, <1>3, ServeEffect DEF Awaited, TimelyInv, OneRequest, Pending
  <2>2. reply'[s] = "ok" => Accepts(q)
    BY Zenon, <1>3, ServeEffect DEF Answer
  <2> QED BY Zenon, <1>0, <1>2, <1>3, <2>1, <2>2, ServeEffect DEF HasLock, Releasing
<1>4. CASE ~(q.from = s /\ q.op # "renew" /\ pc[s] = "writing") /\ HasLock(s)'
  <2>1. HasLock(s) /\ (pc[s] = "writing" => reply'[s] = reply[s])
    BY Zenon, <1>4, ServeEffect DEF HasLock
  <2>2. /\ Exists(lease) /\ lease.holder = s /\ Lasts(lease.renew)
        /\ pc[s] = "writing" /\ reply[s] = "ok" => lease.renew = now[s]
    BY Zenon, <2>1 DEF TimelyInv, HoldersLast
  <2>3. CASE ~Accepts(q)
    BY Zenon, <1>0, <2>1, <2>2, <2>3, ServeEffect
  <2>4. CASE Accepts(q)
    <3>1. q.from = s
      BY Zenon, <2>1, <2>2, <2>4, LeaseInUse, ServeEffect
    <3>2. q.op = "renew" /\ pc[s] = "held"
      BY Zenon, <1>4, <2>1, <3>1, ServeEffect DEF HasLock, Awaited, TimelyInv, IInv, Goroutines
    <3>3. lease.renew <= q.now
      BY Zenon, <2>2, <2>4, <3>2 DEF Accepts, TimelyInv, Helps
    <3>4. Exists(lease') /\ lease'.holder = s /\ lease'.renew = q.now /\ q.now \in Int
      BY Zenon, <1>2, <2>4, <3>1, <3>2, ServeEffect
    <3> QED BY <1>1, <2>2, <3>2, <3>3, <3>4 DEF Lasts
  <2> QED BY Zenon, <2>3, <2>4
<1>5. CASE ~HasLock(s)'
  <2>1. ASSUME pc[s] \in Releasing, lease'.holder = s PROVE lease' = lease
    BY Zenon, <2>1, RunsAssumption, ServeEffect DEF Awaited, Releasing, TimelyInv, IInv, Goroutines
  <2> QED BY Zenon, <1>0, <1>5, <2>1, ServeEffect DEF HasLock, TimelyInv, HoldersLast
<1> QED BY Zenon, <1>3, <1>4, <1>5

\* Serving a request keeps requests in time.
LEMMA TimelyServeKeepsInv ==
    ASSUME TimelyInv, IInv', NEW q \in net, Serve(q)
    PROVE  TimelyInv'
<1>1. HoldersLast'
  BY Zenon, ServeEffect, ServeKeepsHolders DEF HoldersLast, Lasts
<1> QED BY Zenon, <1>1, ServeKeepsRequests DEF TimelyInv

\* Time passes only as far as every lease in use lasts.
LEMMA TimelyTickKeepsInv ==
    ASSUME InTimeAlways, TimelyInv, IInv', Tick
    PROVE  TimelyInv'
<1>1. /\ clock' = clock + 1
      /\ UNCHANGED <<lease, version, net, pc, attempt, now, reply, renewer>>
      /\ InTime(clock + 1)
  BY Zenon DEF Tick, apiVars, runVars, InTimeAlways
<1>2. OneRequest' /\ (\A q \in net : Helps(q))' /\ UidsGrow'
  BY <1>1 DEF TimelyInv, OneRequest, Pending, Awaited, Helps, UidsGrow
<1>3. HoldersLast'
  <2> SUFFICES ASSUME NEW r \in Runs
               PROVE  /\ pc[r] \in {"get", "writing"} => Lasts(now[r])'
                      /\ HasLock(r) => Exists(lease) /\ lease.holder = r
                      /\ pc[r] = "writing" /\ reply[r] = "ok" => lease.renew = now[r]
                      /\ (HasLock(r) \/ pc[r] \in Releasing) /\ lease.holder = r => Lasts(lease.renew)'
    BY Zenon, <1>1 DEF HoldersLast, HasLock
  <2>0. /\ clock \in Int /\ Duration \in Int /\ lease.renew \in Int
        /\ \A s \in Runs : Skew[s] \in Int
    BY SkewAssumption, DurationAssumption DEF TimelyInv, IInv, TypeOK, Leases
  <2>1. pc[r] \in {"get", "writing"} => Lasts(now[r])'
    BY Zenon, <1>1 DEF InTime, Lasts
  <2>2. ASSUME HasLock(r) \/ pc[r] \in Releasing, lease.holder = r PROVE Lasts(lease.renew)'
    <3>1. CASE pc[r] = "writing" /\ reply[r] = "ok"
      BY Zenon, <1>1, <2>1, <3>1 DEF TimelyInv, HoldersLast, Lasts
    <3>2. CASE pc[r] \in {"held"} \cup Releasing
      BY <1>1, <2>0, <2>2, <3>2 DEF InTime, leaseExpired, Lasts
    <3> QED BY Zenon, <2>2, <3>1, <3>2 DEF HasLock
  <2> QED BY Zenon, <2>1, <2>2 DEF TimelyInv, HoldersLast
<1> QED BY Zenon, <1>2, <1>3 DEF TimelyInv

\* In time, the lease of every run that uses the lock stays alive.
THEOREM TimelyInvariance ==
    ASSUME InTimeAlways PROVE Spec => []TimelyInv
<1>1. Init => TimelyInv
  <2> SUFFICES ASSUME Init PROVE TimelyInv
    OBVIOUS
  <2>1. IInv
    BY Zenon, InitIInv
  <2> QED BY <2>1, SMTT(30)
             DEF Init, TimelyInv, OneRequest, HoldersLast, UidsGrow, HasLock, NoLease, Releasing
<1>2. TimelyInv /\ [Next]_vars => TimelyInv'
  <2> SUFFICES ASSUME TimelyInv, [Next]_vars PROVE TimelyInv'
    OBVIOUS
  <2>1. IInv /\ IInv' /\ TypeOK'
    BY Zenon, InvStep DEF TimelyInv, IInv
  <2>2. ASSUME NEW r \in Runs, Acquire(r) \/ Renewal(r) \/ Release(r) \/ Trouble(r)
        PROVE  TimelyInv'
    <3>1. TimelyRequests(r) /\ TimelyPlaces(r)
      BY Zenon, <2>1, <2>2, QuietSteps, SendingSteps
         DEF InTimeAlways, TimelyInv, Acquire, Renewal, Release
    <3> QED BY Zenon, <2>1, <2>2, <3>1, ActionsAreRunSteps, TimelyRunStepKeepsInv
  <2>3. ASSUME NEW q \in net, Serve(q) PROVE TimelyInv'
    BY Zenon, <2>1, <2>3, TimelyServeKeepsInv
  <2>4. CASE Tick
    BY Zenon, <2>1, <2>4, TimelyTickKeepsInv
  <2>5. CASE UNCHANGED vars
    BY <2>1, <2>5 DEF vars, apiVars, runVars, renewVars, TimelyInv, OneRequest, Pending, Awaited,
       Helps, HoldersLast, Lasts, HasLock, Exists, UidsGrow
  <2> QED BY Zenon, <2>2, <2>3, <2>4, <2>5 DEF Next
<1> QED BY <1>1, <1>2, PTL DEF Spec

\* When requests are in time, a run that AcquireLease told it has the lock has its
\* lease in the API server, so at most one run uses the cluster: for any number of
\* runs, retries and failed calls.
THEOREM OneRunUsesTheClusterHolds ==
    ASSUME InTimeAlways PROVE Spec => []OneRunUsesTheCluster
<1>1. TimelyInv => OneRunUsesTheCluster
  BY Zenon DEF TimelyInv, HoldersLast, HasLock, OneRunUsesTheCluster
<1> QED BY <1>1, TimelyInvariance, PTL

-----------------------------------------------------------------------------
(* Connect and Close of a test suite.                                      *)

\* Every step of a run is a step of its lock or leaves the lock alone.
LEMMA StepIsLockStep == [E2eNext]_allVars => [Next]_vars
<1> SUFFICES ASSUME [E2eNext]_allVars PROVE [Next]_vars
  OBVIOUS
<1>1. ASSUME NEW r \in Runs, ConnectTestCluster(r) \/ ConnectFails(r) \/ GoesOn(r)
      PROVE  [Next]_vars
  BY Zenon, <1>1 DEF GoesOn, ConnectTestCluster, ConnectFails, waitClusterHealthy, HealthFails,
              AcquireLease, ReleaseLease, Cleanup, CloseReturns, Next, Release
<1>2. ASSUME NEW r \in Runs, AcquireFails(r) \/ ReleaseFails(r) \/ Renew(r) \/ Kill(r)
      PROVE  [Next]_vars
  BY Zenon, <1>2 DEF AcquireFails, ReleaseFails, Renew, Kill, Next, Trouble
<1>3. ASSUME NEW r \in Runs, NEW k \in Closers, Close(r, k) \/ CloseAgain(r, k)
      PROVE  [Next]_vars
  BY Zenon, <1>3 DEF Close, CloseAgain, Next, Release
<1>4. CASE World
  BY Zenon, <1>4 DEF World, Next
<1>5. CASE UNCHANGED allVars
  BY Zenon, <1>5 DEF allVars
<1> QED BY Zenon, <1>1, <1>2, <1>3, <1>4, <1>5 DEF E2eNext

\* A suite's calls of AcquireLease and Release are a behaviour of LeaseLock.
THEOREM SuiteUsesTheLock == E2eSpec => Spec
<1>1. E2eInit => Init
  BY Zenon DEF E2eInit
<1> QED BY <1>1, StepIsLockStep, PTL DEF E2eSpec, Spec

\* So at most one suite is within the duration of its last stored renewal, unless
\* a Release deleted another run's lease.
THEOREM SuitesShareTheLock == E2eSpec => []LeaseGuarantee
BY SuiteUsesTheLock, LeaseGuaranteeHolds, PTL

\* And when requests are in time, at most one suite uses the test cluster at a time.
THEOREM SuitesTakeTurns == ASSUME InTimeAlways PROVE E2eSpec => []OneRunUsesTheCluster
BY SuiteUsesTheLock, OneRunUsesTheClusterHolds, PTL

-----------------------------------------------------------------------------
\* Where the lock and the connection of a run are at each place of Connect and Close.
ToApi(r) == "client" \in open[r] /\ "tunnel" \in open[r]

\* What is left of a route still ends with the client and the tunnel.
Ahead(s, o) ==
    \/ Len(s) > 1 /\ s[Len(s) - 1] = Opens("client") /\ s[Len(s)] = Opens("tunnel")
    \/ Len(s) = 1 /\ s[1] = Opens("tunnel") /\ "client" \in o

\* What is open after the next step of a route.
After(s, o) ==
    IF Head(s).do = "open" THEN o \cup {Head(s).what} ELSE o \ {Head(s).what}

Idle(r) == pc[r] \in {"attempt", "stopped"} /\ renewer[r] = "off"

PlaceOf(r) ==
    /\ at[r] = "connect" => pc[r] = "attempt" /\ renewer[r] = "off" /\ Ahead(steps[r], open[r])
    /\ at[r] = "health" => pc[r] = "attempt" /\ renewer[r] = "off" /\ ToApi(r)
    /\ at[r] = "lock" => setup[r].lock /\ pc[r] \in Acquiring /\ renewer[r] = "off" /\ ToApi(r)
    /\ at[r] = "use" => ToApi(r) /\ (IF setup[r].lock THEN pc[r] = "held" ELSE Idle(r))
    /\ at[r] = "release" => pc[r] \in Releasing /\ renewer[r] = "off" /\ ToApi(r)
    /\ at[r] \in {"undo", "cleanup", "failed", "closed", "dead"} => Idle(r)
    /\ at[r] \in {"failed", "closed"} => open[r] = {}
    /\ \A k \in Closers : calls[r][k] = "returned" => at[r] = "closed"

E2eTypeOK ==
    /\ setup \in Setups
    /\ at \in [Runs -> {"connect", "health", "lock", "use", "release", "undo", "cleanup",
                        "failed", "closed", "dead"}]
    /\ steps \in [Runs -> Seq(Steps)]
    /\ open \in [Runs -> SUBSET STRING]
    /\ calls \in [Runs -> [Closers -> {"none", "inside", "waiting", "returned"}]]

E2eInv == E2eTypeOK /\ \A r \in Runs : PlaceOf(r)

\* A step of run r alone: the other runs' lock and connection stay as they are.
OnlyRun(r) ==
    /\ \A s \in Runs \ {r} :
          /\ pc'[s] = pc[s] /\ renewer'[s] = renewer[s] /\ at'[s] = at[s]
          /\ steps'[s] = steps[s] /\ open'[s] = open[s] /\ calls'[s] = calls[s]
    /\ setup' = setup

\* It is enough to look at the run that moves.
LEMMA OneRunMoves ==
    ASSUME E2eInv, NEW r \in Runs, OnlyRun(r), E2eTypeOK', PlaceOf(r)'
    PROVE  E2eInv'
BY DEF E2eInv, OnlyRun, PlaceOf, Idle, ToApi, Ahead

\* One step of ConnectTestCluster leads on, and the last one leaves the tunnel open.
LEMMA RouteLeadsOn ==
    ASSUME NEW s \in Seq(Steps), NEW o, Ahead(s, o)
    PROVE  /\ s # <<>> /\ Tail(s) \in Seq(Steps) /\ Head(s) \in Steps
           /\ Tail(s) # <<>> => Ahead(Tail(s), After(s, o))
           /\ Tail(s) = <<>> => "client" \in After(s, o) /\ "tunnel" \in After(s, o)
<1>1. Len(s) \in Nat /\ Len(s) > 0 /\ s # <<>>
  BY DEF Ahead
<1>2. Tail(s) \in Seq(Steps) /\ Head(s) \in Steps /\ Head(s) = s[1] /\ Len(Tail(s)) = Len(s) - 1
  BY <1>1
<1>3. \A i \in 1..Len(Tail(s)) : Tail(s)[i] = s[i + 1]
  BY <1>1, <1>2
<1>a. Tail(s) = <<>> <=> Len(Tail(s)) = 0
  BY Zenon, <1>2, EmptySeq
<1>4. CASE Len(s) = 1
  <2>1. Tail(s) = <<>>
    BY <1>2, <1>4, <1>a
  <2>2. Head(s) = Opens("tunnel") /\ "client" \in o
    BY <1>2, <1>4 DEF Ahead
  <2> QED BY <1>1, <1>2, <2>1, <2>2 DEF Opens, After
<1>5. CASE Len(s) = 2
  <2>1. Len(Tail(s)) = 1 /\ Tail(s)[1] = Opens("tunnel") /\ Head(s) = Opens("client")
    BY <1>2, <1>3, <1>5 DEF Ahead
  <2>2. "client" \in After(s, o)
    BY <2>1 DEF Opens, After
  <2>3. Ahead(Tail(s), After(s, o))
    BY Zenon, <2>1, <2>2 DEF Ahead
  <2>4. Tail(s) # <<>>
    BY <1>a, <2>1
  <2> QED BY Zenon, <1>1, <1>2, <2>3, <2>4
<1>6. CASE Len(s) > 2
  <2> DEFINE n == Len(Tail(s))
  <2>1. n > 1 /\ n - 1 \in 1..n /\ n \in 1..n
    BY <1>1, <1>2, <1>6
  <2>2. Tail(s)[n - 1] = s[Len(s) - 1] /\ Tail(s)[n] = s[Len(s)]
    BY <1>1, <1>2, <1>3, <2>1
  <2>3. Ahead(Tail(s), After(s, o))
    BY <1>6, <2>1, <2>2 DEF Ahead
  <2> QED BY <1>1, <1>2, <1>a, <2>1, <2>3
<1>7. \A n \in Nat : n > 0 => n = 1 \/ n = 2 \/ n > 2
  OBVIOUS
<1> QED BY Zenon, <1>1, <1>4, <1>5, <1>6, <1>7

-----------------------------------------------------------------------------
\* Steps of Connect that leave the lock alone.
LEMMA ConnectKeepsInv ==
    ASSUME E2eInv, TypeOK, NEW r \in Runs,
           \/ ConnectTestCluster(r) \/ ConnectFails(r) \/ waitClusterHealthy(r)
           \/ HealthFails(r) \/ Cleanup(r)
    PROVE  E2eInv'
<1> USE DEF TypeOK, E2eInv, E2eTypeOK
<1>0. pc' = pc /\ renewer' = renewer /\ setup' = setup /\ calls' = calls
  BY Zenon DEF ConnectTestCluster, ConnectFails, waitClusterHealthy, HealthFails, Cleanup,
         vars, runVars, renewVars
<1>1. CASE ConnectTestCluster(r)
  <2> DEFINE p == After(steps[r], open[r])
  <2>1. /\ at[r] = "connect" /\ Ahead(steps[r], open[r])
        /\ pc[r] = "attempt" /\ renewer[r] = "off"
    BY Zenon, <1>1 DEF ConnectTestCluster, PlaceOf
  <2>2. steps[r] \in Seq(Steps)
    OBVIOUS
  <2>3. /\ Tail(steps[r]) \in Seq(Steps) /\ Head(steps[r]) \in Steps
        /\ Tail(steps[r]) # <<>> => Ahead(Tail(steps[r]), p)
        /\ Tail(steps[r]) = <<>> => "client" \in p /\ "tunnel" \in p
    <3> HIDE DEF TypeOK, E2eInv, E2eTypeOK
    <3> QED BY Zenon, <2>1, <2>2, RouteLeadsOn
  <2>4. p \in SUBSET STRING
    BY Zenon, <2>3 DEF Steps, After
  <2> HIDE DEF p
  <2>5. /\ open' = [open EXCEPT ![r] = p]
        /\ steps' = [steps EXCEPT ![r] = Tail(steps[r])]
        /\ at' = [at EXCEPT ![r] = IF Tail(steps[r]) = <<>> THEN "health" ELSE "connect"]
    BY Zenon, <1>1 DEF ConnectTestCluster, Goto, After, p
  <2>6. E2eTypeOK'
    BY Zenon, <1>0, <2>3, <2>4, <2>5
  <2>7. OnlyRun(r)
    BY Zenon, <1>0, <2>5 DEF OnlyRun
  <2>8. PlaceOf(r)'
    BY <1>0, <2>1, <2>3, <2>5 DEF PlaceOf, ToApi, Idle
  <2> QED BY Zenon, <2>6, <2>7, <2>8, OneRunMoves DEF E2eInv
<1>2. CASE ConnectFails(r)
  <2>1. E2eTypeOK' /\ OnlyRun(r)
    BY <1>0, <1>2 DEF ConnectFails, Goto, OnlyRun
  <2>2. PlaceOf(r)'
    BY <1>0, <1>2 DEF ConnectFails, Goto, PlaceOf, Idle
  <2> QED BY Zenon, <2>1, <2>2, OneRunMoves
<1>3. CASE waitClusterHealthy(r) \/ HealthFails(r)
  <2>1. E2eTypeOK' /\ OnlyRun(r)
    BY <1>0, <1>3 DEF waitClusterHealthy, HealthFails, Goto, OnlyRun
  <2>2. PlaceOf(r)'
    BY <1>0, <1>3 DEF waitClusterHealthy, HealthFails, Goto, PlaceOf, Idle, ToApi, Acquiring
  <2> QED BY Zenon, <2>1, <2>2, OneRunMoves
<1>4. CASE Cleanup(r)
  <2>1. E2eTypeOK' /\ OnlyRun(r)
    BY Zenon, <1>0, <1>4 DEF Cleanup, Goto, OnlyRun
  <2>2. PlaceOf(r)'
    BY <1>0, <1>4 DEF Cleanup, Goto, PlaceOf, Idle
  <2> QED BY Zenon, <2>1, <2>2, OneRunMoves
<1> QED BY Zenon, <1>1, <1>2, <1>3, <1>4

-----------------------------------------------------------------------------
\* A step of AcquireLease ends acquiring, with the lock, or stopped; only with the
\* lock is there a renewal goroutine.
LEMMA AcquireEffect ==
    ASSUME TypeOK, NEW r \in Runs, Acquire(r) \/ AcquireCallFails(r) \/ AcquireAborts(r)
    PROVE  /\ pc' = [pc EXCEPT ![r] = pc'[r]] /\ pc'[r] \in Acquiring \cup {"held", "stopped"}
           /\ renewer' = [renewer EXCEPT ![r] = renewer'[r]]
           /\ pc'[r] # "held" => renewer' = renewer
<1> USE DEF TypeOK, Acquiring
<1>1. CASE BeginAttempt(r)
  BY Zenon, <1>1 DEF BeginAttempt, renewVars
<1>2. CASE tryAcquireLease(r)
  BY Zenon, <1>2 DEF tryAcquireLease, renewVars, Stop
<1>3. CASE Acquired(r)
  BY Zenon, <1>3 DEF Acquired
<1>4. CASE Refused(r) \/ AcquireAborts(r)
  BY Zenon, <1>4 DEF Refused, AcquireAborts, renewVars, Stop
<1>5. CASE AcquireCallFails(r)
  BY Zenon, <1>5 DEF AcquireCallFails, Transient, renewVars, Stop
<1> QED BY Zenon, <1>1, <1>2, <1>3, <1>4, <1>5 DEF Acquire

\* A step of Release after its start ends releasing or stopped.
LEMMA ReleaseEffect ==
    ASSUME TypeOK, NEW r \in Runs,
           ReleaseGet(r) \/ Deleted(r) \/ ReleaseCallFails(r) \/ ReleaseAborts(r)
    PROVE  /\ pc' = [pc EXCEPT ![r] = pc'[r]] /\ pc'[r] \in Releasing \cup {"stopped"}
           /\ renewer' = renewer
<1> USE DEF TypeOK, Releasing
<1>1. CASE ReleaseGet(r)
  BY Zenon, <1>1 DEF ReleaseGet, renewVars, Stop
<1>2. CASE Deleted(r) \/ ReleaseAborts(r)
  BY Zenon, <1>2 DEF Deleted, ReleaseAborts, renewVars, Stop
<1>3. CASE ReleaseCallFails(r)
  BY Zenon, <1>3 DEF ReleaseCallFails, Transient, renewVars, Stop
<1> QED BY Zenon, <1>1, <1>2, <1>3

\* The renewal goroutine neither moves the run nor starts or ends itself.
LEMMA RenewEffect ==
    ASSUME TypeOK, NEW r \in Runs, Renewal(r) \/ RenewGetFails(r) \/ RenewTimesOut(r)
    PROVE  /\ pc' = pc /\ renewer[r] # "off"
           /\ renewer' = [renewer EXCEPT ![r] = renewer'[r]]
<1> USE DEF TypeOK, runVars
<1>1. CASE renew(r)
  BY Zenon, <1>1 DEF renew
<1>2. CASE RenewReturns(r) \/ RenewGetFails(r) \/ RenewTimesOut(r)
  BY Zenon, <1>2 DEF RenewReturns, RenewGetFails, RenewTimesOut
<1> QED BY Zenon, <1>1, <1>2 DEF Renewal

\* AcquireLease and Release, called from Connect and Close.
LEMMA LockKeepsInv ==
    ASSUME E2eInv, TypeOK, NEW r \in Runs,
           \/ AcquireLease(r) \/ AcquireFails(r) \/ ReleaseLease(r) \/ ReleaseFails(r) \/ Renew(r)
    PROVE  E2eInv'
<1> USE DEF E2eInv, E2eTypeOK
<1>0. pc \in [Runs -> PCs] /\ renewer \in [Runs -> {"off", "idle", "sent"}]
  BY Zenon DEF TypeOK
<1>1. CASE AcquireLease(r) \/ AcquireFails(r)
  <2>1. /\ at[r] = "lock" /\ AfterAcquire(r)
        /\ Acquire(r) \/ AcquireCallFails(r) \/ AcquireAborts(r)
    BY Zenon, <1>1 DEF AcquireLease, AcquireFails
  <2>2. /\ pc' = [pc EXCEPT ![r] = pc'[r]] /\ pc'[r] \in Acquiring \cup {"held", "stopped"}
        /\ renewer' = [renewer EXCEPT ![r] = renewer'[r]]
        /\ pc'[r] # "held" => renewer' = renewer
    BY Zenon, <2>1, AcquireEffect
  <2>3. E2eTypeOK' /\ OnlyRun(r)
    BY Zenon, <1>0, <2>1, <2>2 DEF AfterAcquire, Goto, OnlyRun
  <2>4. PlaceOf(r)'
    BY <1>0, <2>1, <2>2 DEF AfterAcquire, Goto, PlaceOf, ToApi, Idle, Acquiring
  <2> QED BY Zenon, <2>3, <2>4, OneRunMoves
<1>2. CASE ReleaseLease(r) \/ ReleaseFails(r)
  <2>1. /\ at[r] = "release" /\ AfterRelease(r)
        /\ ReleaseGet(r) \/ Deleted(r) \/ ReleaseCallFails(r) \/ ReleaseAborts(r)
    BY Zenon, <1>2 DEF ReleaseLease, ReleaseFails
  <2>2. /\ pc' = [pc EXCEPT ![r] = pc'[r]] /\ pc'[r] \in Releasing \cup {"stopped"}
        /\ renewer' = renewer
    BY Zenon, <2>1, ReleaseEffect
  <2>3. E2eTypeOK' /\ OnlyRun(r)
    BY Zenon, <1>0, <2>1, <2>2 DEF AfterRelease, Goto, OnlyRun
  <2>4. PlaceOf(r)'
    BY <1>0, <2>1, <2>2 DEF AfterRelease, Goto, PlaceOf, ToApi, Idle, Releasing
  <2> QED BY Zenon, <2>3, <2>4, OneRunMoves
<1>3. CASE Renew(r)
  <2>1. /\ pc' = pc /\ renewer[r] # "off" /\ renewer' = [renewer EXCEPT ![r] = renewer'[r]]
        /\ setup' = setup /\ at' = at /\ steps' = steps /\ open' = open /\ calls' = calls
    BY Zenon, <1>3, RenewEffect DEF Renew, e2eVars
  <2>2. E2eTypeOK' /\ OnlyRun(r)
    BY Zenon, <1>0, <2>1 DEF OnlyRun
  <2>3. at[r] = "use" /\ setup[r].lock
    BY Zenon, <2>1 DEF PlaceOf, Idle
  <2>4. PlaceOf(r)'
    BY Zenon, <2>1, <2>3 DEF PlaceOf, ToApi
  <2> QED BY Zenon, <2>2, <2>4, OneRunMoves
<1> QED BY Zenon, <1>1, <1>2, <1>3

\* Calls of Close, and the death of the process.
LEMMA CloseKeepsInv ==
    ASSUME E2eInv, TypeOK, NEW r \in Runs,
           \/ \E k \in Closers : Close(r, k) \/ CloseAgain(r, k) \/ CloseReturns(r, k)
           \/ Kill(r)
    PROVE  E2eInv'
<1> USE DEF E2eInv, E2eTypeOK
<1>0. pc \in [Runs -> PCs] /\ renewer \in [Runs -> {"off", "idle", "sent"}]
  BY Zenon DEF TypeOK
<1>1. ASSUME NEW k \in Closers, Close(r, k) PROVE E2eInv'
  <2>1. /\ at[r] = "use" /\ open' = open /\ steps' = steps /\ setup' = setup
        /\ calls' = [calls EXCEPT ![r][k] = "inside"]
    BY Zenon, <1>1 DEF Close, Calls
  <2>2. CASE setup[r].lock /\ BeginRelease(r) /\ Goto(r, "release")
    <3>1. /\ pc' = [pc EXCEPT ![r] = "release"] /\ renewer' = [renewer EXCEPT ![r] = "off"]
          /\ at' = [at EXCEPT ![r] = "release"]
      BY Zenon, <2>2 DEF BeginRelease, Goto
    <3>2. E2eTypeOK' /\ OnlyRun(r)
      BY Zenon, <1>0, <2>1, <3>1 DEF OnlyRun
    <3>3. PlaceOf(r)'
      BY <1>0, <2>1, <3>1 DEF PlaceOf, ToApi, Idle, Releasing
    <3> QED BY Zenon, <3>2, <3>3, OneRunMoves
  <2>3. CASE ~setup[r].lock /\ UNCHANGED vars /\ Goto(r, "cleanup")
    <3>1. pc' = pc /\ renewer' = renewer /\ at' = [at EXCEPT ![r] = "cleanup"]
      BY Zenon, <2>3 DEF vars, runVars, renewVars, Goto
    <3>2. E2eTypeOK' /\ OnlyRun(r)
      BY Zenon, <1>0, <2>1, <3>1 DEF OnlyRun
    <3>3. PlaceOf(r)'
      BY Zenon, <1>0, <2>1, <2>3, <3>1 DEF PlaceOf, ToApi, Idle
    <3> QED BY Zenon, <3>2, <3>3, OneRunMoves
  <2> QED BY Zenon, <1>1, <2>2, <2>3 DEF Close
<1>2. ASSUME NEW k \in Closers, CloseAgain(r, k) \/ CloseReturns(r, k) PROVE E2eInv'
  <2>1. /\ pc' = pc /\ renewer' = renewer /\ at' = at /\ open' = open
        /\ steps' = steps /\ setup' = setup
    BY Zenon, <1>2 DEF CloseAgain, CloseReturns, vars, runVars, renewVars
  <2>2. \/ calls' = [calls EXCEPT ![r][k] = "waiting"]
        \/ at[r] = "closed" /\ calls' = [calls EXCEPT ![r][k] = "returned"]
    BY Zenon, <1>2 DEF CloseAgain, CloseReturns, Calls
  <2>a. /\ calls' \in [Runs -> [Closers -> {"none", "inside", "waiting", "returned"}]]
        /\ \A s \in Runs \ {r} : calls'[s] = calls[s]
    <3>1. ASSUME NEW c \in {"waiting", "returned"}, calls' = [calls EXCEPT ![r][k] = c]
          PROVE  /\ calls' \in [Runs -> [Closers -> {"none", "inside", "waiting", "returned"}]]
                 /\ \A s \in Runs \ {r} : calls'[s] = calls[s]
      BY Zenon, <3>1
    <3> QED BY Zenon, <2>2, <3>1
  <2>3. E2eTypeOK' /\ OnlyRun(r)
    BY Zenon, <2>1, <2>a DEF OnlyRun
  <2>b. \A j \in Closers : calls'[r][j] = "returned" => calls[r][j] = "returned" \/ at[r] = "closed"
    BY <2>2
  <2>4. PlaceOf(r)'
    BY Zenon, <2>1, <2>b DEF PlaceOf, ToApi, Idle
  <2> QED BY Zenon, <2>3, <2>4, OneRunMoves
<1>3. CASE Kill(r)
  <2>1. /\ at' = [at EXCEPT ![r] = "dead"] /\ setup' = setup
        /\ steps' = [steps EXCEPT ![r] = <<>>] /\ open' = [open EXCEPT ![r] = {}]
        /\ calls' = [calls EXCEPT ![r] = [k \in Closers |-> "none"]]
    BY Zenon, <1>3 DEF Kill, Goto
  <2>2. /\ \A s \in Runs \ {r} : pc'[s] = pc[s] /\ renewer'[s] = renewer[s]
        /\ pc'[r] = "stopped" /\ renewer'[r] = "off"
    <3>1. CASE Crash(r)
      BY Zenon, <1>0, <3>1 DEF Crash, Stop
    <3>2. CASE pc[r] = "stopped" /\ UNCHANGED vars
      <4>1. renewer[r] = "off"
        BY Zenon, <3>2 DEF PlaceOf, Idle, Acquiring, Releasing
      <4> QED BY Zenon, <3>2, <4>1 DEF vars, runVars, renewVars
    <3> QED BY Zenon, <1>3, <3>1, <3>2 DEF Kill
  <2>3. E2eTypeOK'
    BY <2>1
  <2>4. OnlyRun(r)
    BY Zenon, <2>1, <2>2 DEF OnlyRun
  <2>5. PlaceOf(r)'
    BY Zenon, <2>1, <2>2 DEF PlaceOf, Idle
  <2> QED BY Zenon, <2>3, <2>4, <2>5, OneRunMoves
<1> QED BY Zenon, <1>1, <1>2, <1>3

\* The server and the clock move no run.
LEMMA WorldKeepsInv == ASSUME E2eInv, World \/ UNCHANGED allVars PROVE E2eInv'
<1>1. /\ pc' = pc /\ renewer' = renewer
      /\ setup' = setup /\ at' = at /\ steps' = steps /\ open' = open /\ calls' = calls
  BY Zenon DEF World, Tick, Serve, allVars, e2eVars, vars, runVars, renewVars
<1>2. E2eTypeOK'
  BY Zenon, <1>1 DEF E2eInv, E2eTypeOK
<1>3. ASSUME NEW r \in Runs PROVE PlaceOf(r)'
  BY Zenon, <1>1 DEF E2eInv, PlaceOf, ToApi, Ahead, Idle
<1> QED BY Zenon, <1>2, <1>3 DEF E2eInv

\* The lock and its renewal live inside the connection they were made through, and
\* a failed Connect and a Close that has returned leave neither: for any number of
\* runs and callers of Close, any faults, and any route of a provider.
THEOREM LockInsideConnectionHolds == E2eSpec => []LockInsideConnection
<1>1. E2eInit => E2eInv
  <2> SUFFICES ASSUME E2eInit PROVE E2eInv
    OBVIOUS
  <2>1. E2eTypeOK
    BY Zenon, SetupsAssumption DEF E2eInit, E2eTypeOK
  <2>2. ASSUME NEW r \in Runs PROVE PlaceOf(r)
    BY Zenon, <2>1, SetupsAssumption DEF E2eInit, Init, PlaceOf, Idle, Ahead, ReachesApi
  <2> QED BY Zenon, <2>1, <2>2 DEF E2eInv
<1>2. E2eInv /\ TypeOK /\ [E2eNext]_allVars => E2eInv'
  <2> SUFFICES ASSUME E2eInv, TypeOK, [E2eNext]_allVars PROVE E2eInv'
    OBVIOUS
  <2>1. ASSUME NEW r \in Runs, ConnectTestCluster(r) \/ ConnectFails(r) \/ GoesOn(r)
        PROVE  E2eInv'
    BY Zenon, <2>1, ConnectKeepsInv, LockKeepsInv, CloseKeepsInv DEF GoesOn
  <2>2. ASSUME NEW r \in Runs, AcquireFails(r) \/ ReleaseFails(r) \/ Renew(r) \/ Kill(r)
        PROVE  E2eInv'
    BY Zenon, <2>2, LockKeepsInv, CloseKeepsInv
  <2>3. ASSUME NEW r \in Runs, NEW k \in Closers, Close(r, k) \/ CloseAgain(r, k)
        PROVE  E2eInv'
    BY Zenon, <2>3, CloseKeepsInv
  <2> QED BY Zenon, <2>1, <2>2, <2>3, WorldKeepsInv DEF E2eNext
<1>3. E2eInv /\ TypeOK => LockInsideConnection
  <2> SUFFICES ASSUME E2eInv, TypeOK, NEW r \in Runs
               PROVE  /\ \/ pc[r] \in {"get", "writing", "held"} \cup Releasing
                         \/ renewer[r] # "off"
                         => {"client", "tunnel"} \subseteq open[r]
                      /\ \/ at[r] = "failed"
                         \/ \E k \in Closers : calls[r][k] = "returned"
                         => open[r] = {} /\ renewer[r] = "off"
    BY Zenon DEF LockInsideConnection
  <2> QED BY Zenon DEF E2eInv, E2eTypeOK, PlaceOf, ToApi, Idle, Acquiring, Releasing
<1> QED BY <1>1, <1>2, <1>3, SuiteUsesTheLock, TypeCorrect, PTL DEF E2eSpec

==============================================================================
