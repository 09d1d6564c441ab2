------------------------------ MODULE E2eConnect ------------------------------
(***************************************************************************)
(* The entry point of a test suite, pkg/e2e: Connect opens the provider's  *)
(* connection to the test cluster, waits until the cluster is healthy and  *)
(* takes the cluster lock through that connection; Close releases the lock *)
(* and then tears the connection down, once, however many goroutines call  *)
(* it.  The lock is the one of LeaseLock, whose actions are taken here     *)
(* from the places of Connect and Close that call them.                    *)
(*                                                                         *)
(* A provider's ConnectTestCluster opens SSH clients and tunnels one after *)
(* the other, and every error path closes what is open at that moment; so  *)
(* does Cleanup.  A route is the list of what is opened and closed again.  *)
(***************************************************************************)
EXTENDS LeaseLock, Sequences

CONSTANTS
    Setups,     \* what the runs may be: functions from Runs to [route, lock, closers]
    Closers     \* goroutines of a run; those in its setup call Close

VARIABLES
    setup,      \* the provider and the options of each run
    at,         \* where a run is between Connect and the end of Close
    steps,      \* what ConnectTestCluster has still to do
    open,       \* the clients and tunnels that are open
    calls       \* the calls of Close

e2eVars == <<setup, at, steps, open, calls>>
allVars == <<vars, e2eVars>>

Steps == [do : {"open", "close"}, what : STRING]
Opens(x) == [do |-> "open", what |-> x]
Closes(x) == [do |-> "close", what |-> x]

\* dvp: the base cluster, directly or through a client and a tunnel; a session on
\* the master that fetches the kubeconfig; a client and a tunnel to the master.
DvpDirect == <<Opens("exec"), Closes("exec"), Opens("client"), Opens("tunnel")>>
DvpTunnelled == <<Opens("baseClient"), Opens("baseTunnel")>> \o DvpDirect

\* commander: one client serves the fetch of the kubeconfig and the tunnel.
Commander == <<Opens("client"), Opens("tunnel")>>

\* Every route ends with the client and the tunnel that the rest.Config points at.
ReachesApi(route) ==
    /\ Len(route) > 1
    /\ route[Len(route) - 1] = Opens("client") /\ route[Len(route)] = Opens("tunnel")

ASSUME SetupsAssumption ==
    \A s \in Setups : \A r \in Runs :
        s[r].route \in Seq(Steps) /\ ReachesApi(s[r].route) /\ s[r].lock \in BOOLEAN

-----------------------------------------------------------------------------
E2eInit ==
    /\ Init
    /\ setup \in Setups
    /\ at = [r \in Runs |-> "connect"]
    /\ steps = [r \in Runs |-> setup[r].route]
    /\ open = [r \in Runs |-> {}]
    /\ calls = [r \in Runs |-> [k \in Closers |-> "none"]]

Goto(r, place) == at' = [at EXCEPT ![r] = place]

-----------------------------------------------------------------------------
(* Connect.                                                                *)

\* The next client or tunnel; after the last one newCluster builds the clients.
ConnectTestCluster(r) ==
    /\ at[r] = "connect"
    /\ LET s == Head(steps[r])
       IN  open' = [open EXCEPT ![r] = IF s.do = "open" THEN @ \cup {s.what} ELSE @ \ {s.what}]
    /\ steps' = [steps EXCEPT ![r] = Tail(@)]
    /\ Goto(r, IF Tail(steps[r]) = <<>> THEN "health" ELSE "connect")
    /\ UNCHANGED <<vars, setup, calls>>

\* A call of ConnectTestCluster fails, or the virtualization client, the address of
\* the master, the kubeconfig or a client of newCluster cannot be had: runCleanups.
ConnectFails(r) ==
    /\ at[r] = "connect"
    /\ Goto(r, "failed")
    /\ steps' = [steps EXCEPT ![r] = <<>>]
    /\ open' = [open EXCEPT ![r] = {}]
    /\ UNCHANGED <<vars, setup, calls>>

\* A check finds the control plane Ready and Deckhouse Available, or WithoutHealthCheck.
waitClusterHealthy(r) ==
    /\ at[r] = "health"
    /\ Goto(r, IF setup[r].lock THEN "lock" ELSE "use")
    /\ UNCHANGED <<vars, setup, steps, open, calls>>

\* healthCheckTimeout, or the caller's context ends.
HealthFails(r) ==
    /\ at[r] = "health"
    /\ Goto(r, "undo")
    /\ UNCHANGED <<vars, setup, steps, open, calls>>

\* After a step of AcquireLease: it goes on, or returns with the lock or an error.
AfterAcquire(r) ==
    /\ Goto(r, CASE pc'[r] = "held" -> "use" [] pc'[r] = "stopped" -> "undo" [] OTHER -> "lock")
    /\ UNCHANGED <<setup, steps, open, calls>>

AcquireLease(r) ==
    /\ at[r] = "lock" /\ Acquire(r)
    /\ AfterAcquire(r)

AcquireFails(r) ==
    /\ at[r] = "lock" /\ (AcquireCallFails(r) \/ AcquireAborts(r))
    /\ AfterAcquire(r)

\* conn.Cleanup of a Connect that fails, and of Close.
Cleanup(r) ==
    /\ at[r] \in {"undo", "cleanup"}
    /\ Goto(r, IF at[r] = "undo" THEN "failed" ELSE "closed")
    /\ open' = [open EXCEPT ![r] = {}]
    /\ UNCHANGED <<vars, setup, steps, calls>>

-----------------------------------------------------------------------------
(* Close.                                                                  *)

Calls(r, k, state) == calls' = [calls EXCEPT ![r][k] = state]

\* The first call of Close enters closeOnce.Do.
Close(r, k) ==
    /\ at[r] = "use" /\ k \in setup[r].closers
    /\ \/ setup[r].lock /\ BeginRelease(r) /\ Goto(r, "release")
       \/ ~setup[r].lock /\ UNCHANGED vars /\ Goto(r, "cleanup")
    /\ Calls(r, k, "inside")
    /\ UNCHANGED <<setup, steps, open>>

\* Mutant: a flag instead of sync.Once.
CloseAgainAtOnce(r, k) ==
    /\ at[r] \in {"release", "cleanup", "closed"}
    /\ k \in setup[r].closers /\ calls[r][k] = "none"
    /\ Calls(r, k, "returned")
    /\ UNCHANGED <<vars, setup, steps, at, open>>

\* A further call waits in closeOnce.Do for the first.
CloseAgain(r, k) ==
    /\ at[r] \in {"release", "cleanup", "closed"}
    /\ k \in setup[r].closers /\ calls[r][k] = "none"
    /\ Calls(r, k, "waiting")
    /\ UNCHANGED <<vars, setup, steps, at, open>>

\* After a step of Release: its error is kept for the callers, and Cleanup follows.
AfterRelease(r) ==
    /\ Goto(r, IF pc'[r] = "stopped" THEN "cleanup" ELSE "release")
    /\ UNCHANGED <<setup, steps, open, calls>>

ReleaseLease(r) ==
    /\ at[r] = "release" /\ (ReleaseGet(r) \/ Deleted(r))
    /\ AfterRelease(r)

ReleaseFails(r) ==
    /\ at[r] = "release" /\ (ReleaseCallFails(r) \/ ReleaseAborts(r))
    /\ AfterRelease(r)

CloseReturns(r, k) ==
    /\ at[r] = "closed" /\ calls[r][k] \in {"inside", "waiting"}
    /\ Calls(r, k, "returned")
    /\ UNCHANGED <<vars, setup, steps, at, open>>

-----------------------------------------------------------------------------
\* The renewal goroutine.
Renew(r) ==
    /\ Renewal(r) \/ RenewGetFails(r) \/ RenewTimesOut(r)
    /\ UNCHANGED e2eVars

\* The process dies, and its connections with it.
Kill(r) ==
    /\ at[r] \notin {"failed", "closed", "dead"}
    /\ Crash(r) \/ (pc[r] = "stopped" /\ UNCHANGED vars)
    /\ Goto(r, "dead")
    /\ steps' = [steps EXCEPT ![r] = <<>>]
    /\ open' = [open EXCEPT ![r] = {}]
    /\ calls' = [calls EXCEPT ![r] = [k \in Closers |-> "none"]]
    /\ UNCHANGED setup

World ==
    /\ Tick \/ \E q \in net : Serve(q)
    /\ UNCHANGED e2eVars

\* The goroutine that called Connect and is connected, or is inside Close, and those
\* that wait for it.
GoesOn(r) ==
    \/ waitClusterHealthy(r) \/ HealthFails(r)
    \/ AcquireLease(r) \/ ReleaseLease(r) \/ Cleanup(r)
    \/ \E k \in Closers : CloseReturns(r, k)

E2eNext ==
    \/ \E r \in Runs : ConnectTestCluster(r) \/ ConnectFails(r) \/ GoesOn(r)
    \/ \E r \in Runs : AcquireFails(r) \/ ReleaseFails(r) \/ Renew(r) \/ Kill(r)
    \/ \E r \in Runs, k \in Closers : Close(r, k) \/ CloseAgain(r, k)
    \/ World

E2eSpec == E2eInit /\ [][E2eNext]_allVars

(***************************************************************************)
(* Fairness: goroutines go on; the health check has a timeout, and a call  *)
(* of the API that somebody waits for is answered or fails, by the         *)
(* timeouts of configureTunnelTimeouts.  Nothing makes a test end, an      *)
(* abandoned request arrive, or the provider's connection come up: a       *)
(* handshake behind a jump host has no deadline (SshConn), and             *)
(* ConnectTestCluster cuts itself off from the caller's context.           *)
(***************************************************************************)
Fairness ==
    \A r \in Runs :
        /\ WF_allVars(GoesOn(r))
        /\ WF_allVars(\E q \in net : q.from = r /\ Awaited(q) /\ Serve(q) /\ UNCHANGED e2eVars)

FairSpec == E2eSpec /\ Fairness

-----------------------------------------------------------------------------
(* Properties.                                                             *)

\* The lock lives inside the connection it was taken through: while AcquireLease or
\* Release is at work and while the renewal goroutine runs, the tunnel is open; and
\* once Connect has failed or any call of Close has returned, nothing is open and
\* nothing renews ("Close releases everything the run holds on the cluster").
LockInsideConnection ==
    \A r \in Runs :
        /\ pc[r] \in {"get", "writing", "held"} \cup Releasing \/ renewer[r] # "off" =>
              {"client", "tunnel"} \subseteq open[r]
        /\ at[r] = "failed" \/ (\E k \in Closers : calls[r][k] = "returned") =>
              open[r] = {} /\ renewer[r] = "off"

\* A connected Connect or a call of Close is under way.
InCall(r) ==
    \/ at[r] \in {"health", "lock", "undo"}
    \/ \E k \in Closers : calls[r][k] \in {"inside", "waiting"}

\* Once connected, Connect returns, with a handle or with an error, and so does every
\* call of Close, although the lock's calls may fail and the goroutine Release waits
\* for may be in the middle of a request.
CallsReturn == \A r \in Runs : InCall(r) ~> ~InCall(r)

===============================================================================
