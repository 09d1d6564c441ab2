------------------------------ MODULE LegacySsh ------------------------------
(***************************************************************************)
(* The first SSH client, internal/infrastructure/ssh/client.go: goroutines *)
(* that share one client run commands, upload files and serve connections  *)
(* of a tunnel.  Each of them reconnects the client when its own operation *)
(* fails, keepalive goroutines use the client meanwhile, and Close takes   *)
(* no lock.                                                                *)
(*                                                                         *)
(* There are two implementations, client and jumpHostClient (a connection  *)
(* to the target inside one to a jump host); they differ in reconnect and  *)
(* in keepalive.  A step is what happens under the mutex without blocking, *)
(* or one blocking call.                                                   *)
(***************************************************************************)
EXTENDS Naturals, FiniteSets

CONSTANTS
    Users,       \* goroutines that use the client: they call Exec and Upload,
    Handlers,    \* or serve connections of a tunnel
    RetryCount,  \* config.SSHRetryCount
    MaxFaults,   \* bound: connections lost, dials that fail, contexts cancelled
    MaxCalls     \* bound: operations in a behaviour

ASSUME LegacySshBounds == /\ Handlers \subseteq Users
                          /\ RetryCount \in Nat \ {0}
                          /\ MaxFaults \in Nat
                          /\ MaxCalls \in Nat

VARIABLES
    kind,       \* which of the two implementations
    cur,        \* the installed connection: sshClient, or jumpClient and targetClient
    ctxDone,    \* keepaliveCtx is cancelled
    ka,         \* running keepalive goroutines, by where they are; keepaliveWg counts them
    mu,         \* who holds the mutex
    opened,     \* <<connection, hop>>: what was dialled and has not been closed
    silent,     \* connections the network lost, which nobody has noticed
    broken,     \* connections known to be lost: every use fails at once
    faults,     \* failures so far
    calls,      \* operations so far
    call,       \* the operation each caller is in
    closing,    \* where Close is
    failedAlone, \* history: callers with an undisturbed operation that failed
    raced       \* history: a context was replaced between a cancel and the end of its wait

kaVars == <<ctxDone, ka>>
chainVars == <<opened, silent, broken>>
history == <<failedAlone, raced>>
legacyVars == <<kind, cur, kaVars, mu, chainVars, faults, calls, call, closing, history>>

Nobody == "none"
ASSUME NobodyIsNoUser == Nobody \notin Users

NoConn == 0
Conns == 1 .. Cardinality(Users) + 2
Legs == IF kind = "client" THEN {"target"} ELSE {"jump", "target"}
Chain(c) == {c} \X Legs
Usable(c) == Chain(c) \subseteq opened /\ c \notin silent \cup broken

\* An operation: where it is, whether its context is cancelled, the
\* connection it uses or builds, its attempts, the attempts of its reconnect, and whether
\* something else happened during it (history).
Call(l, disturbed) == [at |-> l, done |-> FALSE, held |-> NoConn,
                          attempt |-> 0, tries |-> 0, disturbed |-> disturbed]
Idle == Call("idle", FALSE)
At(p, l) == call[p].at = l

\* A dial makes a connection that nothing refers to yet.
Dialled == CHOOSE c \in Conns : /\ c # cur
                                /\ \A p \in Users : call[p].held # c
                                /\ \A o \in opened : o[1] # c

\* A goroutine (jumpHostClient has two of them, which do the same for the two
\* hops) waits in its select on the context it evaluated there: the current one
\* (current), one that was replaced without having been cancelled (lost) or a
\* cancelled one (ended); or its ticker has fired (ticked).
NoKeepalive == [current |-> 0, lost |-> 0, ended |-> 0, ticked |-> 0]
startKeepalive(k, isDone) == [k EXCEPT ![IF isDone THEN "ended" ELSE "current"] = @ + 1]
keepaliveCancel(k) == [k EXCEPT !.ended = @ + k.current, !.current = 0]
Replaced(k) == [k EXCEPT !.lost = @ + k.current, !.current = 0]

\* What Create makes, and NewClientWithJumpHost.
Create ==
    /\ cur = 1 /\ opened = Chain(1)
    /\ ctxDone = FALSE /\ ka = startKeepalive(NoKeepalive, FALSE)

\* A client has been made; the network has lost its connection since.
LegacyInit ==
    /\ kind \in {"client", "jumpHostClient"}
    /\ Create
    /\ mu = Nobody
    /\ silent = {} /\ broken = {cur}
    /\ faults = 0 /\ calls = 0
    /\ call = [p \in Users |-> Idle]
    /\ closing = "no"
    /\ failedAlone = {} /\ raced = FALSE

Goes(p, l) == call' = [call EXCEPT ![p].at = l] /\ UNCHANGED failedAlone

Return(p, r) ==
    /\ call' = [call EXCEPT ![p] = Idle]
    /\ failedAlone' = failedAlone \cup {q \in {p} : r = "err" /\ ~ call[q].disturbed}

Disturbed(f) == [p \in Users |-> [f[p] EXCEPT !.disturbed = f[p].at # "idle"]]

\* Closing a connection; what the network did to it no longer matters.
CloseChain(c) ==
    /\ opened' = opened \ Chain(c)
    /\ silent' = silent \ {c}
    /\ broken' = broken \ {c}

\* Using a lost connection brings it to light.
Notice(c) ==
    /\ broken' = broken \cup ({c} \cap silent)
    /\ silent' = silent \ {c}
    /\ UNCHANGED opened

---------------------------------------------------------------------------
(* The operations.                                                         *)

\* Exec, ExecCapture, Upload, UploadPrivate are called; the accept loop of the
\* tunnel starts a handler.
Start(p) ==
    /\ At(p, "idle") /\ calls < MaxCalls
    /\ closing = "no"
    /\ LET others == \E q \in Users : ~ At(q, "idle")
       IN call' = [Disturbed(call) EXCEPT ![p] = Call("loop", others \/ cur \in silent)]
    /\ calls' = calls + 1
    /\ UNCHANGED <<kind, cur, kaVars, mu, chainVars, faults, closing, history>>

\* Mutant: only an operation that was under way is repaired.
isConnectionErrorNarrow(c) == IF c \in silent THEN BOOLEAN ELSE {c \in broken}

\* isConnectionError recognises what a connection known to be lost answers.
\* An operation that is under way when the connection goes may also end with a
\* text it does not know, such as a missing exit status.
isConnectionError(c) == IF c \in silent THEN BOOLEAN ELSE {TRUE}

\* What an operation does with an error: reconnect and try again for a
\* connection error, return the others.  A tunnel handler reconnects once.
Fail(p, isConn) ==
    IF isConn /\ ~ (p \in Handlers /\ call[p].attempt > 0)
    THEN /\ call' = [call EXCEPT ![p].at = IF kind = "client" THEN "lock" ELSE "cancel",
                                 ![p].held = NoConn]
         /\ UNCHANGED failedAlone
    ELSE Return(p, "err")

\* The top of the loop: the context is looked at (a tunnel handler does not),
\* the client is read under the mutex, and NewSession, sftp.NewClient or Dial
\* tries it.
OpenSession(p) ==
    /\ At(p, "loop")
    /\ IF call[p].done /\ p \notin Handlers
       THEN Return(p, "err") /\ UNCHANGED chainVars
       ELSE /\ mu = Nobody
            /\ IF Usable(cur)
               THEN /\ call' = [call EXCEPT ![p].at = "run", ![p].held = cur]
                    /\ UNCHANGED failedAlone
               ELSE \E b \in isConnectionError(cur) : Fail(p, b)
            /\ Notice(cur)
    /\ UNCHANGED <<kind, cur, kaVars, mu, faults, calls, closing, raced>>

\* The command runs to its end (with whatever exit status), or the connection
\* goes away under it; the context is looked at afterwards.
RunCommand(p) ==
    /\ At(p, "run") /\ p \notin Handlers
    /\ IF Usable(call[p].held) THEN Return(p, IF call[p].done THEN "err" ELSE "ok")
                               ELSE \E b \in BOOLEAN : Fail(p, b /\ ~ call[p].done)
    /\ Notice(call[p].held)
    /\ UNCHANGED <<kind, cur, kaVars, mu, faults, calls, closing, raced>>

\* The file is copied to its end, the copy stops since the context has ended,
\* or the connection goes away under it.
Upload(p) ==
    /\ At(p, "run") /\ p \notin Handlers
    /\ \/ Usable(call[p].held) /\ Return(p, "ok")
       \/ call[p].done /\ Return(p, "err")
       \/ ~ Usable(call[p].held) /\ \E b \in BOOLEAN : Fail(p, b)
    /\ Notice(call[p].held)
    /\ UNCHANGED <<kind, cur, kaVars, mu, faults, calls, closing, raced>>

Exec(p) == OpenSession(p) \/ RunCommand(p)

\* A handler copies both ways until both ends are through or its context ends.
Serve(p) ==
    /\ At(p, "run") /\ p \in Handlers
    /\ Return(p, "ok")
    /\ UNCHANGED <<kind, cur, kaVars, mu, chainVars, faults, calls, closing, raced>>

\* reconnect has returned nil: continue, unless the attempts are used up.
Again(p) ==
    IF p \notin Handlers /\ call[p].attempt + 1 = RetryCount
    THEN Return(p, "err")
    ELSE /\ call' = [call EXCEPT ![p].at = "loop", ![p].held = NoConn,
                                 ![p].attempt = @ + 1, ![p].tries = 0]
         /\ UNCHANGED failedAlone

---------------------------------------------------------------------------
(* keepaliveWg.Wait, in both reconnects and in Close: it returns at once   *)
(* when no goroutine is running, and otherwise when the last one ends,     *)
(* even if others are started right after.                                 *)

AfterWait == IF kind = "client" THEN "closeOld" ELSE "lock"

Wait(p) ==
    /\ At(p, "cancelled")
    /\ Goes(p, IF ka = NoKeepalive THEN AfterWait ELSE "waiting")
    /\ UNCHANGED <<kind, cur, kaVars, mu, chainVars, faults, calls, closing, raced>>

CloseWait ==
    /\ closing = "cancelled"
    /\ closing' = IF ka = NoKeepalive THEN "close" ELSE "waiting"
    /\ UNCHANGED <<kind, cur, kaVars, mu, chainVars, faults, calls, call, history>>

\* A keepalive goroutine ends, leaving k.
Release(k) ==
    /\ ka' = k
    /\ IF k = NoKeepalive
       THEN /\ call' = [p \in Users |-> IF At(p, "waiting") THEN [call[p] EXCEPT !.at = AfterWait]
                                                            ELSE call[p]]
            /\ closing' = IF closing = "waiting" THEN "close" ELSE closing
       ELSE UNCHANGED <<call, closing>>

\* A new context is installed; did somebody mean to wait for the old one?
Race == raced' = (raced \/ closing \in {"cancelled", "waiting"}
                        \/ \E q \in Users : call[q].at \in {"cancelled", "waiting"})

---------------------------------------------------------------------------
(* client.reconnect: all of it under the mutex.                            *)

ClientLock(p) ==
    /\ At(p, "lock") /\ kind = "client"
    /\ mu = Nobody /\ mu' = p
    /\ ctxDone' = TRUE /\ ka' = keepaliveCancel(ka)
    /\ Goes(p, "cancelled")
    /\ UNCHANGED <<kind, cur, chainVars, faults, calls, closing, raced>>

ClientCloseOld(p) ==
    /\ At(p, "closeOld")
    /\ CloseChain(cur)
    /\ Goes(p, "dial")
    /\ UNCHANGED <<kind, cur, kaVars, mu, faults, calls, closing, raced>>

\* Success: the connection is installed and its keepalive started.
ClientDial(p) ==
    /\ At(p, "dial") /\ kind = "client"
    /\ ~ call[p].done
    /\ opened' = opened \cup Chain(Dialled)
    /\ cur' = Dialled
    /\ ctxDone' = FALSE /\ ka' = startKeepalive(Replaced(ka), FALSE)
    /\ mu' = Nobody
    /\ Again(p) /\ Race
    /\ UNCHANGED <<kind, silent, broken, faults, calls, closing>>

---------------------------------------------------------------------------
(* jumpHostClient.reconnect: the keepalives are stopped before the mutex   *)
(* is taken, and started after it is released.                             *)

JumpCancel(p) ==
    /\ At(p, "cancel")
    /\ ctxDone' = TRUE /\ ka' = keepaliveCancel(ka)
    /\ Goes(p, "cancelled")
    /\ UNCHANGED <<kind, cur, mu, chainVars, faults, calls, closing, raced>>

JumpCloseOld(p) ==
    /\ At(p, "lock") /\ kind = "jumpHostClient"
    /\ mu = Nobody /\ mu' = p
    /\ CloseChain(cur)
    /\ Goes(p, "dial")
    /\ UNCHANGED <<kind, cur, kaVars, faults, calls, closing, raced>>

JumpDial(p) ==
    /\ At(p, "dial") /\ kind = "jumpHostClient"
    /\ ~ call[p].done
    /\ opened' = opened \cup {<<Dialled, "jump">>}
    /\ call' = [call EXCEPT ![p].at = "dialTarget", ![p].held = Dialled]
    /\ UNCHANGED <<kind, cur, kaVars, mu, silent, broken, faults, calls, closing, history>>

\* Success: both are installed, and the mutex is released for startKeepalive.
JumpDialTarget(p) ==
    /\ At(p, "dialTarget")
    /\ opened' = opened \cup {<<call[p].held, "target">>}
    /\ cur' = call[p].held
    /\ ctxDone' = FALSE /\ ka' = Replaced(ka)
    /\ mu' = Nobody
    /\ Goes(p, "start") /\ Race
    /\ UNCHANGED <<kind, silent, broken, faults, calls, closing>>

JumpStart(p) ==
    /\ At(p, "start")
    /\ ka' = startKeepalive(ka, ctxDone)
    /\ Goes(p, "relock")
    /\ UNCHANGED <<kind, cur, ctxDone, mu, chainVars, faults, calls, closing, raced>>

\* The mutex is taken once more for the deferred unlock.
JumpRelock(p) ==
    /\ At(p, "relock")
    /\ mu = Nobody
    /\ Again(p)
    /\ UNCHANGED <<kind, cur, kaVars, mu, chainVars, faults, calls, closing, raced>>

---------------------------------------------------------------------------
(* Both: attempts of reconnect that fail.                                  *)

\* One attempt less; after the last one reconnect gives up and the operation
\* with it.  What was closed stays installed.
NextTry(p) ==
    /\ faults < MaxFaults /\ faults' = faults + 1
    /\ IF call[p].tries + 1 = RetryCount
       THEN mu' = Nobody /\ call' = [call EXCEPT ![p] = Idle]
       ELSE /\ call' = [call EXCEPT ![p].at = "dial", ![p].held = NoConn,
                                    ![p].tries = @ + 1, ![p].disturbed = TRUE]
            /\ UNCHANGED mu
    /\ UNCHANGED <<kind, cur, kaVars, calls, closing, history>>

\* No key, no answer, a failed handshake.
RedialFails(p) ==
    /\ At(p, "dial") /\ ~ call[p].done
    /\ NextTry(p)
    /\ UNCHANGED chainVars

\* Mutant: the connection to the jump host is forgotten.
JumpTargetFailsOpen(p) ==
    /\ At(p, "dialTarget")
    /\ UNCHANGED chainVars
    /\ NextTry(p)

\* The new connection to the jump host is closed.
JumpTargetFails(p) ==
    /\ At(p, "dialTarget")
    /\ CloseChain(call[p].held)
    /\ NextTry(p)

\* The context has ended.
DialStopped(p) ==
    /\ At(p, "dial") /\ call[p].done
    /\ mu' = Nobody /\ Return(p, "err")
    /\ UNCHANGED <<kind, cur, kaVars, chainVars, faults, calls, closing, raced>>

---------------------------------------------------------------------------
(* Keepalive, Close and the world.                                         *)

KeepaliveExit ==
    /\ ka.ended > 0
    /\ Release([ka EXCEPT !.ended = @ - 1])
    /\ UNCHANGED <<kind, cur, ctxDone, mu, chainVars, faults, calls, history>>

\* client: a request on the current connection; an error ends the goroutine.
\* (A tick that comes together with the cancellation is one that came before.)
KeepaliveClient ==
    /\ kind = "client" /\ ka.current > 0
    /\ ~ Usable(cur)
    /\ Release([ka EXCEPT !.current = @ - 1])
    /\ Notice(cur)
    /\ UNCHANGED <<kind, cur, ctxDone, mu, faults, calls, history>>

\* Mutant: the goroutine holds on to the context it was started with.
KeepaliveTickOwnContext(at) ==
    /\ kind = "jumpHostClient" /\ ka[at] > 0 /\ at # "lost"
    /\ ka' = [ka EXCEPT ![at] = @ - 1, !.ticked = @ + 1]
    /\ UNCHANGED <<kind, cur, ctxDone, mu, chainVars, faults, calls, call, closing, history>>

\* jumpHostClient: the ticker fires.
KeepaliveTick(at) ==
    /\ kind = "jumpHostClient" /\ ka[at] > 0
    /\ ka' = [ka EXCEPT ![at] = @ - 1, !.ticked = @ + 1]
    /\ UNCHANGED <<kind, cur, ctxDone, mu, chainVars, faults, calls, call, closing, history>>

\* The request is sent under the mutex and its outcome is not looked at; back
\* in the select, c.keepaliveCtx is evaluated again.
KeepaliveJump ==
    /\ ka.ticked > 0
    /\ mu = Nobody
    /\ ka' = [ka EXCEPT !.ticked = @ - 1, ![IF ctxDone THEN "ended" ELSE "current"] = @ + 1]
    /\ Notice(cur)
    /\ UNCHANGED <<kind, cur, ctxDone, mu, faults, calls, call, closing, history>>

\* Close cancels the keepalives, waits for them and closes what is installed,
\* all without the mutex.
CloseCancel ==
    /\ closing = "no" /\ closing' = "cancelled"
    /\ ctxDone' = TRUE /\ ka' = keepaliveCancel(ka)
    /\ call' = Disturbed(call)
    /\ UNCHANGED <<kind, cur, mu, chainVars, faults, calls, history>>

CloseConns ==
    /\ closing = "close" /\ closing' = "done"
    /\ CloseChain(cur)
    /\ UNCHANGED <<kind, cur, kaVars, mu, faults, calls, call, history>>

\* The network loses the connection; somebody notices at once, or nobody does.
Lose ==
    /\ faults < MaxFaults /\ faults' = faults + 1
    /\ Usable(cur)
    /\ \/ silent' = silent \cup {cur} /\ UNCHANGED broken
       \/ broken' = broken \cup {cur} /\ UNCHANGED silent
    /\ call' = Disturbed(call)
    /\ UNCHANGED <<kind, cur, kaVars, mu, opened, calls, closing, history>>

\* The caller's context is cancelled, by the time somebody looks at it.
Cancel(p) ==
    /\ faults < MaxFaults /\ faults' = faults + 1
    /\ call[p].at \in {"loop", "run", "dial"} /\ ~ call[p].done
    /\ call' = [call EXCEPT ![p].done = TRUE, ![p].disturbed = TRUE]
    /\ UNCHANGED <<kind, cur, kaVars, mu, chainVars, calls, closing, history>>

reconnect(p) ==
    \/ ClientLock(p) \/ ClientCloseOld(p) \/ ClientDial(p)
    \/ JumpCancel(p) \/ JumpCloseOld(p) \/ JumpDial(p) \/ JumpDialTarget(p)
    \/ JumpStart(p) \/ JumpRelock(p)
    \/ Wait(p) \/ DialStopped(p)

Step(p) == Exec(p) \/ Upload(p) \/ reconnect(p)

LegacyNext ==
    \/ \E p \in Users :
         \/ Start(p) \/ Step(p) \/ Serve(p) \/ Cancel(p) \/ RedialFails(p) \/ JumpTargetFails(p)
    \/ KeepaliveExit \/ KeepaliveClient \/ KeepaliveJump
    \/ \E at \in {"current", "lost"} : KeepaliveTick(at)
    \/ CloseCancel \/ CloseWait \/ CloseConns \/ Lose

LegacySpec == LegacyInit /\ [][LegacyNext]_legacyVars

\* Goroutines are scheduled and tickers fire.
LegacyFairSpec ==
    /\ LegacySpec
    /\ \A p \in Users : WF_legacyVars(Step(p) \/ (call[p].done /\ Serve(p)))
    /\ WF_legacyVars(CloseWait \/ CloseConns)
    /\ WF_legacyVars(KeepaliveExit \/ KeepaliveTick("lost"))
    /\ WF_legacyVars(KeepaliveJump)

---------------------------------------------------------------------------

Places == {"idle", "loop", "run", "lock", "cancel", "cancelled", "waiting", "closeOld",
           "dial", "dialTarget", "start", "relock"}

\* The variables have their types.
LegacyTypeOK ==
    /\ kind \in {"client", "jumpHostClient"}
    /\ cur \in Conns
    /\ ctxDone \in BOOLEAN /\ raced \in BOOLEAN
    /\ ka \in [{"current", "lost", "ended", "ticked"} -> Nat]
    /\ silent \subseteq Conns /\ broken \subseteq Conns
    /\ opened \subseteq Conns \X {"jump", "target"}
    /\ mu \in Users \cup {Nobody}
    /\ closing \in {"no", "cancelled", "waiting", "close", "done"}
    /\ faults \in 0 .. MaxFaults /\ calls \in 0 .. MaxCalls
    /\ call \in [Users -> [at : Places, done : BOOLEAN, held : Conns \cup {NoConn},
                           attempt : 0 .. RetryCount, tries : 0 .. RetryCount,
                           disturbed : BOOLEAN]]
    /\ failedAlone \subseteq Users

\* Whatever is open is installed, or is being built by the goroutine that holds
\* the mutex: no sequence of failed dials, of reconnects by several goroutines
\* that saw the same failure, and of Close in between leaves a connection that
\* the client no longer refers to.
NoOrphan ==
    \A o \in opened : \/ o[1] = cur
                      \/ \E p \in Users : mu = p /\ At(p, "dialTarget") /\ o[1] = call[p].held

\* An operation during which nothing was lost, no dial failed and nobody else
\* used the client succeeds: it repairs whatever an earlier failure, or an
\* earlier reconnect that gave up, has left behind.
CallHealsAlone == failedAlone = {}

\* Every operation returns (a tunnel handler when its context ends), and Close
\* does, also when overlapping reconnects have lost the cancel function of
\* keepalive goroutines that still run: unless a reconnect replaced the context
\* between the cancel and the wait of somebody else.
OperationsReturn ==
    /\ \A p \in Users :
         ~ At(p, "idle") /\ (p \in Handlers => call[p].done) ~> At(p, "idle") \/ raced
    /\ closing = "cancelled" ~> closing = "done" \/ raced

==============================================================================
