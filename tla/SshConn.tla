------------------------------- MODULE SshConn -------------------------------
(***************************************************************************)
(* The self-healing SSH connection of internal/infrastructure/ssh/v2:      *)
(* callers run operations through withConn, a keepalive goroutine probes   *)
(* the connection, both heal it through refresh (one flight per failed     *)
(* generation, golang.org/x/sync/singleflight), and Close tears it down    *)
(* while any of this is going on.                                          *)
(*                                                                         *)
(* A connection is a chain of ssh clients, one per hop of the route, known *)
(* by the number of the dial that made it.  A step is what happens under   *)
(* the mutex, or one blocking call.                                        *)
(***************************************************************************)
EXTENDS Naturals

CONSTANTS
    Callers,     \* goroutines that call withConn (Exec, tunnel handlers)
    Keepalive,   \* the keepalive goroutine
    Retries,     \* options.retries
    Hops,        \* hops of the route
    ChannelDeadline, \* does a connection through a jump host honour SetDeadline?
                 \* (external: that of golang.org/x/crypto/ssh does not)
    MaxDials,    \* bound: dials that succeed in a behaviour
    MaxBreaks    \* bound: transport failures and spurious timeouts

ASSUME ProcAssumption == Keepalive \notin Callers
ASSUME ConnBounds == /\ Retries \in Nat
                     /\ Hops \in Nat \ {0}
                     /\ ChannelDeadline \in BOOLEAN
                     /\ MaxDials \in Nat \ {0}
                     /\ MaxBreaks \in Nat

Procs == Callers \cup {Keepalive}
None == 0   \* the nil client

VARIABLES
    client,     \* conn.client and conn.closer, set and cleared together
    gen,        \* conn.gen
    closed,     \* conn.closed
    life,       \* lifeCtx is cancelled
    flight,     \* keys (failed generations) with a call in flight
    kpc,        \* the goroutine that calls Close
    toClose,    \* the closer Close took out of conn
    open,       \* connections we dialled and have not closed
    dead,       \* connections whose transport failed
    dials,      \* dials that succeeded
    breaks,     \* failures so far
    pc,         \* where a goroutine is
    cl,         \* the client it works with
    g,          \* the generation of that client; failedGen inside refresh
    attempt,    \* attempt counter of withConn
    hop,        \* clients in the chain it is dialling
    mine,       \* the connection it dialled
    myGen,      \* newGen of refresh
    old         \* the closer it replaced

connVars == <<client, gen, closed, life, flight>>
closeVars == <<kpc, toClose>>
netVars == <<open, dead, dials, breaks>>
procVars == <<pc, cl, g, attempt, hop, mine, myGen, old>>
vars == <<connVars, closeVars, netVars, procVars>>

\* A goroutine is inside refresh's flight as its leader.
Dialling == {"dial", "shake", "install"}
Leading == {"check", "drop", "closeOld"} \cup Dialling
PCs == {"idle", "try", "refresh", "join", "exit"} \cup Leading

\* newConn: the first dial has succeeded.
Init ==
    /\ client = 1 /\ gen = 1 /\ closed = FALSE /\ life = FALSE
    /\ flight = {}
    /\ kpc = "none" /\ toClose = None
    /\ open = {1} /\ dead = {} /\ dials = 1 /\ breaks = 0
    /\ pc = [p \in Procs |-> "idle"]
    /\ cl = [p \in Procs |-> None]
    /\ g = [p \in Procs |-> 0]
    /\ attempt = [p \in Procs |-> 0]
    /\ hop = [p \in Procs |-> 0]
    /\ mine = [p \in Procs |-> None]
    /\ myGen = [p \in Procs |-> 0]
    /\ old = [p \in Procs |-> None]

Works(c) == c \in open /\ c \notin dead
Goto(p, label) == pc' = [pc EXCEPT ![p] = label]

-----------------------------------------------------------------------------
(* withConn and keepaliveLoop up to the call of refresh.                   *)

\* A caller starts an operation, or a tick starts a probe: take a snapshot.
snapshot(p) ==
    /\ pc[p] = "idle"
    /\ p = Keepalive => ~life /\ client # None
    /\ cl' = [cl EXCEPT ![p] = client]
    /\ g' = [g EXCEPT ![p] = gen]
    /\ attempt' = [attempt EXCEPT ![p] = 0]
    /\ Goto(p, "try")
    /\ UNCHANGED <<connVars, closeVars, netVars, hop, mine, myGen, old>>

\* The operation or the probe succeeds, or the operation ends with an error that
\* is no matter of the connection: no client, a cancelled context, not transient.
Returns(p) ==
    /\ pc[p] = "try"
    /\ p = Keepalive => Works(cl[p])
    /\ Goto(p, "idle")
    /\ UNCHANGED <<connVars, closeVars, netVars, cl, g, attempt, hop, mine, myGen, old>>

\* The operation fails with a transient error, the probe with any error; on a
\* connection that works this is a timeout.
OpFails(p) ==
    /\ pc[p] = "try" /\ cl[p] # None
    /\ p = Keepalive => ~life
    /\ \/ ~Works(cl[p]) /\ UNCHANGED breaks
       \/ Works(cl[p]) /\ breaks < MaxBreaks /\ breaks' = breaks + 1
    /\ \/ p # Keepalive /\ attempt[p] >= Retries /\ Goto(p, "idle")
       \/ (p = Keepalive \/ attempt[p] < Retries) /\ Goto(p, "refresh")
    /\ UNCHANGED <<connVars, closeVars, open, dead, dials, cl, g, attempt, hop, mine, myGen, old>>

\* Mutant: keepaliveLoop waits for the next tick only, not for its context.
KeepaliveExitsProbing ==
    /\ pc[Keepalive] = "try" /\ life
    /\ Goto(Keepalive, "exit")
    /\ UNCHANGED <<connVars, closeVars, netVars, cl, g, attempt, hop, mine, myGen, old>>

\* keepaliveLoop returns when its context is done, while waiting or probing.
KeepaliveExits ==
    /\ pc[Keepalive] \in {"idle", "try"} /\ life
    /\ Goto(Keepalive, "exit")
    /\ UNCHANGED <<connVars, closeVars, netVars, cl, g, attempt, hop, mine, myGen, old>>

-----------------------------------------------------------------------------
(* refresh.                                                                *)

\* singleflight.Do: lead the flight of the failed generation, or wait for it.
EnterFlight(p) ==
    /\ pc[p] = "refresh"
    /\ \/ g[p] \notin flight /\ flight' = flight \cup {g[p]} /\ Goto(p, "check")
       \/ g[p] \in flight /\ UNCHANGED flight /\ Goto(p, "join")
    /\ UNCHANGED <<client, gen, closed, life, closeVars, netVars, cl, g, attempt, hop, mine, myGen,
                   old>>

\* The leader and everyone who waits for the same flight.
Party(p) == {p} \cup {s \in Procs : pc[s] = "join" /\ g[s] = g[p]}

\* The flight ends with a client: callers try again, keepaliveLoop goes on.
FlightHeals(p, c, n) ==
    /\ flight' = flight \ {g[p]}
    /\ pc' = [s \in Procs |-> IF s \notin Party(p) THEN pc[s]
                              ELSE IF s = Keepalive THEN "idle" ELSE "try"]
    /\ cl' = [s \in Procs |-> IF s \in Party(p) THEN c ELSE cl[s]]
    /\ g' = [s \in Procs |-> IF s \in Party(p) THEN n ELSE g[s]]
    /\ attempt' = [s \in Procs |-> IF s \in Party(p) \ {Keepalive} THEN attempt[s] + 1
                                   ELSE attempt[s]]

\* Mutant: keepaliveLoop stops at any failed refresh.
FlightFailsForGood(p) ==
    /\ flight' = flight \ {g[p]}
    /\ pc' = [s \in Procs |-> IF s \notin Party(p) THEN pc[s]
                              ELSE IF s = Keepalive THEN "exit" ELSE "idle"]
    /\ UNCHANGED <<cl, g, attempt>>

\* The flight ends with an error: callers return it, keepaliveLoop stops when the
\* connection is closed and otherwise waits for the next tick.
FlightFails(p) ==
    /\ flight' = flight \ {g[p]}
    /\ pc' = [s \in Procs |-> IF s \notin Party(p) THEN pc[s]
                              ELSE IF s = Keepalive /\ (closed \/ life) THEN "exit" ELSE "idle"]
    /\ UNCHANGED <<cl, g, attempt>>

\* Mutant: the generation is not compared.
CheckNoGen(p) ==
    /\ pc[p] = "check"
    /\ \/ closed /\ FlightFails(p) /\ UNCHANGED hop
       \/ /\ ~closed
          /\ Goto(p, "dial") /\ hop' = [hop EXCEPT ![p] = 0]
          /\ UNCHANGED <<flight, cl, g, attempt>>
    /\ UNCHANGED <<client, gen, closed, life, closeVars, netVars, mine, myGen, old>>

\* Under the mutex: closed, healed by someone else, or ours to heal.
Check(p) ==
    /\ pc[p] = "check"
    /\ \/ closed /\ FlightFails(p) /\ UNCHANGED hop
       \/ ~closed /\ gen # g[p] /\ FlightHeals(p, client, gen) /\ UNCHANGED hop
       \/ /\ ~closed /\ gen = g[p]
          /\ Goto(p, "dial") /\ hop' = [hop EXCEPT ![p] = 0]
          /\ UNCHANGED <<flight, cl, g, attempt>>
    /\ UNCHANGED <<client, gen, closed, life, closeVars, netVars, mine, myGen, old>>

-----------------------------------------------------------------------------
(* route.Dial inside refresh: for each hop a TCP (or channel) connection   *)
(* and a handshake; on an error the chain built so far is closed.          *)

Connects(p) ==
    /\ pc[p] = "dial"
    /\ Goto(p, "shake")
    /\ UNCHANGED <<connVars, closeVars, netVars, cl, g, attempt, hop, mine, myGen, old>>

Handshakes(p) ==
    /\ pc[p] = "shake" /\ dials < MaxDials
    /\ hop' = [hop EXCEPT ![p] = @ + 1]
    /\ \/ hop[p] + 1 < Hops /\ Goto(p, "dial") /\ UNCHANGED <<open, dials, mine>>
       \/ /\ hop[p] + 1 = Hops /\ Goto(p, "install")
          /\ dials' = dials + 1
          /\ open' = open \cup {dials + 1}
          /\ mine' = [mine EXCEPT ![p] = dials + 1]
    /\ UNCHANGED <<connVars, closeVars, dead, breaks, cl, g, attempt, myGen, old>>

DialEnds(p) ==
    /\ hop' = [hop EXCEPT ![p] = 0]
    /\ FlightFails(p)
    /\ UNCHANGED <<client, gen, closed, life, closeVars, netVars, mine, myGen, old>>

\* The peer refuses, or the dial context is cancelled while connecting.
DialFails(p) ==
    /\ pc[p] \in {"dial", "shake"}
    /\ DialEnds(p)

\* dialTimeout ends the call p is in.  handshakeOver ignores the error with which
\* the connection through a jump host answers SetDeadline.
Bounded(p) == pc[p] = "shake" /\ hop[p] > 0 => ChannelDeadline

\* dialTimeout ends a call that gets no answer.  A cancelled context ends a
\* connect before that; handshakeOver takes only the deadline from its context.
DialTimesOut(p) ==
    /\ pc[p] \in {"dial", "shake"}
    /\ life => pc[p] = "shake"
    /\ Bounded(p)
    /\ DialEnds(p)

\* Mutant: closed is not looked at again.
InstallUnchecked(p) ==
    /\ pc[p] = "install"
    /\ Goto(p, "closeOld")
    /\ old' = [old EXCEPT ![p] = client]
    /\ client' = mine[p]
    /\ gen' = gen + 1
    /\ myGen' = [myGen EXCEPT ![p] = gen + 1]
    /\ UNCHANGED <<closed, life, flight, closeVars, netVars, cl, g, attempt, hop, mine>>

\* Under the mutex: closed meanwhile, or install the new connection.
Install(p) ==
    /\ pc[p] = "install"
    /\ \/ closed /\ Goto(p, "drop") /\ UNCHANGED <<client, gen, old, myGen>>
       \/ /\ ~closed /\ Goto(p, "closeOld")
          /\ old' = [old EXCEPT ![p] = client]
          /\ client' = mine[p]
          /\ gen' = gen + 1
          /\ myGen' = [myGen EXCEPT ![p] = gen + 1]
    /\ UNCHANGED <<closed, life, flight, closeVars, netVars, cl, g, attempt, hop, mine>>

CloseOld(p) ==
    /\ pc[p] = "closeOld"
    /\ open' = open \ {old[p]}
    /\ FlightHeals(p, mine[p], myGen[p])
    /\ UNCHANGED <<client, gen, closed, life, closeVars, dead, dials, breaks, hop, mine, myGen, old>>

DropNew(p) ==
    /\ pc[p] = "drop"
    /\ open' = open \ {mine[p]}
    /\ FlightFails(p)
    /\ UNCHANGED <<client, gen, closed, life, closeVars, dead, dials, breaks, hop, mine, myGen, old>>

-----------------------------------------------------------------------------
(* Close, and the network.                                                 *)

CloseMarks ==
    /\ kpc = "none"
    /\ closed' = TRUE /\ toClose' = client /\ client' = None
    /\ kpc' = "cancel"
    /\ UNCHANGED <<gen, life, flight, netVars, procVars>>

CloseCancels ==
    /\ kpc = "cancel" /\ life' = TRUE /\ kpc' = "wait"
    /\ UNCHANGED <<client, gen, closed, flight, toClose, netVars, procVars>>

\* wg.Wait: the keepalive goroutine is gone; close what was taken out.
CloseFinishes ==
    /\ kpc = "wait" /\ pc[Keepalive] = "exit"
    /\ open' = open \ {toClose}
    /\ kpc' = "done"
    /\ UNCHANGED <<connVars, toClose, dead, dials, breaks, procVars>>

Break ==
    /\ breaks < MaxBreaks
    /\ \E c \in open \ dead : dead' = dead \cup {c}
    /\ breaks' = breaks + 1
    /\ UNCHANGED <<connVars, closeVars, open, dials, procVars>>

-----------------------------------------------------------------------------
Operation(p) == Returns(p) \/ OpFails(p)

Heal(p) ==
    \/ EnterFlight(p) \/ Check(p) \/ Connects(p) \/ Handshakes(p)
    \/ DialFails(p) \/ DialTimesOut(p) \/ Install(p) \/ CloseOld(p) \/ DropNew(p)

Close == CloseMarks \/ CloseCancels \/ CloseFinishes

Next ==
    \/ \E p \in Procs : snapshot(p) \/ Operation(p) \/ Heal(p)
    \/ KeepaliveExits
    \/ Close
    \/ Break

Spec == Init /\ [][Next]_vars

(***************************************************************************)
(* Fairness: goroutines that can go on do; a blocking call with a timeout  *)
(* returns, at the latest by it; ticks keep coming; a Close that began     *)
(* goes on.                                                                *)
(***************************************************************************)
Progress ==
    /\ \A p \in Procs : WF_vars(Operation(p)) /\ WF_vars(Bounded(p) /\ Heal(p))
    /\ WF_vars(snapshot(Keepalive))
    /\ WF_vars(KeepaliveExits)
    /\ WF_vars(CloseCancels) /\ WF_vars(CloseFinishes)

FairSpec == Spec /\ Progress

\* A peer that is dialled again and again answers at last, at every hop.
PeerAnswers ==
    \A h \in 0..(Hops - 1) :
        /\ SF_vars(\E p \in Procs : hop[p] = h /\ Connects(p))
        /\ SF_vars(\E p \in Procs : hop[p] = h /\ Handshakes(p))

\* A handshake without a deadline whose peer is silent.
Hanging == \E p \in Procs : ~Bounded(p)

-----------------------------------------------------------------------------
(* Properties.                                                             *)

\* The fields of conn and the local variables of its methods have their types.
TypeOK ==
    /\ client \in Nat /\ gen \in Nat /\ closed \in BOOLEAN /\ life \in BOOLEAN
    /\ flight \subseteq Nat
    /\ kpc \in {"none", "cancel", "wait", "done"} /\ toClose \in Nat
    /\ open \subseteq Nat /\ dead \subseteq Nat /\ dials \in Nat /\ breaks \in Nat
    /\ pc \in [Procs -> PCs]
    /\ cl \in [Procs -> Nat] /\ g \in [Procs -> Nat] /\ attempt \in [Procs -> Nat]
    /\ hop \in [Procs -> Nat] /\ mine \in [Procs -> Nat] /\ myGen \in [Procs -> Nat]
    /\ old \in [Procs -> Nat]

\* refresh looks at conn.gen before it dials and not again when it installs the
\* result: nevertheless only one goroutine dials at a time, and what it replaces
\* is the generation that failed, never a connection someone healed meanwhile.
OneHealAtATime ==
    \A p, s \in Procs :
        pc[p] \in Dialling => g[p] = gen /\ (pc[s] \in Dialling => s = p)

\* However many goroutines see the same failure, it is dialled for once: no more
\* connections are made than there were failures.
OneDialPerFailure == dials <= 1 + breaks

\* The connection in use is never one that refresh or Close has already closed.
InstalledIsOpen == client # None => client \in open

\* Close leaks nothing: once it has returned and no heal that it overtook is on
\* its way out, every connection ever dialled is closed.
NoLeak ==
    kpc = "done" /\ (\A p \in Procs : pc[p] \notin Leading) => open = {}

\* Close returns, although it waits for the keepalive goroutine, which may be
\* dialling or waiting for somebody else's dial; withConn returns with a result or
\* with an error.  Only a handshake without a deadline can hold them up.
CallsReturn ==
    /\ closed ~> (kpc = "done" \/ Hanging)
    /\ \A p \in Callers : pc[p] = "try" ~> (pc[p] = "idle" \/ Hanging)

\* The keepalive goroutine heals a broken connection, though no operation uses it,
\* if the peer can be reached, or the connection is closed.
Heals == PeerAnswers => (client \in dead ~> (client \notin dead \/ closed))

\* "dialTimeout bounds it" (conn.go:113): every dial of refresh ends.
DialIsBounded == \A p \in Procs : pc[p] \in Dialling ~> pc[p] \notin Dialling

==============================================================================
