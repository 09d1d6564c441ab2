------------------------------ MODULE SshProofs ------------------------------
(***************************************************************************)
(* Proofs about the two SSH clients.                                       *)
(*                                                                         *)
(* SshConn, for any number of callers, hops, retries, dials and failures:  *)
(* one dial per failure, and no connection without an owner.               *)
(*                                                                         *)
(* LegacySsh, for any number of callers, attempts and failures: the mutex  *)
(* protects what reconnect builds, and an operation that nobody disturbs   *)
(* repairs what earlier failures have left.                                *)
(***************************************************************************)
EXTENDS SshConn, LegacySsh, TLAPS

-----------------------------------------------------------------------------
(* The self-healing connection.                                            *)


\* singleflight: one leader per key, and a dial is for the current generation.
Flights ==
    /\ \A p \in Procs : pc[p] \in Leading => g[p] \in flight
    /\ \A p, s \in Procs : pc[p] \in Leading /\ pc[s] \in Leading /\ g[p] = g[s] => p = s
    /\ \A p \in Procs : pc[p] \in Dialling => g[p] = gen

\* Connections are numbered by the dials that made them; 0 is no connection.
Numbers ==
    /\ client <= dials /\ toClose <= dials
    /\ \A p \in Procs : mine[p] <= dials /\ old[p] <= dials
    /\ \A c \in open : c # None /\ c <= dials

\* Close takes the connection away for good.
Teardown ==
    /\ closed <=> kpc # "none"
    /\ closed => client = None
    /\ ~closed => toClose = None
    /\ kpc = "done" => toClose \notin open

\* A goroutine holds a connection of its own to install or to drop.
Holds(p) == pc[p] \in {"install", "drop"}

\* Every connection has one owner: conn, Close, or a leader of a flight.
ConnOwns ==
    client # None => /\ client \in open
                     /\ \A p \in Procs : pc[p] = "closeOld" => old[p] # client
LeaderOwns ==
    \A p \in Procs : Holds(p) => mine[p] \in open /\ mine[p] # client /\ mine[p] # toClose
OwnersDiffer ==
    \A p, s \in Procs : /\ Holds(p) /\ Holds(s) /\ p # s => mine[p] # mine[s]
                        /\ Holds(p) /\ pc[s] = "closeOld" => mine[p] # old[s]
EveryoneOwned ==
    \A c \in open : \/ c \in {client, toClose}
                    \/ \E p \in Procs : Holds(p) /\ c = mine[p]
                    \/ \E p \in Procs : pc[p] = "closeOld" /\ c = old[p]
Owners == ConnOwns /\ LeaderOwns /\ OwnersDiffer /\ EveryoneOwned

IInv == TypeOK /\ Flights /\ Numbers /\ Teardown /\ Owners

\* A goroutine is on its way to heal the generation g[p].
Healing(p) == pc[p] \in {"refresh", "check"} \/ pc[p] \in Dialling

\* A client and a generation that a goroutine works with belong together.
Pairs ==
    /\ \A p \in Procs : g[p] <= gen /\ myGen[p] <= gen
    /\ \A p \in Procs : pc[p] = "try" /\ g[p] = gen /\ ~closed /\ cl[p] # None => cl[p] = client
    /\ \A p \in Procs : pc[p] = "closeOld" /\ myGen[p] = gen /\ ~closed => mine[p] = client

\* Each generation that is healed, or is being healed, has failed once.
Failures ==
    /\ gen <= 1 + breaks
    /\ \A c \in dead : c <= dials
    /\ ~closed /\ client \in dead => gen <= breaks
    /\ \A p \in Procs : Healing(p) /\ g[p] = gen /\ (pc[p] \in Dialling \/ ~closed) => gen <= breaks
    /\ \A p \in Procs : pc[p] = "install" /\ mine[p] \in dead => gen + 1 <= breaks

\* A dial makes the next generation.
Dials ==
    /\ dials <= 1 + breaks
    /\ \A p \in Procs : pc[p] \in {"dial", "shake"} => dials = gen
    /\ \A p \in Procs : pc[p] = "install" => dials = gen + 1
    /\ ~closed /\ (\A p \in Procs : pc[p] \notin Dialling) => dials = gen

CountInv == Pairs /\ Failures /\ Dials

-----------------------------------------------------------------------------
\* The end of a flight keeps the types of what it changes.
LEMMA FlightType ==
    ASSUME TypeOK, NEW p \in Procs, NEW c \in Nat, NEW n \in Nat,
           FlightHeals(p, c, n) \/ FlightFails(p)
    PROVE  /\ flight' \subseteq Nat /\ pc' \in [Procs -> PCs] /\ cl' \in [Procs -> Nat]
           /\ g' \in [Procs -> Nat] /\ attempt' \in [Procs -> Nat]
<1> USE DEF TypeOK, PCs
<1>1. CASE FlightFails(p)
  BY Zenon, <1>1 DEF FlightFails
<1>2. CASE FlightHeals(p, c, n)
  <2>1. flight' \subseteq Nat /\ pc' \in [Procs -> PCs]
    BY Zenon, <1>2 DEF FlightHeals
  <2>2. cl' \in [Procs -> Nat] /\ g' \in [Procs -> Nat]
    BY Zenon, <1>2 DEF FlightHeals
  <2>3. attempt' \in [Procs -> Nat]
    <3>1. \A s \in Procs : attempt[s] \in Nat /\ attempt[s] + 1 \in Nat
      OBVIOUS
    <3> QED BY Zenon, <1>2, <3>1 DEF FlightHeals
  <2> QED BY Zenon, <2>1, <2>2, <2>3
<1> QED BY Zenon, <1>1, <1>2

\* Every step keeps every variable in its type.
LEMMA TypeStep == TypeOK /\ [Next]_vars => TypeOK'
<1> SUFFICES ASSUME TypeOK, [Next]_vars PROVE TypeOK'
  OBVIOUS
<1> USE DEF TypeOK, PCs, Leading, Dialling, None, connVars, closeVars, netVars, procVars
<1>1. ASSUME NEW p \in Procs, snapshot(p) PROVE TypeOK'
  BY Zenon, <1>1 DEF snapshot, Goto
<1>2. ASSUME NEW p \in Procs, Returns(p) PROVE TypeOK'
  BY Zenon, <1>2 DEF Returns, Goto
<1>3. ASSUME NEW p \in Procs, OpFails(p) PROVE TypeOK'
  BY <1>3 DEF OpFails, Goto
<1>4. ASSUME NEW p \in Procs, EnterFlight(p) PROVE TypeOK'
  <2>1. /\ pc' = [pc EXCEPT ![p] = "check"] \/ pc' = [pc EXCEPT ![p] = "join"]
        /\ flight' \in {flight, flight \cup {g[p]}}
        /\ UNCHANGED <<client, gen, closed, life, closeVars, netVars, cl, g, attempt, hop, mine, myGen, old>>
    BY Zenon, <1>4 DEF EnterFlight, Goto
  <2>2. pc' \in [Procs -> PCs]
    BY Zenon, <2>1
  <2>3. flight' \subseteq Nat
    BY <2>1
  <2> QED BY Zenon, <2>1, <2>2, <2>3
<1>5. ASSUME NEW p \in Procs, Check(p) PROVE TypeOK'
  <2>1. CASE FlightFails(p) \/ FlightHeals(p, client, gen)
    <3>1. /\ flight' \subseteq Nat /\ pc' \in [Procs -> PCs] /\ cl' \in [Procs -> Nat]
          /\ g' \in [Procs -> Nat] /\ attempt' \in [Procs -> Nat]
      <4> HIDE DEF PCs
      <4> QED BY Zenon, <2>1, FlightType
    <3>2. hop' \in [Procs -> Nat] /\ UNCHANGED <<client, gen, closed, life, closeVars, netVars, mine, myGen, old>>
      BY <1>5 DEF Check
    <3> QED BY Zenon, <3>1, <3>2
  <2>2. CASE /\ Goto(p, "dial") /\ hop' = [hop EXCEPT ![p] = 0]
             /\ UNCHANGED <<flight, cl, g, attempt>>
    BY Zenon, <1>5, <2>2 DEF Check, Goto
  <2> QED BY Zenon, <1>5, <2>1, <2>2 DEF Check
<1>6. ASSUME NEW p \in Procs, Connects(p) PROVE TypeOK'
  BY Zenon, <1>6 DEF Connects, Goto
<1>7. ASSUME NEW p \in Procs, Handshakes(p) PROVE TypeOK'
  <2>1. pc' \in [Procs -> PCs] /\ hop' \in [Procs -> Nat] /\ mine' \in [Procs -> Nat]
    BY <1>7 DEF Handshakes, Goto
  <2>2. open' \subseteq Nat /\ dials' \in Nat
    <3>1. dials + 1 \in Nat
      OBVIOUS
    <3>2. \/ open' = open /\ dials' = dials
          \/ open' = open \cup {dials + 1} /\ dials' = dials + 1
      BY Zenon, <1>7 DEF Handshakes
    <3> QED BY Zenon, <3>1, <3>2
  <2> QED BY Zenon, <1>7, <2>1, <2>2 DEF Handshakes
<1>8. ASSUME NEW p \in Procs, DialFails(p) PROVE TypeOK'
  BY Zenon, <1>8 DEF DialFails, DialEnds, FlightFails
<1>9. ASSUME NEW p \in Procs, DialTimesOut(p) PROVE TypeOK'
  BY Zenon, <1>9 DEF DialTimesOut, DialEnds, FlightFails
<1>10. ASSUME NEW p \in Procs, Install(p) PROVE TypeOK'
  BY <1>10 DEF Install, Goto
<1>11. ASSUME NEW p \in Procs, CloseOld(p) PROVE TypeOK'
  BY Zenon, <1>11, FlightType DEF CloseOld
<1>12. ASSUME NEW p \in Procs, DropNew(p) PROVE TypeOK'
  BY Zenon, <1>12 DEF DropNew, FlightFails
<1>13. CASE KeepaliveExits
  BY Zenon, <1>13 DEF KeepaliveExits, Goto, Procs
<1>14. CASE CloseMarks
  BY Zenon, <1>14 DEF CloseMarks
<1>15. CASE CloseCancels
  BY Zenon, <1>15 DEF CloseCancels
<1>16. CASE CloseFinishes
  BY Zenon, <1>16 DEF CloseFinishes
<1>17. CASE Break
  BY <1>17 DEF Break
<1>18. CASE UNCHANGED vars
  BY Zenon, <1>18 DEF vars
<1> QED BY Zenon, <1>1, <1>2, <1>3, <1>4, <1>5, <1>6, <1>7, <1>8, <1>9, <1>10, <1>11, <1>12,
   <1>13, <1>14, <1>15, <1>16, <1>17, <1>18
        DEF Next, Operation, Heal, Close

-----------------------------------------------------------------------------
\* A step that moves nobody into or out of a place where it owns a connection, and opens
\* and closes none, leaves the owners as they are.
LEMMA OwnersStay ==
    ASSUME Owners, client' = client, toClose' = toClose, open' = open, mine' = mine, old' = old,
           \A s \in Procs : /\ Holds(s)' <=> Holds(s)
                            /\ pc'[s] = "closeOld" <=> pc[s] = "closeOld"
    PROVE  Owners'
<1>1. ConnOwns'
  BY Zenon DEF Owners, ConnOwns, None
<1>2. LeaderOwns'
  BY Zenon DEF Owners, LeaderOwns
<1>3. OwnersDiffer'
  BY Zenon DEF Owners, OwnersDiffer
<1>4. EveryoneOwned'
  <2>1. ASSUME NEW c \in open
        PROVE  \/ c \in {client, toClose}
               \/ \E s \in Procs : Holds(s)' /\ c = mine[s]
               \/ \E s \in Procs : pc'[s] = "closeOld" /\ c = old[s]
    <3>1. CASE \E s \in Procs : Holds(s) /\ c = mine[s]
      BY Zenon, <3>1
    <3>2. CASE \E s \in Procs : pc[s] = "closeOld" /\ c = old[s]
      BY Zenon, <3>2
    <3> QED BY Zenon, <3>1, <3>2 DEF Owners, EveryoneOwned
  <2> QED BY Zenon, <2>1 DEF EveryoneOwned
<1> QED BY Zenon, <1>1, <1>2, <1>3, <1>4 DEF Owners

\* Every step preserves the inductive invariant.
LEMMA InvStep == IInv /\ [Next]_vars => IInv'
<1> SUFFICES ASSUME IInv, [Next]_vars PROVE IInv'
  OBVIOUS
<1>0. TypeOK /\ TypeOK'
  BY Zenon, TypeStep DEF IInv
<1> USE <1>0 DEF TypeOK, IInv, Leading, Dialling, None, connVars, closeVars, netVars, procVars
<1>1. ASSUME NEW p \in Procs, snapshot(p) PROVE IInv'
  <2>1. Flights'
    BY <1>1 DEF snapshot, Goto, Flights
  <2>2. Numbers'
    BY Zenon, <1>1 DEF snapshot, Goto, Numbers
  <2>3. Teardown'
    BY Zenon, <1>1
       DEF snapshot, Goto, Teardown, Owners, ConnOwns, LeaderOwns, OwnersDiffer, EveryoneOwned, Holds
  <2>4. Owners'
    <3>1. \A s \in Procs : /\ Holds(s)' <=> Holds(s)
                           /\ pc'[s] = "closeOld" <=> pc[s] = "closeOld"
      BY Zenon, <1>1 DEF snapshot, Goto, Holds
    <3>2. UNCHANGED <<client, toClose, open, mine, old>>
      BY Zenon, <1>1 DEF snapshot
    <3> QED BY Zenon, <3>1, <3>2, OwnersStay
  <2> QED BY Zenon, <1>0, <2>1, <2>2, <2>3, <2>4
<1>2. ASSUME NEW p \in Procs, Returns(p) PROVE IInv'
  <2>1. Flights'
    BY Zenon, <1>2 DEF Returns, Goto, Flights
  <2>2. Numbers'
    BY Zenon, <1>2 DEF Returns, Goto, Numbers
  <2>3. Teardown'
    BY Zenon, <1>2
       DEF Returns, Goto, Teardown, Owners, ConnOwns, LeaderOwns, OwnersDiffer, EveryoneOwned, Holds
  <2>4. Owners'
    <3>1. \A s \in Procs : /\ Holds(s)' <=> Holds(s)
                           /\ pc'[s] = "closeOld" <=> pc[s] = "closeOld"
      BY Zenon, <1>2 DEF Returns, Goto, Holds
    <3>2. UNCHANGED <<client, toClose, open, mine, old>>
      BY Zenon, <1>2 DEF Returns
    <3> QED BY Zenon, <3>1, <3>2, OwnersStay
  <2> QED BY Zenon, <1>0, <2>1, <2>2, <2>3, <2>4
<1>3. ASSUME NEW p \in Procs, OpFails(p) PROVE IInv'
  <2>1. Flights'
    BY <1>3 DEF OpFails, Goto, Flights
  <2>2. Numbers'
    BY Zenon, <1>3 DEF OpFails, Goto, Numbers
  <2>3. Teardown'
    BY Zenon, <1>3
       DEF OpFails, Goto, Teardown, Owners, ConnOwns, LeaderOwns, OwnersDiffer, EveryoneOwned, Holds
  <2>4. Owners'
    <3>1. \A s \in Procs : /\ Holds(s)' <=> Holds(s)
                           /\ pc'[s] = "closeOld" <=> pc[s] = "closeOld"
      BY Zenon, <1>3 DEF OpFails, Goto, Holds
    <3>2. UNCHANGED <<client, toClose, open, mine, old>>
      BY Zenon, <1>3 DEF OpFails
    <3> QED BY Zenon, <3>1, <3>2, OwnersStay
  <2> QED BY Zenon, <1>0, <2>1, <2>2, <2>3, <2>4
<1>4. ASSUME NEW p \in Procs, EnterFlight(p) PROVE IInv'
  <2>1. Flights'
    BY <1>4 DEF EnterFlight, Goto, Flights
  <2>2. Numbers'
    BY Zenon, <1>4 DEF EnterFlight, Goto, Numbers
  <2>3. Teardown'
    BY Zenon, <1>4
       DEF EnterFlight, Goto, Teardown, Owners, ConnOwns, LeaderOwns, OwnersDiffer, EveryoneOwned, Holds
  <2>4. Owners'
    <3>1. \A s \in Procs : /\ Holds(s)' <=> Holds(s)
                           /\ pc'[s] = "closeOld" <=> pc[s] = "closeOld"
      BY Zenon, <1>4 DEF EnterFlight, Goto, Holds
    <3>2. UNCHANGED <<client, toClose, open, mine, old>>
      BY Zenon, <1>4 DEF EnterFlight
    <3> QED BY Zenon, <3>1, <3>2, OwnersStay
  <2> QED BY Zenon, <1>0, <2>1, <2>2, <2>3, <2>4
<1>5. ASSUME NEW p \in Procs, Check(p) PROVE IInv'
  <2>1. Flights'
    BY <1>5, SMTT(30) DEF Check, FlightHeals, FlightFails, Party, Goto, Flights
  <2>2. Numbers'
    BY Zenon, <1>5 DEF Check, FlightHeals, FlightFails, Party, Goto, Numbers
  <2>3. Teardown'
    BY Zenon, <1>5
       DEF Check, FlightHeals, FlightFails, Party, Goto, Teardown, Owners, ConnOwns, LeaderOwns, OwnersDiffer, EveryoneOwned, Holds
  <2>4. Owners'
    <3>1. \A s \in Procs : /\ Holds(s)' <=> Holds(s)
                           /\ pc'[s] = "closeOld" <=> pc[s] = "closeOld"
      BY Zenon, <1>5 DEF Check, FlightHeals, FlightFails, Party, Goto, Holds
    <3>2. UNCHANGED <<client, toClose, open, mine, old>>
      BY Zenon, <1>5 DEF Check
    <3> QED BY Zenon, <3>1, <3>2, OwnersStay
  <2> QED BY Zenon, <1>0, <2>1, <2>2, <2>3, <2>4
<1>6. ASSUME NEW p \in Procs, Connects(p) PROVE IInv'
  <2>1. Flights'
    BY <1>6 DEF Connects, Goto, Flights
  <2>2. Numbers'
    BY Zenon, <1>6 DEF Connects, Goto, Numbers
  <2>3. Teardown'
    BY Zenon, <1>6
       DEF Connects, Goto, Teardown, Owners, ConnOwns, LeaderOwns, OwnersDiffer, EveryoneOwned, Holds
  <2>4. Owners'
    <3>1. \A s \in Procs : /\ Holds(s)' <=> Holds(s)
                           /\ pc'[s] = "closeOld" <=> pc[s] = "closeOld"
      BY Zenon, <1>6 DEF Connects, Goto, Holds
    <3>2. UNCHANGED <<client, toClose, open, mine, old>>
      BY Zenon, <1>6 DEF Connects
    <3> QED BY Zenon, <3>1, <3>2, OwnersStay
  <2> QED BY Zenon, <1>0, <2>1, <2>2, <2>3, <2>4
<1>7. ASSUME NEW p \in Procs, Handshakes(p) PROVE IInv'
  <2>1. Flights'
    BY <1>7 DEF Handshakes, Goto, Flights
  <2>2. Numbers'
    BY <1>7, SMTT(30) DEF Handshakes, Goto, Numbers
  <2>3. Teardown'
    BY <1>7 DEF Handshakes, Teardown, Numbers
  <2>4. Owners'
    BY <1>7, SMTT(30) DEF Handshakes, Goto, Owners, ConnOwns, LeaderOwns, OwnersDiffer, EveryoneOwned, Holds, Numbers, Teardown
  <2> QED BY Zenon, <1>0, <2>1, <2>2, <2>3, <2>4
<1>8. ASSUME NEW p \in Procs, DialFails(p) PROVE IInv'
  <2>1. Flights'
    BY <1>8 DEF DialFails, DialEnds, FlightFails, Party, Flights
  <2>2. Numbers'
    BY Zenon, <1>8 DEF DialFails, DialEnds, FlightFails, Party, Numbers
  <2>3. Teardown'
    BY Zenon, <1>8
       DEF DialFails, DialEnds, FlightFails, Party, Teardown, Owners, ConnOwns, LeaderOwns, OwnersDiffer, EveryoneOwned, Holds
  <2>4. Owners'
    BY <1>8, SMTT(30) DEF DialFails, DialEnds, FlightFails, Party, Owners, ConnOwns, LeaderOwns, OwnersDiffer, EveryoneOwned, Holds, Numbers, Teardown
  <2> QED BY Zenon, <1>0, <2>1, <2>2, <2>3, <2>4
<1>9. ASSUME NEW p \in Procs, DialTimesOut(p) PROVE IInv'
  <2>1. Flights'
    BY <1>9 DEF DialTimesOut, DialEnds, FlightFails, Party, Flights
  <2>2. Numbers'
    BY Zenon, <1>9 DEF DialTimesOut, DialEnds, FlightFails, Party, Numbers
  <2>3. Teardown'
    BY Zenon, <1>9
       DEF DialTimesOut, DialEnds, FlightFails, Party, Teardown, Owners, ConnOwns, LeaderOwns, OwnersDiffer, EveryoneOwned, Holds
  <2>4. Owners'
    BY <1>9, SMTT(30) DEF DialTimesOut, DialEnds, FlightFails, Party, Owners, ConnOwns, LeaderOwns, OwnersDiffer, EveryoneOwned, Holds, Numbers, Teardown
  <2> QED BY Zenon, <1>0, <2>1, <2>2, <2>3, <2>4
<1>10. ASSUME NEW p \in Procs, Install(p) PROVE IInv'
  <2>1. Flights'
    BY <1>10 DEF Install, Goto, Flights
  <2>2. Numbers'
    BY <1>10 DEF Install, Goto, Numbers
  <2>3. Teardown'
    BY Zenon, <1>10
       DEF Install, Goto, Teardown, Owners, ConnOwns, LeaderOwns, OwnersDiffer, EveryoneOwned, Holds
  <2>4. Owners'
    <3>1. CASE closed
      <4>1. \A s \in Procs : /\ Holds(s)' <=> Holds(s)
                             /\ pc'[s] = "closeOld" <=> pc[s] = "closeOld"
        BY Zenon, <1>10, <3>1 DEF Install, Goto, Holds
      <4>2. UNCHANGED <<client, toClose, open, mine, old>>
        BY Zenon, <1>10, <3>1 DEF Install
      <4> QED BY Zenon, <4>1, <4>2, OwnersStay
    <3>2. CASE ~closed
      <4>1. /\ client' = mine[p] /\ UNCHANGED <<toClose, open, mine>>
            /\ old'[p] = client /\ \A s \in Procs \ {p} : old'[s] = old[s]
            /\ Holds(p) /\ ~Holds(p)' /\ pc'[p] = "closeOld" /\ pc[p] # "closeOld"
            /\ \A s \in Procs \ {p} : /\ Holds(s)' <=> Holds(s)
                                      /\ pc'[s] = "closeOld" <=> pc[s] = "closeOld"
        BY Zenon, <1>10, <3>2 DEF Install, Goto, Holds
      <4>2. ConnOwns' /\ LeaderOwns' /\ OwnersDiffer'
        BY <4>1, SMTT(30) DEF Owners, ConnOwns, LeaderOwns, OwnersDiffer
      <4>3. ASSUME NEW c \in open
            PROVE  \/ c \in {client', toClose}
                   \/ \E s \in Procs : Holds(s)' /\ c = mine[s]
                   \/ \E s \in Procs : pc'[s] = "closeOld" /\ c = old'[s]
        <5>1. CASE c \in {client, toClose}
          BY Zenon, <4>1, <5>1
        <5>2. CASE \E s \in Procs : Holds(s) /\ c = mine[s]
          BY Zenon, <4>1, <5>2
        <5>3. CASE \E s \in Procs : pc[s] = "closeOld" /\ c = old[s]
          BY Zenon, <4>1, <5>3
        <5> QED BY Zenon, <5>1, <5>2, <5>3 DEF Owners, EveryoneOwned
      <4>4. EveryoneOwned'
        BY <4>1, <4>3 DEF EveryoneOwned
      <4> QED BY Zenon, <4>2, <4>4 DEF Owners
    <3> QED BY Zenon, <3>1, <3>2
  <2> QED BY Zenon, <1>0, <2>1, <2>2, <2>3, <2>4
<1>11. ASSUME NEW p \in Procs, CloseOld(p) PROVE IInv'
  <2>1. Flights'
    BY Zenon, <1>11 DEF CloseOld, FlightHeals, Party, Flights
  <2>2. Numbers'
    BY Zenon, <1>11 DEF CloseOld, FlightHeals, Party, Numbers
  <2>3. Teardown'
    BY Zenon, <1>11
       DEF CloseOld, FlightHeals, Party, Teardown, Owners, ConnOwns, LeaderOwns, OwnersDiffer, EveryoneOwned, Holds
  <2>4. Owners'
    BY <1>11, SMTT(30) DEF CloseOld, FlightHeals, Party, Owners, ConnOwns, LeaderOwns, OwnersDiffer, EveryoneOwned, Holds, Numbers, Teardown
  <2> QED BY Zenon, <1>0, <2>1, <2>2, <2>3, <2>4
<1>12. ASSUME NEW p \in Procs, DropNew(p) PROVE IInv'
  <2>1. Flights'
    BY Zenon, <1>12 DEF DropNew, FlightFails, Party, Flights
  <2>2. Numbers'
    BY Zenon, <1>12 DEF DropNew, FlightFails, Party, Numbers
  <2>3. Teardown'
    BY Zenon, <1>12
       DEF DropNew, FlightFails, Party, Teardown, Owners, ConnOwns, LeaderOwns, OwnersDiffer, EveryoneOwned, Holds
  <2>4. Owners'
    BY <1>12, SMTT(30) DEF DropNew, FlightFails, Party, Owners, ConnOwns, LeaderOwns, OwnersDiffer, EveryoneOwned, Holds, Numbers, Teardown
  <2> QED BY Zenon, <1>0, <2>1, <2>2, <2>3, <2>4
<1>13. CASE KeepaliveExits
  <2>1. Flights'
    BY Zenon, <1>13 DEF KeepaliveExits, Goto, Procs, Flights
  <2>2. Numbers'
    BY Zenon, <1>13 DEF KeepaliveExits, Goto, Procs, Numbers
  <2>3. Teardown'
    BY Zenon, <1>13
       DEF KeepaliveExits, Goto, Procs, Teardown, Owners, ConnOwns, LeaderOwns, OwnersDiffer, EveryoneOwned, Holds
  <2>4. Owners'
    BY <1>13, SMTT(30) DEF KeepaliveExits, Goto, Procs, Owners, ConnOwns, LeaderOwns, OwnersDiffer, EveryoneOwned, Holds, Numbers, Teardown
  <2> QED BY Zenon, <1>0, <2>1, <2>2, <2>3, <2>4
<1>14. CASE CloseMarks
  <2>1. Flights'
    BY Zenon, <1>14 DEF CloseMarks, Flights
  <2>2. Numbers'
    BY <1>14, SMTT(30) DEF CloseMarks, Numbers
  <2>3. Teardown'
    BY Zenon, <1>14
       DEF CloseMarks, Teardown, Owners, ConnOwns, LeaderOwns, OwnersDiffer, EveryoneOwned, Holds
  <2>4. Owners'
    <3>1. \A s \in Procs : /\ Holds(s)' <=> Holds(s)
                           /\ pc'[s] = "closeOld" <=> pc[s] = "closeOld"
      BY Zenon, <1>14 DEF CloseMarks, Holds
    <3>2. /\ client' = None /\ toClose' = client /\ UNCHANGED <<open, mine, old>>
          /\ toClose = None
      BY Zenon, <1>14 DEF CloseMarks, Teardown
    <3>3. \A c \in open : c # None
      BY Zenon DEF Numbers
    <3> QED BY <3>1, <3>2, <3>3, SMTT(30) DEF Owners, ConnOwns, LeaderOwns, OwnersDiffer, EveryoneOwned
  <2> QED BY Zenon, <1>0, <2>1, <2>2, <2>3, <2>4
<1>15. CASE CloseCancels
  <2>1. Flights'
    BY Zenon, <1>15 DEF CloseCancels, Flights
  <2>2. Numbers'
    BY Zenon, <1>15 DEF CloseCancels, Numbers
  <2>3. Teardown'
    BY Zenon, <1>15
       DEF CloseCancels, Teardown, Owners, ConnOwns, LeaderOwns, OwnersDiffer, EveryoneOwned, Holds
  <2>4. Owners'
    BY <1>15 DEF CloseCancels, Owners, ConnOwns, LeaderOwns, OwnersDiffer, EveryoneOwned, Holds, Numbers, Teardown
  <2> QED BY Zenon, <1>0, <2>1, <2>2, <2>3, <2>4
<1>16. CASE CloseFinishes
  <2>1. Flights'
    BY Zenon, <1>16 DEF CloseFinishes, Flights
  <2>2. Numbers'
    BY Zenon, <1>16 DEF CloseFinishes, Numbers
  <2>3. Teardown'
    BY Zenon, <1>16
       DEF CloseFinishes, Teardown, Owners, ConnOwns, LeaderOwns, OwnersDiffer, EveryoneOwned, Holds
  <2>4. Owners'
    BY <1>16, SMTT(30) DEF CloseFinishes, Owners, ConnOwns, LeaderOwns, OwnersDiffer, EveryoneOwned, Holds, Numbers, Teardown
  <2> QED BY Zenon, <1>0, <2>1, <2>2, <2>3, <2>4
<1>17. CASE Break
  <2>1. Flights'
    BY Zenon, <1>17 DEF Break, Flights
  <2>2. Numbers'
    BY Zenon, <1>17 DEF Break, Numbers
  <2>3. Teardown'
    BY Zenon, <1>17
       DEF Break, Teardown, Owners, ConnOwns, LeaderOwns, OwnersDiffer, EveryoneOwned, Holds
  <2>4. Owners'
    BY <1>17, SMTT(30) DEF Break, Owners, ConnOwns, LeaderOwns, OwnersDiffer, EveryoneOwned, Holds, Numbers, Teardown
  <2> QED BY Zenon, <1>0, <2>1, <2>2, <2>3, <2>4
<1>18. CASE UNCHANGED vars
  <2>1. Flights' /\ Numbers'
    BY Zenon, <1>18 DEF vars, Flights, Numbers
  <2>2. Teardown'
    BY Zenon, <1>18 DEF vars, Teardown
  <2>3. Owners'
    BY <1>18 DEF vars, Owners, ConnOwns, LeaderOwns, OwnersDiffer, EveryoneOwned, Holds
  <2> QED BY Zenon, <1>0, <2>1, <2>2, <2>3
<1> QED BY Zenon, <1>1, <1>2, <1>3, <1>4, <1>5, <1>6, <1>7, <1>8, <1>9, <1>10, <1>11, <1>12,
   <1>13, <1>14, <1>15, <1>16, <1>17, <1>18
        DEF Next, Operation, Heal, Close

\* The inductive invariant holds in every reachable state of the connection.
THEOREM Invariance == Spec => []IInv
<1>1. Init => IInv
  <2> SUFFICES ASSUME Init PROVE IInv
    OBVIOUS
  <2>1. TypeOK
    <3>1. pc \in [Procs -> PCs]
      BY Zenon DEF Init, PCs
    <3>2. /\ client \in Nat /\ gen \in Nat /\ flight \subseteq Nat /\ toClose \in Nat
          /\ open \subseteq Nat /\ dead \subseteq Nat /\ dials \in Nat /\ breaks \in Nat
          /\ kpc \in {"none", "cancel", "wait", "done"}
      BY DEF Init, None
    <3>3. /\ cl \in [Procs -> Nat] /\ g \in [Procs -> Nat] /\ attempt \in [Procs -> Nat]
          /\ hop \in [Procs -> Nat] /\ mine \in [Procs -> Nat] /\ myGen \in [Procs -> Nat]
          /\ old \in [Procs -> Nat]
      BY Zenon DEF Init, None
    <3>4. closed \in BOOLEAN /\ life \in BOOLEAN
      BY Zenon DEF Init
    <3> QED BY Zenon, <3>1, <3>2, <3>3, <3>4 DEF TypeOK
  <2>2. Flights /\ Numbers
    BY DEF Init, Flights, Numbers, Leading, Dialling, None
  <2>3. Teardown
    BY Zenon DEF Init, Teardown, None
  <2>4. Owners
    BY Zenon DEF Init, Owners, ConnOwns, LeaderOwns, OwnersDiffer, EveryoneOwned, Holds, None
  <2> QED BY Zenon, <2>1, <2>2, <2>3, <2>4 DEF IInv
<1> QED BY <1>1, InvStep, PTL DEF Spec

\* Only one goroutine dials at a time, and what it will replace is the generation
\* that failed, although refresh does not look at conn.gen again before it installs.
THEOREM OneHealAtATimeHolds == Spec => []OneHealAtATime
<1>1. IInv => OneHealAtATime
  BY Zenon DEF IInv, Flights, OneHealAtATime, Leading
<1> QED BY <1>1, Invariance, PTL

\* The connection in use is never one that refresh or Close has closed.
THEOREM InstalledIsOpenHolds == Spec => []InstalledIsOpen
<1>1. IInv => InstalledIsOpen
  BY Zenon DEF IInv, Owners, ConnOwns, InstalledIsOpen
<1> QED BY <1>1, Invariance, PTL

\* Once Close has returned and the heals it overtook are over, every connection
\* that was dialled is closed.
THEOREM NoLeakHolds == Spec => []NoLeak
<1>1. IInv => NoLeak
  BY Zenon
     DEF IInv, Owners, EveryoneOwned, Numbers, Teardown, NoLeak, Leading, Dialling, Holds, None
<1> QED BY <1>1, Invariance, PTL

-----------------------------------------------------------------------------
\* A bound in terms of a counter survives the counter's growth.
LEMMA AtMostGrows ==
    /\ \A m, a, b \in Nat : a <= b /\ m <= 1 + a => m <= 1 + b
    /\ \A m, a, b \in Nat : a <= b /\ m <= a => m <= b
OBVIOUS

\* Every step preserves the count of failures and dials.
LEMMA CountStep == IInv /\ IInv' /\ CountInv /\ [Next]_vars => CountInv'
<1> SUFFICES ASSUME IInv, IInv', CountInv, [Next]_vars PROVE CountInv'
  OBVIOUS
<1> USE DEF CountInv, IInv, TypeOK, Leading, Dialling, Healing, None, connVars, closeVars, netVars, procVars
<1>1. ASSUME NEW p \in Procs, snapshot(p) PROVE CountInv'
  <2>1. Pairs'
    <3>1. /\ UNCHANGED <<client, gen, closed, mine, myGen>> /\ gen \in Nat
          /\ pc'[p] = "try" /\ g'[p] = gen /\ cl'[p] = client
          /\ \A s \in Procs \ {p} : pc'[s] = pc[s] /\ g'[s] = g[s] /\ cl'[s] = cl[s]
      BY Zenon, <1>1 DEF snapshot, Goto
    <3> QED BY <3>1, SMTT(30) DEF Pairs
  <2>2. Failures'
    BY Zenon, <1>1 DEF snapshot, Goto, Failures, Pairs, Dials, Flights, Numbers, Owners, ConnOwns
  <2>3. Dials'
    BY Zenon, <1>1 DEF snapshot, Goto, Dials, Failures, Flights
  <2> QED BY Zenon, <2>1, <2>2, <2>3
<1>2. ASSUME NEW p \in Procs, Returns(p) PROVE CountInv'
  <2>1. Pairs'
    BY Zenon, <1>2 DEF Returns, Goto, Pairs
  <2>2. Failures'
    BY Zenon, <1>2 DEF Returns, Goto, Failures, Pairs, Dials, Flights, Numbers, Owners, ConnOwns
  <2>3. Dials'
    BY Zenon, <1>2 DEF Returns, Goto, Dials, Failures, Flights
  <2> QED BY Zenon, <2>1, <2>2, <2>3
<1>3. ASSUME NEW p \in Procs, OpFails(p) PROVE CountInv'
  <2>1. Pairs'
    BY Zenon, <1>3 DEF OpFails, Goto, Works, Pairs
  <2>2. Failures'
    <3>1. /\ UNCHANGED <<client, gen, closed, dead, dials, g, mine>>
          /\ breaks <= breaks' /\ breaks \in Nat /\ breaks' \in Nat /\ gen \in Nat
          /\ pc[p] = "try" /\ pc'[p] \in {"idle", "refresh"}
          /\ \A s \in Procs \ {p} : pc'[s] = pc[s]
      BY <1>3, SMTT(30) DEF OpFails, Goto
    <3>2. ~closed /\ g[p] = gen => gen <= breaks'
      <4>1. CASE ~Works(cl[p])
        BY Zenon, <1>3, <3>1, <4>1 DEF OpFails, Works, Failures, Pairs, Owners, ConnOwns
      <4>2. CASE Works(cl[p])
        BY <1>3, <4>2, SMTT(30) DEF OpFails, Failures
      <4> QED BY Zenon, <4>1, <4>2
    <3>3. /\ gen' <= 1 + breaks' /\ \A c \in dead' : c <= dials'
          /\ ~closed' /\ client' \in dead' => gen' <= breaks'
      <4>1. /\ gen <= 1 + breaks /\ gen' = gen
            /\ ~closed /\ client \in dead => gen <= breaks
        BY Zenon, <3>1 DEF Failures
      <4>2. gen <= 1 + breaks' /\ (~closed /\ client \in dead => gen <= breaks')
        BY ONLY <3>1, <4>1, AtMostGrows
      <4>3. \A c \in dead' : c <= dials'
        BY Zenon, <3>1 DEF Failures
      <4> QED BY Zenon, <3>1, <4>1, <4>2, <4>3
    <3>4. ASSUME NEW s \in Procs
          PROVE  /\ Healing(s)' /\ g'[s] = gen' /\ (pc'[s] \in Dialling \/ ~closed') => gen' <= breaks'
                 /\ pc'[s] = "install" /\ mine'[s] \in dead' => gen' + 1 <= breaks'
      BY <3>1, <3>2, <3>4, SMTT(30) DEF Failures
    <3> QED BY Zenon, <3>3, <3>4 DEF Failures
  <2>3. Dials'
    <3>1. /\ UNCHANGED <<gen, closed, dials>> /\ breaks <= breaks' /\ dials \in Nat
          /\ breaks \in Nat /\ breaks' \in Nat
          /\ pc[p] = "try" /\ pc'[p] \in {"idle", "refresh"}
          /\ \A s \in Procs \ {p} : pc'[s] = pc[s]
      BY <1>3, SMTT(30) DEF OpFails, Goto
    <3>2. \A s \in Procs : /\ pc'[s] \in Dialling <=> pc[s] \in Dialling
                           /\ pc[s] \in Dialling => pc'[s] = pc[s]
      BY Zenon, <3>1
    <3>3. (\A s \in Procs : pc'[s] \notin Dialling) => \A s \in Procs : pc[s] \notin Dialling
      BY Zenon, <3>2
    <3>4. \A s \in Procs : /\ pc'[s] \in {"dial", "shake"} => dials' = gen'
                           /\ pc'[s] = "install" => dials' = gen' + 1
      BY Zenon, <3>1, <3>2 DEF Dials
    <3>5. dials' <= 1 + breaks'
      <4>1. dials <= 1 + breaks /\ dials' = dials
        BY Zenon, <3>1 DEF Dials
      <4>2. dials <= 1 + breaks'
        BY ONLY <3>1, <4>1, AtMostGrows
      <4> QED BY Zenon, <4>1, <4>2
    <3> QED BY Zenon, <3>1, <3>3, <3>4, <3>5 DEF Dials
  <2> QED BY Zenon, <2>1, <2>2, <2>3
<1>4. ASSUME NEW p \in Procs, EnterFlight(p) PROVE CountInv'
  <2>1. Pairs'
    BY Zenon, <1>4 DEF EnterFlight, Goto, Pairs
  <2>2. /\ UNCHANGED <<client, gen, closed, dead, dials, breaks, g, mine>>
        /\ pc[p] = "refresh" /\ pc'[p] \in {"check", "join"}
        /\ \A s \in Procs \ {p} : pc'[s] = pc[s]
    BY Zenon, <1>4 DEF EnterFlight, Goto
  <2>3. Failures'
    BY ONLY CountInv, <2>2 DEF Failures
  <2>4. Dials'
    BY ONLY CountInv, <2>2 DEF Dials
  <2> QED BY Zenon, <2>1, <2>3, <2>4
<1>5. ASSUME NEW p \in Procs, Check(p) PROVE CountInv'
  <2>1. Pairs'
    <3>1. UNCHANGED <<client, gen, closed, mine, myGen>>
      BY Zenon, <1>5 DEF Check
    <3>2. CASE FlightFails(p)
      BY Zenon, <3>1, <3>2 DEF FlightFails, Party, Pairs
    <3>3. CASE FlightHeals(p, client, gen)
      BY <3>1, <3>3, SMTT(30) DEF FlightHeals, Party, Pairs
    <3>4. CASE Goto(p, "dial") /\ UNCHANGED <<cl, g>>
      BY Zenon, <3>1, <3>4 DEF Goto, Pairs
    <3> QED BY Zenon, <1>5, <3>2, <3>3, <3>4 DEF Check
  <2>2. Failures'
    <3>1. /\ UNCHANGED <<client, gen, closed, dead, dials, breaks, mine>> /\ pc[p] = "check"
          /\ \A s \in Procs : pc'[s] = "install" => pc[s] = "install"
      BY Zenon, <1>5 DEF Check, FlightHeals, FlightFails, Party, Goto
    <3>2. ASSUME NEW s \in Procs, Healing(s)', g'[s] = gen, pc'[s] \in Dialling \/ ~closed
          PROVE  Healing(s) /\ g[s] = gen /\ (pc[s] \in Dialling \/ ~closed)
      <4>1. CASE closed /\ FlightFails(p)
        BY Zenon, <3>2, <4>1 DEF FlightFails, Party
      <4>2. CASE ~closed /\ FlightHeals(p, client, gen)
        BY Zenon, <3>2, <4>2 DEF FlightHeals, Party
      <4>3. CASE ~closed /\ gen = g[p] /\ Goto(p, "dial") /\ UNCHANGED g
        BY Zenon, <3>1, <3>2, <4>3 DEF Goto
      <4> QED BY Zenon, <1>5, <4>1, <4>2, <4>3 DEF Check
    <3> QED BY Zenon, <3>1, <3>2 DEF Failures
  <2>3. Dials'
    <3>1. UNCHANGED <<gen, closed, dials, breaks>> /\ pc[p] = "check"
      BY Zenon, <1>5 DEF Check
    <3>2. \A s \in Procs : pc[s] \in Dialling => pc'[s] = pc[s]
      BY Zenon, <1>5 DEF Check, FlightHeals, FlightFails, Party, Goto
    <3>3. \A s \in Procs : pc'[s] \in Dialling /\ pc'[s] # pc[s] => s = p /\ ~closed /\ pc'[p] = "dial"
      BY Zenon, <1>5 DEF Check, FlightHeals, FlightFails, Party, Goto
    <3>4. \A s \in Procs \ {p} : pc'[p] = "dial" => pc[s] \notin Dialling
      BY Zenon, <1>5 DEF Check, FlightHeals, FlightFails, Party, Goto, Flights
    <3>5. pc'[p] = "dial" => dials = gen
      BY Zenon, <3>1, <3>3, <3>4 DEF Dials
    <3> QED BY Zenon, <3>1, <3>2, <3>3, <3>5 DEF Dials
  <2> QED BY Zenon, <2>1, <2>2, <2>3
<1>6. ASSUME NEW p \in Procs, Connects(p) PROVE CountInv'
  <2>1. Pairs'
    BY Zenon, <1>6 DEF Connects, Goto, Pairs
  <2>2. Failures'
    BY Zenon, <1>6 DEF Connects, Goto, Failures, Pairs, Dials, Flights, Numbers, Owners, ConnOwns
  <2>3. Dials'
    BY Zenon, <1>6 DEF Connects, Goto, Dials, Failures, Flights
  <2> QED BY Zenon, <2>1, <2>2, <2>3
<1>7. ASSUME NEW p \in Procs, Handshakes(p) PROVE CountInv'
  <2>1. Pairs'
    BY <1>7, SMTT(30) DEF Handshakes, Goto, Pairs
  <2>2. Failures'
    <3>1. /\ UNCHANGED <<client, gen, closed, dead, breaks, g>> /\ gen \in Nat /\ breaks \in Nat
          /\ dials \in Nat /\ dials' \in {dials, dials + 1} /\ mine' = [mine EXCEPT ![p] = mine'[p]]
          /\ pc[p] = "shake" /\ pc'[p] \in {"dial", "install"}
          /\ \A s \in Procs \ {p} : pc'[s] = pc[s]
      BY Zenon, <1>7 DEF Handshakes, Goto
    <3>2. pc'[p] = "install" => mine'[p] = dials + 1
      BY Zenon, <1>7 DEF Handshakes, Goto
    <3>3. /\ \A c \in dead : c <= dials
          /\ gen <= 1 + breaks /\ (~closed /\ client \in dead => gen <= breaks)
      BY Zenon DEF Failures
    <3>4. \A c \in dead' : c <= dials'
      BY ONLY <3>1, <3>3, IInv DEF Numbers
    <3>5. pc'[p] = "install" => mine'[p] \notin dead'
      <4>1. dials + 1 \notin dead
        <5> SUFFICES ASSUME dials + 1 \in dead PROVE FALSE
          OBVIOUS
        <5>1. dials + 1 <= dials /\ dials \in Nat
          BY Zenon, <3>1, <3>3
        <5> QED BY ONLY <5>1
      <4> QED BY Zenon, <3>1, <3>2, <4>1
    <3>6. ASSUME NEW s \in Procs
          PROVE  /\ Healing(s)' /\ g'[s] = gen' /\ (pc'[s] \in Dialling \/ ~closed') => gen' <= breaks'
                 /\ pc'[s] = "install" /\ mine'[s] \in dead' => gen' + 1 <= breaks'
      <4>1. CASE s = p
        BY Zenon, <3>1, <3>5, <4>1 DEF Failures
      <4>2. CASE s # p
        BY Zenon, <3>1, <3>6, <4>2 DEF Failures
      <4> QED BY Zenon, <4>1, <4>2
    <3> QED BY Zenon, <3>1, <3>3, <3>4, <3>6 DEF Failures
  <2>3. Dials'
    BY <1>7, SMTT(30) DEF Handshakes, Goto, Dials, Failures, Flights
  <2> QED BY Zenon, <2>1, <2>2, <2>3
<1>8. ASSUME NEW p \in Procs, DialFails(p) PROVE CountInv'
  <2>1. Pairs'
    BY Zenon, <1>8 DEF DialFails, DialEnds, FlightFails, Party, Pairs
  <2>2. Failures'
    BY Zenon, <1>8
       DEF DialFails, DialEnds, FlightFails, Party, Failures, Pairs, Dials, Flights, Numbers, Owners, ConnOwns
  <2>3. Dials'
    BY Zenon, <1>8 DEF DialFails, DialEnds, FlightFails, Party, Dials, Failures, Flights
  <2> QED BY Zenon, <2>1, <2>2, <2>3
<1>9. ASSUME NEW p \in Procs, DialTimesOut(p) PROVE CountInv'
  <2>1. Pairs'
    BY Zenon, <1>9 DEF DialTimesOut, DialEnds, FlightFails, Party, Pairs
  <2>2. Failures'
    BY Zenon, <1>9
       DEF DialTimesOut, DialEnds, FlightFails, Party, Failures, Pairs, Dials, Flights, Numbers, Owners, ConnOwns
  <2>3. Dials'
    BY Zenon, <1>9 DEF DialTimesOut, DialEnds, FlightFails, Party, Dials, Failures, Flights
  <2> QED BY Zenon, <2>1, <2>2, <2>3
<1>10. ASSUME NEW p \in Procs, Install(p) PROVE CountInv'
  <2>1. Pairs'
    BY <1>10, SMTT(30) DEF Install, Goto, Pairs
  <2>2. Failures'
    <3>1. /\ UNCHANGED <<closed, dead, dials, breaks, g, mine>> /\ gen \in Nat /\ breaks \in Nat
          /\ pc[p] = "install" /\ g[p] = gen /\ gen <= breaks
          /\ \A s \in Procs \ {p} : pc'[s] = pc[s] /\ pc[s] \notin Dialling
      BY Zenon, <1>10 DEF Install, Goto, Flights, Failures
    <3>2. CASE closed
      BY <1>10, <3>1, <3>2, SMTT(30) DEF Install, Goto, Failures
    <3>3. CASE ~closed
      <4>1. gen' = gen + 1 /\ client' = mine[p] /\ pc'[p] = "closeOld"
        BY Zenon, <1>10, <3>3 DEF Install, Goto
      <4>2. \A s \in Procs : g[s] # gen'
        BY <3>1, <4>1, SMTT(30) DEF Pairs
      <4> QED BY <3>1, <4>1, <4>2, SMTT(30) DEF Failures
    <3> QED BY Zenon, <3>2, <3>3
  <2>3. Dials'
    <3>1. /\ UNCHANGED <<closed, dials, breaks>> /\ gen \in Nat
          /\ pc[p] = "install" /\ pc'[p] \in {"drop", "closeOld"} /\ dials = gen + 1
          /\ gen' = IF closed THEN gen ELSE gen + 1
          /\ \A s \in Procs \ {p} : pc'[s] = pc[s] /\ pc[s] \notin Dialling
      BY <1>10 DEF Install, Goto, Flights, Dials
    <3> QED BY Zenon, <3>1 DEF Dials
  <2> QED BY Zenon, <2>1, <2>2, <2>3
<1>11. ASSUME NEW p \in Procs, CloseOld(p) PROVE CountInv'
  <2>1. Pairs'
    BY Zenon, <1>11 DEF CloseOld, FlightHeals, Party, Pairs
  <2>2. Failures'
    BY Zenon, <1>11
       DEF CloseOld, FlightHeals, Party, Failures, Pairs, Dials, Flights, Numbers, Owners, ConnOwns
  <2>3. Dials'
    BY Zenon, <1>11 DEF CloseOld, FlightHeals, Party, Dials, Failures, Flights
  <2> QED BY Zenon, <2>1, <2>2, <2>3
<1>12. ASSUME NEW p \in Procs, DropNew(p) PROVE CountInv'
  <2>1. Pairs'
    BY Zenon, <1>12 DEF DropNew, FlightFails, Party, Pairs
  <2>2. Failures'
    BY Zenon, <1>12
       DEF DropNew, FlightFails, Party, Failures, Pairs, Dials, Flights, Numbers, Owners, ConnOwns
  <2>3. Dials'
    BY Zenon, <1>12 DEF DropNew, FlightFails, Party, Dials, Failures, Flights
  <2> QED BY Zenon, <2>1, <2>2, <2>3
<1>13. CASE KeepaliveExits
  <2>1. Pairs'
    BY Zenon, <1>13 DEF KeepaliveExits, Goto, Procs, Pairs
  <2>2. Failures'
    BY Zenon, <1>13
       DEF KeepaliveExits, Goto, Procs, Failures, Pairs, Dials, Flights, Numbers, Owners, ConnOwns
  <2>3. Dials'
    BY Zenon, <1>13 DEF KeepaliveExits, Goto, Procs, Dials, Failures, Flights
  <2> QED BY Zenon, <2>1, <2>2, <2>3
<1>14. CASE CloseMarks
  <2>1. Pairs'
    BY Zenon, <1>14 DEF CloseMarks, Pairs
  <2>2. Failures'
    BY Zenon, <1>14 DEF CloseMarks, Failures, Pairs, Dials, Flights, Numbers, Owners, ConnOwns
  <2>3. Dials'
    BY Zenon, <1>14 DEF CloseMarks, Dials, Failures, Flights
  <2> QED BY Zenon, <2>1, <2>2, <2>3
<1>15. CASE CloseCancels
  <2>1. Pairs'
    BY Zenon, <1>15 DEF CloseCancels, Pairs
  <2>2. Failures'
    BY Zenon, <1>15 DEF CloseCancels, Failures, Pairs, Dials, Flights, Numbers, Owners, ConnOwns
  <2>3. Dials'
    BY Zenon, <1>15 DEF CloseCancels, Dials, Failures, Flights
  <2> QED BY Zenon, <2>1, <2>2, <2>3
<1>16. CASE CloseFinishes
  <2>1. Pairs'
    BY Zenon, <1>16 DEF CloseFinishes, Pairs
  <2>2. Failures'
    BY Zenon, <1>16 DEF CloseFinishes, Failures, Pairs, Dials, Flights, Numbers, Owners, ConnOwns
  <2>3. Dials'
    BY Zenon, <1>16 DEF CloseFinishes, Dials, Failures, Flights
  <2> QED BY Zenon, <2>1, <2>2, <2>3
<1>17. CASE Break
  <2>1. Pairs'
    BY Zenon, <1>17 DEF Break, Pairs
  <2>2. Failures'
    <3>1. /\ UNCHANGED <<client, gen, closed, dials, pc, g, mine>>
          /\ breaks' = breaks + 1 /\ breaks \in Nat /\ gen \in Nat /\ gen <= 1 + breaks
      BY Zenon, <1>17 DEF Break, Failures
    <3>2. gen <= breaks'
      BY ONLY <3>1
    <3>3. \A c \in dead' : c <= dials'
      BY Zenon, <1>17 DEF Break, Failures, Numbers
    <3>4. ASSUME NEW s \in Procs, pc[s] = "install" PROVE gen + 1 <= breaks'
      <4>1. g[s] = gen /\ Healing(s)
        BY Zenon, <3>4 DEF Flights
      <4>2. gen <= breaks
        BY Zenon, <3>4, <4>1 DEF Failures
      <4> QED BY ONLY <3>1, <4>2
    <3>5. gen' <= 1 + breaks'
      BY ONLY <3>1
    <3> QED BY Zenon, <3>1, <3>2, <3>3, <3>4, <3>5 DEF Failures
  <2>3. Dials'
    BY <1>17, SMTT(30) DEF Break, Dials, Failures, Flights
  <2> QED BY Zenon, <2>1, <2>2, <2>3
<1>18. CASE UNCHANGED vars
  BY Zenon, <1>18 DEF vars, Pairs, Failures, Dials
<1> QED BY Zenon, <1>1, <1>2, <1>3, <1>4, <1>5, <1>6, <1>7, <1>8, <1>9, <1>10, <1>11, <1>12,
   <1>13, <1>14, <1>15, <1>16, <1>17, <1>18
        DEF Next, Operation, Heal, Close

\* However many goroutines see a failure, refresh dials for it once.
THEOREM OneDialPerFailureHolds == Spec => []OneDialPerFailure
<1>1. Init => CountInv
  BY DEF Init, CountInv, Pairs, Failures, Dials, Healing, Dialling, None
<1>2. CountInv => OneDialPerFailure
  BY Zenon DEF CountInv, Dials, OneDialPerFailure
<1> QED BY <1>1, <1>2, Invariance, CountStep, PTL DEF Spec

-----------------------------------------------------------------------------
(* The legacy client.                                                      *)


\* Calls are records with a place and a connection.
CallShape ==
    /\ DOMAIN call = Users
    /\ \A p \in Users : "at" \in DOMAIN call[p] /\ "held" \in DOMAIN call[p]

\* Where a goroutine is inside the critical section of reconnect.
Owning(p) ==
    \/ call[p].at \in {"closeOld", "dial", "dialTarget"}
    \/ kind = "client" /\ call[p].at \in {"cancelled", "waiting"}

\* What is known there.
PlaceOf(p) ==
    /\ Owning(p) => mu = p
    /\ At(p, "cancel") \/ At(p, "dialTarget") => kind = "jumpHostClient"
    /\ At(p, "closeOld") => kind = "client"
    /\ At(p, "dial") => opened = {}
    /\ At(p, "dialTarget") => \A o \in opened : o[1] = call[p].held

OpenShape == \A o \in opened : o \in Chain(o[1])

Inv ==
    /\ kind \in {"client", "jumpHostClient"}
    /\ CallShape /\ OpenShape
    /\ \A p \in Users : PlaceOf(p)
    /\ NoOrphan

-----------------------------------------------------------------------------
\* The invariant holds at the start.
LEMMA InitInv == LegacyInit => Inv
<1> SUFFICES ASSUME LegacyInit PROVE Inv
  OBVIOUS
<1>1. kind \in {"client", "jumpHostClient"} /\ opened = Chain(1) /\ cur = 1
  BY Zenon DEF LegacyInit, Create
<1>2. CallShape /\ \A p \in Users : At(p, "idle")
  BY Zenon DEF LegacyInit, CallShape, Idle, Call, At
<1>3. \A o \in opened : o[1] = cur /\ o \in Chain(o[1])
  BY Zenon, <1>1 DEF Chain
<1>4. \A p \in Users : PlaceOf(p)
  BY Zenon, <1>2 DEF PlaceOf, Owning, At
<1> QED BY Zenon, <1>1, <1>2, <1>3, <1>4 DEF Inv, OpenShape, NoOrphan

\* It is enough to look at the goroutine that moves: while another one is inside the
\* critical section, nothing but a Close touches connections.
LEMMA OneMoves ==
    ASSUME Inv, NEW p \in Users, kind' = kind, CallShape',
           \A q \in Users \ {p} : call'[q].at = call[q].at /\ call'[q].held = call[q].held,
           \/ mu' = mu /\ opened' \subseteq opened
           \/ mu \in {Nobody, p},
           PlaceOf(p)', OpenShape', NoOrphan'
    PROVE  Inv'
<1> SUFFICES ASSUME NEW q \in Users \ {p} PROVE PlaceOf(q)'
  BY Zenon DEF Inv
<1>1. PlaceOf(q) /\ call'[q].at = call[q].at /\ call'[q].held = call[q].held
  BY Zenon DEF Inv
<1>2. CASE mu' = mu /\ opened' \subseteq opened
  BY Zenon, <1>1, <1>2 DEF PlaceOf, Owning, At
<1>3. CASE mu \in {Nobody, p}
  <2>1. ~Owning(q)
    BY Zenon, <1>1, <1>3, NobodyIsNoUser DEF PlaceOf
  <2> QED BY Zenon, <1>1, <2>1 DEF PlaceOf, Owning, At
<1> QED BY Zenon, <1>2, <1>3

\* Nobody moves, or only between places that PlaceOf does not tell apart.
LEMMA NobodyMoves ==
    ASSUME Inv, kind' = kind, cur' = cur, mu' = mu, opened' \subseteq opened, CallShape',
           \A q \in Users : call'[q].at = call[q].at /\ call'[q].held = call[q].held
    PROVE  Inv'
<1>1. \A q \in Users : PlaceOf(q)'
  BY Zenon DEF Inv, PlaceOf, Owning, At
<1>2. OpenShape'
  BY Zenon DEF Inv, OpenShape, Chain, Legs
<1>3. NoOrphan'
  BY Zenon DEF Inv, NoOrphan, At
<1> QED BY Zenon, <1>1, <1>2, <1>3 DEF Inv

\* A goroutine moves outside the critical section.
LEMMA OutsideMoves ==
    ASSUME Inv, NEW p \in Users, kind' = kind, cur' = cur, mu' = mu, opened' \subseteq opened, CallShape',
           \A q \in Users \ {p} : call'[q].at = call[q].at /\ call'[q].held = call[q].held,
           ~Owning(p), ~Owning(p)', call'[p].at = "cancel" => kind = "jumpHostClient"
    PROVE  Inv'
<1>1. PlaceOf(p)'
  BY Zenon DEF Inv, PlaceOf, Owning, At
<1>2. OpenShape'
  BY Zenon DEF Inv, OpenShape, Chain, Legs
<1>3. NoOrphan'
  <2> SUFFICES ASSUME NEW o \in opened'
               PROVE  \/ o[1] = cur
                      \/ \E q \in Users : mu' = q /\ At(q, "dialTarget")' /\ o[1] = call'[q].held
    BY Zenon DEF NoOrphan
  <2>1. CASE o[1] = cur
    BY Zenon, <2>1
  <2>2. CASE \E q \in Users : mu = q /\ At(q, "dialTarget") /\ o[1] = call[q].held
    <3> PICK q \in Users : mu = q /\ At(q, "dialTarget") /\ o[1] = call[q].held
      BY Zenon, <2>2
    <3>1. q # p
      BY Zenon DEF Owning, At
    <3> QED BY Zenon, <3>1 DEF At
  <2> QED BY Zenon, <2>1, <2>2 DEF Inv, NoOrphan
<1> QED BY Zenon, <1>1, <1>2, <1>3, OneMoves

-----------------------------------------------------------------------------
(* What the parts of an action do to the calls.                            *)

\* p goes to l; nobody else moves.
Moves(p, l) ==
    /\ CallShape'
    /\ call'[p].at = l
    /\ \A q \in Users \ {p} : call'[q].at = call[q].at /\ call'[q].held = call[q].held

\* Goto is a move.
LEMMA GotoMoves ==
    ASSUME CallShape, NEW p \in Users, NEW l, Goes(p, l)
    PROVE  Moves(p, l) /\ call'[p].held = call[p].held
BY Zenon DEF CallShape, Goes, Moves

\* An operation that returns leaves its goroutine idle.
LEMMA ReturnMoves ==
    ASSUME CallShape, NEW p \in Users, call' = [call EXCEPT ![p] = Idle]
    PROVE  Moves(p, "idle")
<1>1. Idle.at = "idle" /\ "at" \in DOMAIN Idle /\ "held" \in DOMAIN Idle
  BY Zenon DEF Idle, Call
<1> QED BY Zenon, <1>1 DEF CallShape, Moves

\* A failed attempt is the last one or goes on to reconnect.
LEMMA FailMoves ==
    ASSUME CallShape, NEW p \in Users, NEW b, Fail(p, b)
    PROVE  \/ Moves(p, "idle")
           \/ Moves(p, "lock")
           \/ Moves(p, "cancel") /\ kind # "client"
<1>1. CASE Return(p, "err")
  BY Zenon, <1>1, ReturnMoves DEF Return
<1>2. CASE call' = [call EXCEPT ![p].at = IF kind = "client" THEN "lock" ELSE "cancel",
                                ![p].held = NoConn]
  <2>1. CASE kind = "client"
    BY Zenon, <1>2, <2>1 DEF CallShape, Moves
  <2>2. CASE kind # "client"
    BY Zenon, <1>2, <2>2 DEF CallShape, Moves
  <2> QED BY Zenon, <2>1, <2>2
<1> QED BY Zenon, <1>1, <1>2 DEF Fail

\* After a reconnect comes the next attempt, or the error.
LEMMA AgainMoves ==
    ASSUME CallShape, NEW p \in Users, Again(p)
    PROVE  Moves(p, "loop") \/ Moves(p, "idle")
<1>1. CASE Return(p, "err")
  BY Zenon, <1>1, ReturnMoves DEF Return
<1>2. CASE call' = [call EXCEPT ![p].at = "loop", ![p].held = NoConn,
                                ![p].attempt = @ + 1, ![p].tries = 0]
  BY Zenon, <1>2 DEF CallShape, Moves
<1> QED BY Zenon, <1>1, <1>2 DEF Again

\* That others use the client is noted without moving anybody.
LEMMA DisturbedStays ==
    ASSUME CallShape
    PROVE  /\ DOMAIN Disturbed(call) = Users
           /\ \A q \in Users : /\ Disturbed(call)[q].at = call[q].at
                               /\ Disturbed(call)[q].held = call[q].held
                               /\ DOMAIN Disturbed(call)[q] = DOMAIN call[q]
BY Zenon DEF CallShape, Disturbed

\* A closed connection is closed on every hop; nothing else is.
LEMMA CloseChainCloses ==
    ASSUME OpenShape, NEW c, CloseChain(c)
    PROVE  opened' \subseteq opened /\ \A o \in opened' : o[1] # c
BY Zenon DEF OpenShape, CloseChain

-----------------------------------------------------------------------------
(* The operations.                                                         *)

\* Places outside reconnect's critical section, with either implementation.
LEMMA StaysOutside ==
    ASSUME Inv, NEW p \in Users, kind' = kind, cur' = cur, mu' = mu, opened' = opened,
           call[p].at \in {"idle", "loop", "run", "start", "relock"},
           \/ \E l \in {"idle", "loop", "run", "lock", "relock"} : Moves(p, l)
           \/ Moves(p, "cancel") /\ kind # "client"
    PROVE  Inv'
<1>1. ~Owning(p) /\ ~Owning(p)' /\ (call'[p].at = "cancel" => kind = "jumpHostClient")
  BY Zenon DEF Owning, Moves, Inv
<1> QED BY Zenon, <1>1, OutsideMoves DEF Moves

\* An operation starts.
LEMMA StartStep == ASSUME Inv, NEW p \in Users, Start(p) PROVE Inv'
<1>1. PICK d : call' = [Disturbed(call) EXCEPT ![p] = Call("loop", d)]
  BY Zenon DEF Start
<1>2. Call("loop", d).at = "loop" /\ "at" \in DOMAIN Call("loop", d) /\ "held" \in DOMAIN Call("loop", d)
  BY Zenon DEF Call
<1>3. Moves(p, "loop")
  BY Zenon, <1>1, <1>2, DisturbedStays DEF Inv, CallShape, Moves
<1> QED BY Zenon, <1>3, StaysOutside DEF Start, chainVars, At

\* Sessions, commands, uploads and handlers use what is installed.
LEMMA OperationStep ==
    ASSUME Inv, NEW p \in Users, OpenSession(p) \/ RunCommand(p) \/ Upload(p) \/ Serve(p)
    PROVE  Inv'
<1>0. CallShape /\ UNCHANGED <<kind, cur, mu, opened>> /\ call[p].at \in {"loop", "run"}
  BY Zenon DEF Inv, OpenSession, RunCommand, Upload, Serve, Notice, chainVars, At
<1>1. \/ \E r : Return(p, r)
      \/ call' = [call EXCEPT ![p].at = "run", ![p].held = cur]
      \/ \E b : Fail(p, b)
  <2>1. CASE OpenSession(p)
    BY Zenon, <2>1 DEF OpenSession
  <2>2. CASE RunCommand(p)
    BY Zenon, <2>2 DEF RunCommand
  <2>3. CASE Upload(p)
    BY Zenon, <2>3 DEF Upload
  <2>4. CASE Serve(p)
    BY Zenon, <2>4 DEF Serve
  <2> QED BY Zenon, <2>1, <2>2, <2>3, <2>4
<1>2. \/ Moves(p, "idle") \/ Moves(p, "run") \/ Moves(p, "lock")
      \/ Moves(p, "cancel") /\ kind # "client"
  <2>1. CASE \E r : Return(p, r)
    BY Zenon, <1>0, <2>1, ReturnMoves DEF Return
  <2>2. CASE call' = [call EXCEPT ![p].at = "run", ![p].held = cur]
    BY Zenon, <1>0, <2>2 DEF CallShape, Moves
  <2>3. CASE \E b : Fail(p, b)
    BY Zenon, <1>0, <2>3, FailMoves
  <2> QED BY Zenon, <1>1, <2>1, <2>2, <2>3
<1> QED BY Zenon, <1>0, <1>2, StaysOutside

\* jumpHostClient starts its keepalive after it has let the mutex go.
LEMMA RestartStep == ASSUME Inv, NEW p \in Users, JumpStart(p) \/ JumpRelock(p) PROVE Inv'
<1>0. CallShape /\ UNCHANGED <<kind, cur, mu, opened>> /\ call[p].at \in {"start", "relock"}
  BY Zenon DEF Inv, JumpStart, JumpRelock, chainVars, At
<1>1. CASE JumpStart(p)
  BY Zenon, <1>0, <1>1, GotoMoves, StaysOutside DEF JumpStart
<1>2. CASE JumpRelock(p)
  BY Zenon, <1>0, <1>2, AgainMoves, StaysOutside DEF JumpRelock
<1> QED BY Zenon, <1>1, <1>2

\* A context ends.
LEMMA CancelStep == ASSUME Inv, NEW p \in Users, Cancel(p) PROVE Inv'
<1>1. CallShape' /\ \A q \in Users : call'[q].at = call[q].at /\ call'[q].held = call[q].held
  BY Zenon DEF Inv, CallShape, Cancel
<1> QED BY Zenon, <1>1, NobodyMoves DEF Cancel, chainVars

-----------------------------------------------------------------------------
(* reconnect.                                                              *)

\* Before the mutex is taken (jumpHostClient), or inside the critical section (client).
LEMMA WaitingStep ==
    ASSUME Inv, NEW p \in Users, JumpCancel(p) \/ Wait(p)
    PROVE  Inv'
<1>0. CallShape /\ UNCHANGED <<kind, cur, mu, opened>> /\ PlaceOf(p)
  BY Zenon DEF Inv, JumpCancel, Wait, chainVars
<1>1. CASE JumpCancel(p)
  <2>1. Moves(p, "cancelled") /\ kind = "jumpHostClient" /\ call[p].at = "cancel"
    BY Zenon, <1>0, <1>1, GotoMoves DEF JumpCancel, PlaceOf, At
  <2>2. ~Owning(p) /\ ~Owning(p)'
    BY Zenon, <1>0, <2>1 DEF Owning, Moves
  <2> QED BY Zenon, <1>0, <2>1, <2>2, OutsideMoves DEF Moves
<1>2. CASE Wait(p) /\ kind = "jumpHostClient"
  <2>1. (Moves(p, "waiting") \/ Moves(p, "lock")) /\ call[p].at = "cancelled"
    BY Zenon, <1>0, <1>2, GotoMoves DEF Wait, AfterWait, At
  <2>2. ~Owning(p) /\ ~Owning(p)' /\ call'[p].at # "cancel"
    BY Zenon, <1>0, <1>2, <2>1 DEF Owning, Moves
  <2> QED BY Zenon, <1>0, <2>1, <2>2, OutsideMoves DEF Moves
<1>3. CASE Wait(p) /\ kind = "client"
  <2>1. (Moves(p, "waiting") \/ Moves(p, "closeOld")) /\ call[p].at = "cancelled"
    BY Zenon, <1>0, <1>3, GotoMoves DEF Wait, AfterWait, At
  <2>2. mu = p /\ PlaceOf(p)'
    BY Zenon, <1>0, <1>3, <2>1 DEF PlaceOf, Owning, At, Moves
  <2>3. OpenShape'
    BY Zenon, <1>0 DEF Inv, OpenShape, Chain, Legs
  <2>4. NoOrphan'
    BY Zenon, <1>0, <2>1, <2>2 DEF Inv, NoOrphan, At, Moves
  <2> QED BY Zenon, <1>0, <2>1, <2>2, <2>3, <2>4, OneMoves DEF Moves
<1> QED BY Zenon, <1>1, <1>2, <1>3 DEF Inv

\* Outside and before the dial everything open is installed.
LEMMA InstalledOnly ==
    ASSUME Inv, NEW p \in Users, mu \in {Nobody, p}, ~At(p, "dialTarget")
    PROVE  \A o \in opened : o[1] = cur
BY Zenon, NobodyIsNoUser DEF Inv, NoOrphan

\* The direct client takes the mutex; what is installed stays for now.
LEMMA ClientLockStep == ASSUME Inv, NEW p \in Users, ClientLock(p) PROVE Inv'
<1>0. CallShape /\ UNCHANGED <<kind, cur, opened>> /\ kind = "client" /\ mu = Nobody /\ mu' = p
  BY Zenon DEF Inv, ClientLock, chainVars
<1>1. Moves(p, "cancelled") /\ call[p].at = "lock"
  BY Zenon, <1>0, GotoMoves DEF ClientLock, At
<1>2. \A o \in opened : o[1] = cur
  BY Zenon, <1>0, <1>1, InstalledOnly DEF At
<1>3. PlaceOf(p)'
  BY Zenon, <1>0, <1>1 DEF PlaceOf, Owning, At, Moves
<1>4. OpenShape' /\ NoOrphan'
  BY Zenon, <1>0, <1>2 DEF Inv, OpenShape, Chain, Legs, NoOrphan
<1> QED BY Zenon, <1>0, <1>1, <1>3, <1>4, OneMoves DEF Moves

\* The old connection is closed, and nothing is open then.
LEMMA CloseOldStep ==
    ASSUME Inv, NEW p \in Users, ClientCloseOld(p) \/ JumpCloseOld(p)
    PROVE  Inv'
<1>0. CallShape /\ OpenShape /\ UNCHANGED <<kind, cur>> /\ CloseChain(cur) /\ mu' = p /\ mu \in {Nobody, p}
  BY Zenon DEF Inv, ClientCloseOld, JumpCloseOld, PlaceOf, Owning, At
<1>1. Moves(p, "dial") /\ call[p].at \in {"closeOld", "lock"}
  BY Zenon, <1>0, GotoMoves DEF ClientCloseOld, JumpCloseOld, At
<1>2. \A o \in opened : o[1] = cur
  BY Zenon, <1>0, <1>1, InstalledOnly DEF At
<1>3. opened' = {}
  BY Zenon, <1>0, <1>2, CloseChainCloses
<1>4. PlaceOf(p)'
  BY Zenon, <1>0, <1>1, <1>3 DEF PlaceOf, Owning, At, Moves
<1>5. OpenShape' /\ NoOrphan'
  BY Zenon, <1>3 DEF OpenShape, NoOrphan
<1> QED BY Zenon, <1>0, <1>1, <1>4, <1>5, OneMoves DEF Moves

\* The direct client installs the connection it has dialled.
LEMMA ClientDialStep == ASSUME Inv, NEW p \in Users, ClientDial(p) PROVE Inv'
<1> DEFINE c == Dialled
<1>0. /\ CallShape /\ UNCHANGED kind /\ call[p].at = "dial" /\ mu = p /\ mu' = Nobody
      /\ opened = {} /\ cur' = c /\ opened' = opened \cup Chain(c)
  BY Zenon DEF Inv, ClientDial, PlaceOf, Owning, At
<1>1. Moves(p, "loop") \/ Moves(p, "idle")
  BY Zenon, <1>0, AgainMoves DEF ClientDial
<1> HIDE DEF c
<1>2. PlaceOf(p)'
  BY Zenon, <1>0, <1>1 DEF PlaceOf, Owning, At, Moves
<1>3. \A o \in opened' : o[1] = c /\ o \in {c} \X Legs
  BY Zenon, <1>0 DEF Chain
<1>4. OpenShape' /\ NoOrphan'
  BY Zenon, <1>0, <1>3 DEF OpenShape, NoOrphan, Chain, Legs
<1> QED BY Zenon, <1>0, <1>1, <1>2, <1>4, OneMoves DEF Moves

\* The connection to the jump host is the goroutine's own until the target's is made.
LEMMA JumpDialStep == ASSUME Inv, NEW p \in Users, JumpDial(p) PROVE Inv'
<1> DEFINE c == Dialled
<1>0. /\ CallShape /\ UNCHANGED <<kind, cur, mu>> /\ kind = "jumpHostClient"
      /\ call[p].at = "dial" /\ mu = p
      /\ opened = {} /\ opened' = opened \cup {<<c, "jump">>}
      /\ call' = [call EXCEPT ![p].at = "dialTarget", ![p].held = c]
  BY Zenon DEF Inv, JumpDial, PlaceOf, Owning, At
<1> HIDE DEF c
<1>1. Moves(p, "dialTarget") /\ call'[p].held = c
  BY Zenon, <1>0 DEF CallShape, Moves
<1>2. \A o \in opened' : o[1] = c /\ o \in {c} \X Legs
  BY <1>0 DEF Legs
<1>3. PlaceOf(p)'
  BY Zenon, <1>0, <1>1, <1>2 DEF PlaceOf, Owning, At, Moves
<1>4. OpenShape' /\ NoOrphan'
  BY Zenon, <1>0, <1>1, <1>2 DEF OpenShape, NoOrphan, Chain, Legs, At, Moves
<1> QED BY Zenon, <1>0, <1>1, <1>3, <1>4, OneMoves DEF Moves

\* The second hop is dialled through the first one, which is closed when that fails.
LEMMA JumpDialTargetStep == ASSUME Inv, NEW p \in Users, JumpDialTarget(p) PROVE Inv'
<1> DEFINE c == call[p].held
<1>0. /\ CallShape /\ UNCHANGED kind /\ call[p].at = "dialTarget" /\ mu = p /\ mu' = Nobody
      /\ cur' = c /\ opened' = opened \cup {<<c, "target">>}
      /\ \A o \in opened : o[1] = c
  BY Zenon DEF Inv, JumpDialTarget, PlaceOf, Owning, At
<1>1. Moves(p, "start")
  BY Zenon, <1>0, GotoMoves DEF JumpDialTarget
<1> HIDE DEF c
<1>2. <<c, "target">> \in {c} \X Legs
  BY Zenon DEF Legs
<1>3. \A o \in opened' : o[1] = c /\ o \in Chain(o[1])
  BY Zenon, <1>0, <1>2 DEF Inv, OpenShape, Chain
<1>4. PlaceOf(p)'
  BY Zenon, <1>0, <1>1 DEF PlaceOf, Owning, At, Moves
<1>5. OpenShape' /\ NoOrphan'
  BY Zenon, <1>0, <1>3 DEF OpenShape, NoOrphan, Chain, Legs
<1> QED BY Zenon, <1>0, <1>1, <1>4, <1>5, OneMoves DEF Moves

\* A failed attempt leaves nothing open, whether it was the last one or not.
LEMMA AttemptFailsStep ==
    ASSUME Inv, NEW p \in Users, RedialFails(p) \/ JumpTargetFails(p) \/ DialStopped(p)
    PROVE  Inv'
<1>0. CallShape /\ UNCHANGED <<kind, cur>> /\ call[p].at \in {"dial", "dialTarget"} /\ mu = p
  BY Zenon DEF Inv, RedialFails, JumpTargetFails, DialStopped, NextTry, PlaceOf, Owning, At
<1>1. opened' = {}
  <2>1. CASE RedialFails(p) \/ DialStopped(p)
    BY Zenon, <2>1 DEF Inv, RedialFails, DialStopped, PlaceOf, At, chainVars
  <2>2. CASE JumpTargetFails(p)
    BY Zenon, <2>2, CloseChainCloses DEF Inv, JumpTargetFails, PlaceOf, At
  <2> QED BY Zenon, <2>1, <2>2
<1>2. \/ Moves(p, "idle")
      \/ Moves(p, "dial") /\ mu' = mu
  <2>1. CASE call' = [call EXCEPT ![p] = Idle]
    BY Zenon, <1>0, <2>1, ReturnMoves
  <2>2. CASE /\ call' = [call EXCEPT ![p].at = "dial", ![p].held = NoConn,
                                     ![p].tries = @ + 1, ![p].disturbed = TRUE]
             /\ UNCHANGED mu
    BY Zenon, <1>0, <2>2 DEF CallShape, Moves
  <2> QED BY Zenon, <2>1, <2>2 DEF RedialFails, JumpTargetFails, DialStopped, NextTry, Return
<1>3. PlaceOf(p)'
  BY Zenon, <1>0, <1>1, <1>2 DEF PlaceOf, Owning, At, Moves
<1>4. OpenShape' /\ NoOrphan'
  BY Zenon, <1>1 DEF OpenShape, NoOrphan
<1> QED BY Zenon, <1>0, <1>2, <1>3, <1>4, OneMoves DEF Moves

-----------------------------------------------------------------------------
(* Keepalive goroutines, Close and the network.                            *)

\* The last goroutine wakes whoever waits, inside the critical section or before it.
LEMMA ReleaseStep ==
    ASSUME Inv, NEW k, Release(k), UNCHANGED <<kind, cur, mu, opened>>
    PROVE  Inv'
<1>1. CASE UNCHANGED call
  BY Zenon, <1>1, NobodyMoves DEF Inv, CallShape
<1>2. CASE call' = [p \in Users |-> IF At(p, "waiting") THEN [call[p] EXCEPT !.at = AfterWait]
                                                        ELSE call[p]]
  <2>1. CallShape'
    BY Zenon, <1>2 DEF Inv, CallShape
  <2>2. \A q \in Users : /\ call'[q].held = call[q].held
                         /\ call[q].at # "waiting" => call'[q].at = call[q].at
                         /\ call[q].at = "waiting" => call'[q].at = AfterWait
    BY Zenon, <1>2 DEF Inv, CallShape, At
  <2>3. \A q \in Users : PlaceOf(q)'
    <3> SUFFICES ASSUME NEW q \in Users PROVE PlaceOf(q)'
      OBVIOUS
    <3>1. PlaceOf(q)
      BY Zenon DEF Inv
    <3>2. CASE call[q].at # "waiting"
      BY Zenon, <2>2, <3>1, <3>2 DEF PlaceOf, Owning, At
    <3>3. CASE call[q].at = "waiting" /\ kind = "client"
      BY Zenon, <2>2, <3>1, <3>3 DEF PlaceOf, Owning, At, AfterWait
    <3>4. CASE call[q].at = "waiting" /\ kind # "client"
      BY Zenon, <2>2, <3>1, <3>4 DEF PlaceOf, Owning, At, AfterWait
    <3> QED BY Zenon, <3>2, <3>3, <3>4
  <2>4. OpenShape'
    BY Zenon DEF Inv, OpenShape, Chain, Legs
  <2>5. NoOrphan'
    BY <2>2 DEF Inv, NoOrphan, At
  <2> QED BY Zenon, <2>1, <2>3, <2>4, <2>5 DEF Inv
<1> QED BY Zenon, <1>1, <1>2 DEF Release

\* The keepalive goroutines open and close nothing.
LEMMA KeepaliveStep ==
    ASSUME Inv, \/ KeepaliveExit \/ KeepaliveClient \/ KeepaliveJump
                \/ \E at \in {"current", "lost"} : KeepaliveTick(at)
    PROVE  Inv'
<1>1. UNCHANGED <<kind, cur, mu, opened>>
  BY Zenon DEF KeepaliveExit, KeepaliveClient, KeepaliveJump, KeepaliveTick, Notice, chainVars
<1>2. CASE KeepaliveExit
  BY Zenon, <1>1, <1>2, ReleaseStep DEF KeepaliveExit
<1>3. CASE KeepaliveClient
  BY Zenon, <1>1, <1>3, ReleaseStep DEF KeepaliveClient
<1>4. CASE KeepaliveJump \/ \E at \in {"current", "lost"} : KeepaliveTick(at)
  <2>1. UNCHANGED call
    BY Zenon, <1>4 DEF KeepaliveJump, KeepaliveTick
  <2> QED BY Zenon, <1>1, <2>1, NobodyMoves DEF Inv, CallShape
<1> QED BY Zenon, <1>2, <1>3, <1>4

\* Close, and the loss of a connection, only close.
LEMMA CloseStep ==
    ASSUME Inv, CloseCancel \/ CloseWait \/ CloseConns \/ Lose
    PROVE  Inv'
<1>1. UNCHANGED <<kind, cur, mu>> /\ opened' \subseteq opened
  BY Zenon DEF CloseCancel, CloseWait, CloseConns, Lose, CloseChain, chainVars
<1>2. CASE call' = Disturbed(call)
  <2>1. CallShape' /\ \A q \in Users : call'[q].at = call[q].at /\ call'[q].held = call[q].held
    BY Zenon, <1>2, DisturbedStays DEF Inv, CallShape
  <2> QED BY Zenon, <1>1, <2>1, NobodyMoves
<1>3. CASE UNCHANGED call
  BY Zenon, <1>1, <1>3, NobodyMoves DEF Inv, CallShape
<1> QED BY Zenon, <1>2, <1>3 DEF CloseCancel, CloseWait, CloseConns, Lose

\* Every step keeps the invariant.
LEMMA NextInv == Inv /\ [LegacyNext]_legacyVars => Inv'
<1> SUFFICES ASSUME Inv, [LegacyNext]_legacyVars PROVE Inv'
  OBVIOUS
<1>1. ASSUME NEW p \in Users, Step(p) PROVE Inv'
  <2>1. CASE Exec(p) \/ Upload(p)
    BY Zenon, <2>1, OperationStep DEF Exec
  <2>2. CASE reconnect(p)
    BY Zenon, <2>2, ClientLockStep, CloseOldStep, ClientDialStep, WaitingStep, JumpDialStep,
       JumpDialTargetStep, RestartStep, AttemptFailsStep DEF reconnect
  <2> QED BY Zenon, <1>1, <2>1, <2>2 DEF Step
<1>2. ASSUME NEW p \in Users,
             Start(p) \/ Serve(p) \/ Cancel(p) \/ RedialFails(p) \/ JumpTargetFails(p)
      PROVE  Inv'
  BY Zenon, <1>2, StartStep, OperationStep, CancelStep, AttemptFailsStep
<1>3. CASE UNCHANGED legacyVars
  <2>1. UNCHANGED <<kind, cur, mu, opened, call>>
    BY Zenon, <1>3 DEF legacyVars, chainVars
  <2> QED BY Zenon, <2>1, NobodyMoves DEF Inv, CallShape
<1> QED BY Zenon, <1>1, <1>2, <1>3, KeepaliveStep, CloseStep DEF LegacyNext

\* Whatever is open is installed, or is being built by the goroutine that holds the
\* mutex, for both implementations of the legacy client and any number of goroutines
\* that reconnect it.
THEOREM NoOrphanHolds == LegacySpec => []NoOrphan
<1>1. Inv => NoOrphan
  BY Zenon DEF Inv
<1> QED BY <1>1, InitInv, NextInv, PTL DEF LegacySpec

-----------------------------------------------------------------------------
(* An undisturbed operation.                                               *)

\* Calls are records with all their fields.
Fields ==
    /\ DOMAIN call = Users
    /\ \A p \in Users : /\ {"at", "held", "done", "attempt", "disturbed"} \subseteq DOMAIN call[p]
                        /\ call[p].attempt \in Nat

\* Only the installed connection can be lost, and none is while one is dialled.
Lost ==
    /\ silent \subseteq {cur} /\ broken \subseteq {cur}
    /\ \A p \in Users :
         /\ At(p, "dial") \/ At(p, "dialTarget") => silent = {} /\ broken = {}
         /\ At(p, "dialTarget") => \A o \in opened : o[2] = "jump"

\* What an operation knows while nothing disturbs it: it has the client for itself, it
\* reconnects at most once, and uses a connection that works.
Alone(p) ==
    ~At(p, "idle") /\ ~call[p].disturbed =>
        /\ ~call[p].done /\ closing = "no" /\ cur \notin silent
        /\ \A q \in Users \ {p} : At(q, "idle")
        /\ At(p, "run") => call[p].held = cur
        /\ At(p, "loop") \/ At(p, "run") \/ call[p].attempt = 0
        /\ At(p, "dialTarget") => <<call[p].held, "jump">> \in opened
        /\ \/ At(p, "run") \/ At(p, "start") \/ At(p, "relock")
           \/ At(p, "loop") /\ call[p].attempt > 0
           => Usable(cur)

HealInv == Inv /\ Fields /\ Lost /\ CallHealsAlone /\ \A p \in Users : Alone(p)

\* Only p's call changes, and no failure is recorded.
Only(p) == Fields' /\ UNCHANGED failedAlone /\ \A q \in Users \ {p} : call'[q] = call[q]

\* p goes to l, with the rest of its call as it was.
Keeps(p, l) ==
    /\ call'[p].at = l
    /\ call'[p].held = call[p].held /\ call'[p].done = call[p].done
    /\ call'[p].attempt = call[p].attempt /\ call'[p].disturbed = call[p].disturbed

\* The invariant holds at the start.
LEMMA InitHealInv == LegacyInit => HealInv
<1> SUFFICES ASSUME LegacyInit PROVE HealInv
  OBVIOUS
<1>1. Fields /\ \A p \in Users : At(p, "idle")
  BY Zenon DEF LegacyInit, Fields, Idle, Call, At
<1>2. Lost /\ CallHealsAlone
  BY Zenon, <1>1 DEF LegacyInit, Lost, CallHealsAlone, At
<1> QED BY Zenon, <1>1, <1>2, InitInv DEF HealInv, Alone

\* Goto changes the place.
LEMMA GotoKeeps ==
    ASSUME Fields, NEW p \in Users, NEW l, Goes(p, l)
    PROVE  Only(p) /\ Keeps(p, l)
BY Zenon DEF Fields, Goes, Only, Keeps

\* A disturbed operation may return an error.
LEMMA ReturnKeeps ==
    ASSUME Fields, NEW p \in Users, NEW r, Return(p, r), r = "err" => call[p].disturbed
    PROVE  Only(p) /\ call'[p].at = "idle"
<1>1. /\ Idle.at = "idle" /\ Idle.attempt \in Nat
      /\ {"at", "held", "done", "attempt", "disturbed"} \subseteq DOMAIN Idle
  BY Zenon DEF Idle, Call
<1>2. {q \in {p} : r = "err" /\ ~ call[q].disturbed} = {}
  OBVIOUS
<1> QED BY Zenon, <1>1, <1>2 DEF Fields, Return, Only

\* An undisturbed operation goes on after its first failure.
LEMMA FailKeeps ==
    ASSUME Fields, NEW p \in Users, NEW b, Fail(p, b),
           ~call[p].disturbed => b /\ call[p].attempt = 0
    PROVE  /\ Only(p)
           /\ \/ call'[p].at = "idle"
              \/ /\ call'[p].at \in {"lock", "cancel"} /\ call'[p].done = call[p].done
                 /\ call'[p].attempt = call[p].attempt /\ call'[p].disturbed = call[p].disturbed
<1>1. CASE b /\ ~ (p \in Handlers /\ call[p].attempt > 0)
  BY <1>1 DEF Fields, Fail, Only
<1>2. CASE ~(b /\ ~ (p \in Handlers /\ call[p].attempt > 0))
  <2>1. Return(p, "err") /\ call[p].disturbed
    BY <1>2 DEF Fail, Fields
  <2> QED BY Zenon, <2>1, ReturnKeeps
<1> QED BY Zenon, <1>1, <1>2

\* After its first reconnect an operation tries again.
LEMMA AgainKeeps ==
    ASSUME Fields, RetryCount > 1, NEW p \in Users, Again(p),
           ~call[p].disturbed => call[p].attempt = 0
    PROVE  /\ Only(p)
           /\ \/ call'[p].at = "idle"
              \/ /\ call'[p].at = "loop" /\ call'[p].done = call[p].done
                 /\ call'[p].attempt = call[p].attempt + 1 /\ call'[p].disturbed = call[p].disturbed
<1>1. CASE ~(p \notin Handlers /\ call[p].attempt + 1 = RetryCount)
  BY <1>1 DEF Fields, Again, Only
<1>2. CASE p \notin Handlers /\ call[p].attempt + 1 = RetryCount
  <2>1. Return(p, "err") /\ call[p].disturbed
    BY <1>2, LegacySshBounds DEF Again
  <2> QED BY Zenon, <2>1, ReturnKeeps
<1> QED BY Zenon, <1>1, <1>2

\* It is enough to look at the operation that moves: the others are disturbed or idle.
LEMMA OneActs ==
    ASSUME HealInv, NEW p \in Users, ~At(p, "idle"), Only(p), Inv', Lost', Alone(p)'
    PROVE  HealInv'
<1> SUFFICES ASSUME NEW q \in Users \ {p} PROVE Alone(q)'
  BY Zenon DEF HealInv, Only, CallHealsAlone
<1>1. call'[q] = call[q] /\ (At(q, "idle") \/ call[q].disturbed)
  BY Zenon DEF HealInv, Only, Alone
<1> QED BY Zenon, <1>1 DEF Alone, At

\* Nothing is lost by a step that opens nothing and dials nothing.
LEMMA LostStays ==
    ASSUME Lost, cur' = cur, opened' \subseteq opened, silent' \subseteq silent, broken' \subseteq broken \cup silent,
           \A p \in Users :
              /\ call'[p].at = "dial" => call[p].at \in {"dial", "dialTarget"}
              /\ call'[p].at = "dialTarget" => call[p].at = "dialTarget"
    PROVE  Lost'
BY Zenon DEF Lost, At

\* Using the installed connection changes nothing unless it is lost silently.
LEMMA NoticeKeeps ==
    ASSUME Lost, NEW c, Notice(c), cur' = cur, kind' = kind
    PROVE  /\ opened' = opened /\ silent' \subseteq silent /\ broken' \subseteq broken \cup silent
           /\ cur \notin silent => silent' = silent /\ broken' = broken /\ Usable(cur)' = Usable(cur)
<1>1. opened' = opened /\ silent' \subseteq silent /\ broken' \subseteq broken \cup silent
  BY Zenon DEF Notice
<1>2. ASSUME cur \notin silent PROVE silent' = silent /\ broken' = broken
  BY Zenon, <1>2 DEF Lost, Notice
<1>3. Chain(cur)' = Chain(cur)
  BY Zenon DEF Chain, Legs
<1> QED BY Zenon, <1>1, <1>2, <1>3 DEF Usable

\* An operation starts; those that are under way are disturbed.
LEMMA StartHeals == ASSUME HealInv, Inv', NEW p \in Users, Start(p) PROVE HealInv'
<1> DEFINE others == \E q \in Users : ~ At(q, "idle")
<1>1. /\ call' = [Disturbed(call) EXCEPT ![p] = Call("loop", others \/ cur \in silent)]
      /\ UNCHANGED <<kind, cur, opened, silent, broken, closing, failedAlone>> /\ closing = "no"
  BY Zenon DEF Start, chainVars, history
<1> HIDE DEF others
<1>2. \A q \in Users \ {p} : /\ call'[q].at = call[q].at
                             /\ call'[q].disturbed = (call[q].at # "idle")
                             /\ call'[q].attempt = call[q].attempt
                             /\ DOMAIN call'[q] = DOMAIN call[q]
  BY Zenon, <1>1 DEF HealInv, Fields, Disturbed
<1>3. /\ call'[p].at = "loop" /\ ~call'[p].done /\ call'[p].attempt = 0
      /\ call'[p].disturbed = (others \/ cur \in silent)
      /\ {"at", "held", "done", "attempt", "disturbed"} \subseteq DOMAIN call'[p]
  BY Zenon, <1>1 DEF HealInv, Fields, Disturbed, Call
<1>4. Fields' /\ CallHealsAlone'
  BY <1>1, <1>2, <1>3 DEF HealInv, Fields, Disturbed, CallHealsAlone
<1>5. Lost'
  BY Zenon, <1>1, <1>2, <1>3, LostStays DEF HealInv
<1>6. \A q \in Users \ {p} : Alone(q)'
  BY Zenon, <1>2 DEF Alone, At
<1>7. ~call'[p].disturbed => cur \notin silent /\ \A q \in Users : call[q].at = "idle"
  BY Zenon, <1>3 DEF others, At
<1>8. UNCHANGED <<cur, silent, closing>> /\ closing = "no"
  BY Zenon, <1>1
<1>9. Alone(p)'
  BY <1>2, <1>3, <1>7, <1>8 DEF Alone, At
<1> QED BY Zenon, <1>4, <1>5, <1>6, <1>9 DEF HealInv

\* The top of the loop: a connection known to be lost is a connection error.
LEMMA OpenSessionHeals == ASSUME HealInv, Inv', NEW p \in Users, OpenSession(p) PROVE HealInv'
<1>0. Fields /\ Lost /\ Alone(p) /\ call[p].at = "loop" /\ UNCHANGED <<kind, cur, closing>>
  BY Zenon DEF HealInv, OpenSession, At
<1>1. CASE call[p].done /\ p \notin Handlers
  <2>1. Return(p, "err") /\ UNCHANGED <<opened, silent, broken>> /\ call[p].disturbed
    BY Zenon, <1>0, <1>1 DEF OpenSession, Alone, At, chainVars
  <2>2. Only(p) /\ call'[p].at = "idle"
    BY Zenon, <1>0, <2>1, ReturnKeeps
  <2>3. Lost'
    BY Zenon, <1>0, <2>1, <2>2, LostStays DEF Only
  <2> QED BY Zenon, <1>0, <2>2, <2>3, OneActs DEF Alone, At
<1>2. CASE ~(call[p].done /\ p \notin Handlers)
  <2>1. /\ opened' = opened /\ silent' \subseteq silent /\ broken' \subseteq broken \cup silent
        /\ cur \notin silent => silent' = silent /\ broken' = broken /\ Usable(cur)' = Usable(cur)
    BY Zenon, <1>0, <1>2, NoticeKeeps DEF OpenSession
  <2>2. CASE Usable(cur)
    <3>1. call' = [call EXCEPT ![p].at = "run", ![p].held = cur] /\ UNCHANGED failedAlone
      BY Zenon, <1>2, <2>2 DEF OpenSession
    <3>2. /\ Only(p) /\ call'[p].at = "run" /\ call'[p].held = cur /\ call'[p].done = call[p].done
          /\ call'[p].attempt = call[p].attempt /\ call'[p].disturbed = call[p].disturbed
      BY Zenon, <1>0, <3>1 DEF Fields, Only
    <3>3. Lost'
      BY Zenon, <1>0, <2>1, <3>2, LostStays DEF Only
    <3>4. Alone(p)'
      BY Zenon, <1>0, <2>1, <2>2, <3>2 DEF Alone, At, Only
    <3> QED BY Zenon, <1>0, <3>2, <3>3, <3>4, OneActs DEF At
  <2>3. CASE ~Usable(cur)
    <3>1. PICK b \in isConnectionError(cur) : Fail(p, b)
      BY Zenon, <1>2, <2>3 DEF OpenSession
    <3>2. ~call[p].disturbed => b /\ call[p].attempt = 0
      <4>1. cur \notin silent => b
        BY Zenon, <3>1 DEF isConnectionError
      <4>2. ~call[p].disturbed => cur \notin silent /\ ~(call[p].attempt > 0)
        BY Zenon, <1>0, <2>3 DEF Alone, At
      <4> QED BY <1>0, <4>1, <4>2 DEF Fields
    <3>3. /\ Only(p)
          /\ \/ call'[p].at = "idle"
             \/ /\ call'[p].at \in {"lock", "cancel"} /\ call'[p].done = call[p].done
                /\ call'[p].attempt = call[p].attempt /\ call'[p].disturbed = call[p].disturbed
      BY Zenon, <1>0, <3>1, <3>2, FailKeeps
    <3>4. Lost'
      BY Zenon, <1>0, <2>1, <3>3, LostStays DEF Only
    <3>5. Alone(p)'
      BY Zenon, <1>0, <2>1, <3>2, <3>3 DEF Alone, At, Only
    <3> QED BY Zenon, <1>0, <3>3, <3>4, <3>5, OneActs DEF At
  <2> QED BY Zenon, <2>2, <2>3
<1> QED BY Zenon, <1>1, <1>2

\* Commands, uploads and handlers: the connection of an undisturbed one works to the end.
LEMMA RunHeals ==
    ASSUME HealInv, Inv', NEW p \in Users, RunCommand(p) \/ Upload(p) \/ Serve(p)
    PROVE  HealInv'
<1>0. Fields /\ Lost /\ Alone(p) /\ call[p].at = "run" /\ UNCHANGED <<kind, cur, closing>>
  BY Zenon DEF HealInv, RunCommand, Upload, Serve, At
<1>1. opened' = opened /\ silent' \subseteq silent /\ broken' \subseteq broken \cup silent
  BY Zenon, <1>0, NoticeKeeps DEF RunCommand, Upload, Serve, chainVars
<1>2. ~call[p].disturbed => ~call[p].done /\ Usable(call[p].held)
  BY Zenon, <1>0 DEF Alone, At
<1>3. \/ \E r : Return(p, r) /\ (r = "err" => call[p].disturbed)
      \/ call[p].disturbed /\ \E b : Fail(p, b)
  BY <1>2 DEF RunCommand, Upload, Serve
<1>4. Only(p) /\ call'[p].at \in {"idle", "lock", "cancel"} /\ (call'[p].at # "idle" => call'[p].disturbed)
  <2>1. CASE \E r : Return(p, r) /\ (r = "err" => call[p].disturbed)
    BY Zenon, <1>0, <2>1, ReturnKeeps
  <2>2. CASE call[p].disturbed /\ \E b : Fail(p, b)
    BY Zenon, <1>0, <2>2, FailKeeps
  <2> QED BY Zenon, <1>3, <2>1, <2>2
<1>5. Lost'
  BY Zenon, <1>0, <1>1, <1>4, LostStays DEF Only
<1> QED BY Zenon, <1>0, <1>4, <1>5, OneActs DEF Alone, At

\* The context ends, a dial fails, or is given up.
LEMMA FailureHeals ==
    ASSUME HealInv, Inv', NEW p \in Users,
           Cancel(p) \/ RedialFails(p) \/ JumpTargetFails(p) \/ DialStopped(p)
    PROVE  HealInv'
<1>0. /\ Fields /\ Lost /\ Alone(p) /\ UNCHANGED cur
      /\ call[p].at \in {"loop", "run", "dial", "dialTarget"}
      /\ opened' \subseteq opened /\ silent' \subseteq silent /\ broken' \subseteq broken
  BY Zenon
     DEF HealInv, Cancel, RedialFails, JumpTargetFails, DialStopped, NextTry, At, chainVars, CloseChain
<1>1. \/ Cancel(p) /\ UNCHANGED failedAlone /\ call' = [call EXCEPT ![p].done = TRUE, ![p].disturbed = TRUE]
      \/ call' = [call EXCEPT ![p] = Idle] /\ UNCHANGED failedAlone
      \/ /\ call' = [call EXCEPT ![p].at = "dial", ![p].held = NoConn,
                                 ![p].tries = @ + 1, ![p].disturbed = TRUE]
         /\ call[p].at \in {"dial", "dialTarget"} /\ UNCHANGED failedAlone
      \/ Return(p, "err") /\ call[p].disturbed
  BY Zenon, <1>0 DEF Cancel, RedialFails, JumpTargetFails, DialStopped, NextTry, history, Alone, At
<1>2. /\ Only(p) /\ (call'[p].at # "idle" => call'[p].disturbed)
      /\ call'[p].at \in {"idle", call[p].at, "dial"}
      /\ call'[p].at = "dial" => call[p].at \in {"dial", "dialTarget"}
  <2>1. CASE call' = [call EXCEPT ![p].done = TRUE, ![p].disturbed = TRUE] /\ UNCHANGED failedAlone
    BY Zenon, <1>0, <2>1 DEF Fields, Only
  <2>2. CASE call' = [call EXCEPT ![p] = Idle] /\ UNCHANGED failedAlone
    BY Zenon, <1>0, <2>2 DEF Fields, Only, Idle, Call
  <2>3. CASE /\ call' = [call EXCEPT ![p].at = "dial", ![p].held = NoConn,
                                     ![p].tries = @ + 1, ![p].disturbed = TRUE]
             /\ call[p].at \in {"dial", "dialTarget"} /\ UNCHANGED failedAlone
    BY Zenon, <1>0, <2>3 DEF Fields, Only
  <2>4. CASE Return(p, "err") /\ call[p].disturbed
    BY Zenon, <1>0, <2>4, ReturnKeeps
  <2> QED BY Zenon, <1>1, <2>1, <2>2, <2>3, <2>4
<1>3. Lost'
  BY Zenon, <1>0, <1>2, LostStays DEF Only
<1> QED BY Zenon, <1>0, <1>2, <1>3, OneActs DEF Alone, At

\* Steps of reconnect that only move on.
LEMMA MovesOnHeals ==
    ASSUME HealInv, Inv', NEW p \in Users, ClientLock(p) \/ JumpCancel(p) \/ Wait(p) \/ JumpStart(p)
    PROVE  HealInv'
<1>0. /\ Fields /\ Lost /\ Alone(p) /\ UNCHANGED <<kind, cur, opened, silent, broken, closing>>
      /\ call[p].at \in {"lock", "cancel", "cancelled", "start"}
  BY Zenon DEF HealInv, ClientLock, JumpCancel, Wait, JumpStart, At, chainVars
<1>1. PICK l \in {"cancelled", "waiting", "closeOld", "lock", "relock"} :
        Goes(p, l) /\ (l = "relock" => call[p].at = "start")
  BY Zenon DEF ClientLock, JumpCancel, Wait, AfterWait, JumpStart, At
<1>2. Only(p) /\ Keeps(p, l)
  BY Zenon, <1>0, <1>1, GotoKeeps
<1>3. Lost'
  BY Zenon, <1>0, <1>2, LostStays DEF Only, Keeps
<1>4. Usable(cur)' = Usable(cur)
  BY Zenon, <1>0 DEF Usable, Chain, Legs
<1>5. Alone(p)'
  BY Zenon, <1>0, <1>1, <1>2, <1>4 DEF Alone, At, Only, Keeps
<1> QED BY Zenon, <1>0, <1>2, <1>3, <1>5, OneActs DEF At

\* The lost connection is closed, and forgotten with it.
LEMMA CloseOldHeals ==
    ASSUME HealInv, Inv', NEW p \in Users, ClientCloseOld(p) \/ JumpCloseOld(p)
    PROVE  HealInv'
<1>0. /\ Fields /\ Lost /\ Alone(p) /\ UNCHANGED <<kind, cur, closing>>
      /\ call[p].at \in {"closeOld", "lock"} /\ Goes(p, "dial")
      /\ opened' \subseteq opened /\ silent' = silent \ {cur} /\ broken' = broken \ {cur}
  BY Zenon DEF HealInv, ClientCloseOld, JumpCloseOld, At, CloseChain
<1>1. Only(p) /\ Keeps(p, "dial")
  BY Zenon, <1>0, GotoKeeps
<1>2. silent' = {} /\ broken' = {}
  BY Zenon, <1>0 DEF Lost
<1>3. \A q \in Users : call'[q].at = "dialTarget" => call[q].at = "dialTarget"
  BY Zenon, <1>1 DEF Only, Keeps
<1>4. Lost'
  BY Zenon, <1>0, <1>2, <1>3 DEF Lost, At
<1>5. Alone(p)'
  BY Zenon, <1>0, <1>1, <1>2 DEF Alone, At, Only, Keeps
<1> QED BY Zenon, <1>0, <1>1, <1>4, <1>5, OneActs DEF At

\* Who dials holds the mutex, and nobody else does.
LEMMA OneDials ==
    ASSUME Inv, NEW p \in Users, call[p].at \in {"dial", "dialTarget"}, NEW q \in Users \ {p}
    PROVE  call[q].at \notin {"dial", "dialTarget"}
BY Zenon DEF Inv, PlaceOf, Owning

\* The new connection of the direct client works.
LEMMA ClientDialHeals ==
    ASSUME HealInv, Inv', RetryCount > 1, NEW p \in Users, ClientDial(p)
    PROVE  HealInv'
<1> DEFINE c == Dialled
<1>0. /\ Fields /\ Lost /\ Alone(p) /\ Again(p) /\ UNCHANGED <<kind, closing>>
      /\ call[p].at = "dial" /\ silent' = {} /\ broken' = {}
      /\ cur' = c /\ opened' = opened \cup Chain(c)
  BY Zenon DEF HealInv, ClientDial, Lost, At
<1> HIDE DEF c
<1>1. ~call[p].disturbed => call[p].attempt = 0
  BY Zenon, <1>0 DEF Alone, At
<1>2. /\ Only(p)
      /\ \/ call'[p].at = "idle"
         \/ /\ call'[p].at = "loop" /\ call'[p].done = call[p].done
            /\ call'[p].attempt = call[p].attempt + 1 /\ call'[p].disturbed = call[p].disturbed
  BY Zenon, <1>0, <1>1, AgainKeeps
<1>3. \A q \in Users : call'[q].at # "dialTarget"
  BY Zenon, <1>0, <1>2, OneDials DEF HealInv, Only
<1>4. Lost'
  BY Zenon, <1>0, <1>3 DEF Lost, At
<1>5. Usable(cur)'
  BY Zenon, <1>0 DEF Usable, Chain, Legs
<1>6. Alone(p)'
  BY Zenon, <1>0, <1>1, <1>2, <1>5 DEF Alone, At, Only
<1> QED BY Zenon, <1>0, <1>2, <1>4, <1>6, OneActs DEF At

\* The first hop is open until the second is.
LEMMA JumpDialHeals == ASSUME HealInv, Inv', NEW p \in Users, JumpDial(p) PROVE HealInv'
<1> DEFINE c == Dialled
<1>0. /\ Fields /\ Lost /\ Alone(p) /\ UNCHANGED <<kind, cur, closing, silent, broken, failedAlone>>
      /\ call[p].at = "dial" /\ opened = {} /\ opened' = opened \cup {<<c, "jump">>}
      /\ call' = [call EXCEPT ![p].at = "dialTarget", ![p].held = c]
  BY Zenon DEF HealInv, Inv, PlaceOf, JumpDial, At, history
<1> HIDE DEF c
<1>1. /\ Only(p) /\ call'[p].at = "dialTarget" /\ call'[p].held = c
      /\ call'[p].done = call[p].done
      /\ call'[p].attempt = call[p].attempt /\ call'[p].disturbed = call[p].disturbed
  BY Zenon, <1>0 DEF Fields, Only
<1>2. Lost'
  BY <1>0 DEF Lost, At
<1>3. <<call'[p].held, "jump">> \in opened'
  BY <1>0, <1>1
<1>4. Alone(p)'
  BY Zenon, <1>0, <1>1, <1>3 DEF Alone, At, Only
<1> QED BY Zenon, <1>0, <1>1, <1>2, <1>4, OneActs DEF At

\* With both hops the connection to the target works.
LEMMA JumpDialTargetHeals ==
    ASSUME HealInv, Inv', NEW p \in Users, JumpDialTarget(p)
    PROVE  HealInv'
<1> DEFINE c == call[p].held
<1>0. /\ Fields /\ Lost /\ Alone(p) /\ Goes(p, "start") /\ UNCHANGED <<kind, closing>>
      /\ kind = "jumpHostClient"
      /\ call[p].at = "dialTarget" /\ silent' = {} /\ broken' = {}
      /\ cur' = c /\ opened' = opened \cup {<<c, "target">>}
  BY Zenon DEF HealInv, Inv, PlaceOf, JumpDialTarget, Lost, At
<1>1. Only(p) /\ Keeps(p, "start")
  BY Zenon, <1>0, GotoKeeps
<1>2. \A q \in Users : call'[q].at # "dialTarget"
  BY Zenon, <1>0, <1>1, OneDials DEF HealInv, Only, Keeps
<1>3. ~call[p].disturbed => <<c, "jump">> \in opened
  BY Zenon, <1>0 DEF Alone, At
<1> HIDE DEF c
<1>4. Lost'
  BY Zenon, <1>0, <1>2 DEF Lost, At
<1>5. ~call[p].disturbed => Usable(cur)'
  BY <1>0, <1>3 DEF Usable, Chain, Legs
<1>6. Alone(p)'
  BY Zenon, <1>0, <1>1, <1>5 DEF Alone, At, Only, Keeps
<1> QED BY Zenon, <1>0, <1>1, <1>4, <1>6, OneActs DEF At

\* The second attempt of an operation finds it.
LEMMA JumpRelockHeals ==
    ASSUME HealInv, Inv', RetryCount > 1, NEW p \in Users, JumpRelock(p)
    PROVE  HealInv'
<1>0. /\ Fields /\ Lost /\ Alone(p) /\ Again(p) /\ UNCHANGED <<kind, cur, opened, silent, broken, closing>>
      /\ call[p].at = "relock"
  BY Zenon DEF HealInv, JumpRelock, At, chainVars
<1>1. ~call[p].disturbed => call[p].attempt = 0 /\ Usable(cur)
  BY Zenon, <1>0 DEF Alone, At
<1>2. /\ Only(p)
      /\ \/ call'[p].at = "idle"
         \/ /\ call'[p].at = "loop" /\ call'[p].done = call[p].done
            /\ call'[p].attempt = call[p].attempt + 1 /\ call'[p].disturbed = call[p].disturbed
  BY Zenon, <1>0, <1>1, AgainKeeps
<1>3. Lost'
  BY Zenon, <1>0, <1>2, LostStays DEF Only
<1>4. Usable(cur)' = Usable(cur)
  BY Zenon, <1>0 DEF Usable, Chain, Legs
<1>5. Alone(p)'
  BY Zenon, <1>0, <1>1, <1>2, <1>4 DEF Alone, At, Only
<1> QED BY Zenon, <1>0, <1>2, <1>3, <1>5, OneActs DEF At

\* A keepalive goroutine that ends wakes whoever waits for it.
LEMMA ReleaseKeeps ==
    ASSUME Fields, NEW k, Release(k)
    PROVE  /\ Fields'
           /\ \A q \in Users : Keeps(q, call[q].at) \/ (At(q, "waiting") /\ Keeps(q, AfterWait))
<1>1. CASE UNCHANGED call
  BY Zenon, <1>1 DEF Fields, Keeps
<1>2. CASE call' = [p \in Users |-> IF At(p, "waiting") THEN [call[p] EXCEPT !.at = AfterWait]
                                                        ELSE call[p]]
  BY Zenon, <1>2 DEF Fields, Keeps, At
<1> QED BY Zenon, <1>1, <1>2 DEF Release

\* Keepalive goroutines do not disturb: they notice nothing that an operation does not.
LEMMA KeepaliveHeals ==
    ASSUME HealInv, Inv', \/ KeepaliveExit \/ KeepaliveClient \/ KeepaliveJump
                          \/ \E at \in {"current", "lost"} : KeepaliveTick(at)
    PROVE  HealInv'
<1>0. /\ Fields /\ Lost /\ UNCHANGED <<kind, cur, failedAlone>>
      /\ closing = "no" => closing' = "no"
  BY Zenon
     DEF HealInv, KeepaliveExit, KeepaliveClient, KeepaliveJump, KeepaliveTick, Release, history
<1>1. /\ Fields'
      /\ \A q \in Users : Keeps(q, call[q].at) \/ (At(q, "waiting") /\ Keeps(q, AfterWait))
  <2>1. CASE UNCHANGED call
    BY Zenon, <1>0, <2>1 DEF Fields, Keeps
  <2>2. CASE \E k : Release(k)
    BY Zenon, <1>0, <2>2, ReleaseKeeps
  <2> QED BY Zenon, <2>1, <2>2 DEF KeepaliveExit, KeepaliveClient, KeepaliveJump, KeepaliveTick
<1>2. /\ opened' = opened /\ silent' \subseteq silent /\ broken' \subseteq broken \cup silent
      /\ cur \notin silent => silent' = silent /\ broken' = broken /\ Usable(cur)' = Usable(cur)
  <2>1. CASE Notice(cur)
    BY Zenon, <1>0, <2>1, NoticeKeeps
  <2>2. CASE UNCHANGED chainVars
    BY Zenon, <1>0, <2>2 DEF chainVars, Usable, Chain, Legs
  <2> QED BY Zenon, <2>1, <2>2 DEF KeepaliveExit, KeepaliveClient, KeepaliveJump, KeepaliveTick
<1>3. AfterWait \in {"closeOld", "lock"}
  BY Zenon DEF AfterWait
<1>4. Lost'
  BY Zenon, <1>0, <1>1, <1>2, <1>3, LostStays DEF Keeps
<1>5. ASSUME NEW q \in Users PROVE Alone(q)'
  <2>1. Alone(q) /\ \A s \in Users : call'[s].at = "idle" <=> call[s].at = "idle"
    BY Zenon, <1>1, <1>3 DEF HealInv, Keeps, At
  <2>2. CASE Keeps(q, call[q].at)
    BY Zenon, <1>0, <1>2, <2>1, <2>2 DEF Alone, At, Keeps
  <2>3. CASE At(q, "waiting") /\ Keeps(q, AfterWait)
    BY Zenon, <1>0, <1>2, <1>3, <2>1, <2>3 DEF Alone, At, Keeps
  <2> QED BY Zenon, <1>1, <2>2, <2>3
<1> QED BY Zenon, <1>0, <1>1, <1>4, <1>5 DEF HealInv, CallHealsAlone

\* Close and the loss of a connection disturb every operation.
LEMMA CloseHeals ==
    ASSUME HealInv, Inv', CloseCancel \/ CloseWait \/ CloseConns \/ Lose
    PROVE  HealInv'
<1>0. Fields /\ Lost /\ UNCHANGED <<kind, cur, failedAlone>> /\ opened' \subseteq opened
  BY Zenon DEF HealInv, CloseCancel, CloseWait, CloseConns, Lose, CloseChain, chainVars, history
<1>1. /\ Fields' /\ \A q \in Users : call'[q].at = call[q].at
      /\ \A q \in Users : call'[q].at # "idle" => call'[q].disturbed
  <2>1. CASE call' = Disturbed(call)
    BY Zenon, <1>0, <2>1 DEF Fields, Disturbed
  <2>2. CASE UNCHANGED call /\ closing # "no"
    BY Zenon, <1>0, <2>2 DEF HealInv, Alone, At, Fields
  <2> QED BY Zenon, <2>1, <2>2 DEF CloseCancel, CloseWait, CloseConns, Lose
<1>2. Lost'
  <2>1. CASE CloseCancel \/ CloseWait \/ CloseConns
    <3>1. silent' \subseteq silent /\ broken' \subseteq broken
      BY Zenon, <2>1 DEF CloseCancel, CloseWait, CloseConns, CloseChain, chainVars
    <3> QED BY Zenon, <1>0, <1>1, <3>1, LostStays
  <2>2. CASE Lose
    <3>1. /\ Chain(cur) \subseteq opened /\ UNCHANGED opened
          /\ silent' \subseteq silent \cup {cur} /\ broken' \subseteq broken \cup {cur}
      BY Zenon, <2>2 DEF Lose, Usable
    <3>2. <<cur, "target">> \in opened
      BY Zenon, <3>1 DEF Chain, Legs
    <3>3. \A q \in Users : call[q].at \notin {"dial", "dialTarget"}
      BY Zenon, <1>0, <3>2 DEF HealInv, Inv, PlaceOf, Lost, At
    <3> QED BY Zenon, <1>0, <1>1, <3>1, <3>3 DEF Lost, At
  <2> QED BY Zenon, <2>1, <2>2
<1> QED BY Zenon, <1>0, <1>1, <1>2 DEF HealInv, Alone, At, CallHealsAlone

\* Every step keeps the invariant.
LEMMA NextHealInv == ASSUME RetryCount > 1 PROVE HealInv /\ [LegacyNext]_legacyVars => HealInv'
<1> SUFFICES ASSUME HealInv, [LegacyNext]_legacyVars PROVE HealInv'
  OBVIOUS
<1>0. Inv'
  BY Zenon, NextInv DEF HealInv
<1>1. ASSUME NEW p \in Users, Step(p) PROVE HealInv'
  <2>1. CASE Exec(p) \/ Upload(p)
    BY Zenon, <1>0, <2>1, OpenSessionHeals, RunHeals DEF Exec
  <2>2. CASE reconnect(p)
    BY Zenon, <1>0, <2>2, MovesOnHeals, CloseOldHeals, ClientDialHeals, JumpDialHeals,
       JumpDialTargetHeals, JumpRelockHeals, FailureHeals DEF reconnect
  <2> QED BY Zenon, <1>1, <2>1, <2>2 DEF Step
<1>2. ASSUME NEW p \in Users,
             Start(p) \/ Serve(p) \/ Cancel(p) \/ RedialFails(p) \/ JumpTargetFails(p)
      PROVE  HealInv'
  BY Zenon, <1>0, <1>2, StartHeals, RunHeals, FailureHeals
<1>3. CASE UNCHANGED legacyVars
  BY <1>0, <1>3 DEF legacyVars, chainVars, history, HealInv, Fields, Lost, CallHealsAlone, Alone, At,
     Usable, Chain, Legs
<1> QED BY Zenon, <1>0, <1>1, <1>2, <1>3, KeepaliveHeals, CloseHeals DEF LegacyNext

\* An operation that nothing disturbs succeeds, whatever earlier failures and reconnects
\* have left, for any number of callers: if an operation has at least two attempts
\* (config.SSHRetryCount), one to find the connection lost and one to use the new one.
THEOREM CallHealsAloneHolds == ASSUME RetryCount > 1 PROVE LegacySpec => []CallHealsAlone
<1>1. HealInv => CallHealsAlone
  BY Zenon DEF HealInv
<1>2. HealInv /\ [LegacyNext]_legacyVars => HealInv'
  BY Zenon, NextHealInv
<1> QED BY <1>1, <1>2, InitHealInv, PTL DEF LegacySpec

=============================================================================
