----------------------------- MODULE MCE2eConnect -----------------------------
(* Instances of E2eConnect for TLC.                                        *)
EXTENDS E2eConnect

CONSTANTS r1, r2

\* The second run's clock is one renewal period ahead of the first's.
MCSkew == [r \in Runs |-> IF r = r2 THEN 1 ELSE 0]

\* A lease that is still fresh when the runs start, and one long expired.
MCLeftover == {-1, -9}

Run(route, lock, closers) == [route |-> route, lock |-> lock, closers |-> closers]

\* Two runs that take the lock, and one that takes it beside one that does not.
MCSetups ==
    LET One == {"suite"} IN
    {[r \in Runs |-> IF r = r1 THEN Run(Commander, TRUE, Closers) ELSE Run(Commander, TRUE, One)],
     [r \in Runs |-> IF r = r1 THEN Run(DvpTunnelled, FALSE, Closers) ELSE Run(DvpDirect, TRUE, One)]}

===============================================================================
