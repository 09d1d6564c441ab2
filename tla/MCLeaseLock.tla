----------------------------- MODULE MCLeaseLock -----------------------------
(* Instances of LeaseLock for TLC.                                         *)
EXTENDS LeaseLock

CONSTANTS r1, r2

\* The second run's clock is one renewal period ahead of the others'.
MCSkew == [r \in Runs |-> IF r = r2 THEN 1 ELSE 0]

\* A lease that is still fresh when the runs start, and one long expired.
MCLeftover == {-1, -9}

==============================================================================
