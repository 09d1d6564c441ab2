-------------------------- MODULE MCCommanderCluster --------------------------
(* Instances of CommanderCluster for TLC. *)
EXTENDS CommanderCluster

CONSTANTS c1, c2, k1, k2

\* One change of each key.
MCWishes == {<<k1, 1>>, <<k2, 1>>}

===============================================================================
