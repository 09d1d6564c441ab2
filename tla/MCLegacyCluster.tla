--------------------------- MODULE MCLegacyCluster ---------------------------
(***************************************************************************)
(* Two test processes and two runs; a cluster of one master and one worker *)
(* and the setup machine, all from one image.                              *)
(***************************************************************************)
EXTENDS LegacyCluster, TLC

CONSTANTS p1, p2

TwoProcs == {p1, p2}
OneMaster == <<"m">>
OneWorker == <<"w">>
OneImage == [n \in {"m", "w", "setup"} |-> "jammy"]

Env(k, i, c, m, a) == [kind |-> k, policy |-> i, cleanup |-> c, modules |-> m, create |-> TRUE, alone |-> a]
All ==
    {Env("create", "IfNotExists", "true", TRUE, FALSE)}
    \cup {Env("create", i, c, FALSE, TRUE) : i \in {"IfNotExists", "Always"}, c \in {"true", ""}}
    \cup {Env(k, "Always", "", FALSE, FALSE) : k \in {"existing", "jump", "provider"}}
    \cup {Env("commander", "Always", c, FALSE, FALSE) : c \in {"true", "false"}}
    \cup {[Env("commander", "Always", "true", FALSE, FALSE) EXCEPT !.create = FALSE]}

Symmetry == Permutations(TwoProcs)
==============================================================================
