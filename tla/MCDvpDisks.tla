------------------------------ MODULE MCDvpDisks ------------------------------
(* Instances of DvpDisks for TLC.                                          *)
EXTENDS DvpDisks, TLC

CONSTANTS c1, c2

CallerSymmetry == Permutations(Callers)

\* Disk "a" on node "b-c" and disk "a-b" on node "c" share an attachment name.
DashDisks == {<<"a">>, <<"a", "b">>}
DashNodes == {<<"b", "c">>, <<"c">>}

==============================================================================
