---------------------------- MODULE MCDvpBootstrap ----------------------------
(* Instances of DvpBootstrap for TLC. *)
EXTENDS DvpBootstrap

CONSTANTS w1, w2

===============================================================================
