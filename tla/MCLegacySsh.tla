----------------------------- MODULE MCLegacySsh -----------------------------
(* Instances of LegacySsh for TLC.                                         *)
EXTENDS LegacySsh

CONSTANTS c1, c2

==============================================================================
