------------------------------ MODULE MCVmFleet ------------------------------
(* Instances of VmFleet for TLC. *)
EXTENDS VmFleet

CONSTANTS n1, n2, f1, i1

===============================================================================
