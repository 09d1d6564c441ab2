---------------------------- MODULE MCModuleEnable ----------------------------
(* Instances of ModuleEnable for TLC.                                      *)
EXTENDS ModuleEnable

CONSTANTS m1, m2, m3, unknown

===============================================================================
