------------------------------ MODULE MCSshConn ------------------------------
(* Instances of SshConn for TLC.                                           *)
EXTENDS SshConn

CONSTANT c1

==============================================================================
