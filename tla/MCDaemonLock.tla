---------------------------- MODULE MCDaemonLock ----------------------------
(* Finite instances of DaemonLock for TLC. *)
EXTENDS DaemonLock

CONSTANTS d1, d2, d3, d4
=============================================================================
