---------------------------- MODULE MCLifecycle ----------------------------
(* Finite instances of Lifecycle for TLC. *)
EXTENDS Lifecycle
=============================================================================
