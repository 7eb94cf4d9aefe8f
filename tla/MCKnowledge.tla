---------------------------- MODULE MCKnowledge ----------------------------
(* A finite instance of Knowledge for TLC. *)
EXTENDS Knowledge, TLC

CONSTANTS a, b, s1, s2

\* One source is enabled, disabled or no longer listed; the other always is enabled.
Choices ==
  {[listed |-> {a, b}, enabled |-> {a, b}], [listed |-> {a, b}, enabled |-> {b}],
   [listed |-> {b}, enabled |-> {b}]}

Requests == Permutations(Sync)
=============================================================================
