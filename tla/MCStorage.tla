----------------------------- MODULE MCStorage -----------------------------
(* A finite instance of Storage for TLC. *)
EXTENDS Storage

CONSTANTS r1, c1, c2, s1, s2

Stored(status, attempts, updated, task) ==
  [status |-> status, attempts |-> attempts, updated |-> updated, task |-> task]

\* Copies of a record that disagree about its delivery, its age and its task.
Copies ==
  {Stored("pending", 0, 2, FALSE), Stored("sending", 1, 2, FALSE), Stored("sent", 1, 1, TRUE),
   Stored("sent", 1, 2, FALSE), Stored("needs_manual", 2, 1, FALSE)}

=============================================================================
