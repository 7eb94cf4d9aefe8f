--------------------------- MODULE StoredReplies ---------------------------
(***************************************************************************)
(* The reply records as the database sees them: what a record holds and    *)
(* what one update of the state document may do to it                      *)
(* (src/main/core/types.ts and the updates of src/main/core/worker.ts).    *)
(***************************************************************************)
EXTENDS Naturals

CONSTANTS
  Id,           \* reply records
  MaxAttempts,  \* bound of the model: attempts of one record
  Now           \* timestamp of every update made after the older files

Unsettled == {"pending", "sending"}

Settled == {"sent", "needs_manual"}

NoReply == [status |-> "absent", attempts |-> 0, updated |-> 0, task |-> FALSE]

Reply ==
  [status : Unsettled \cup Settled \cup {"absent"}, attempts : 0..MaxAttempts,
   updated : 0..Now, task : BOOLEAN]

New == [status |-> "pending", attempts |-> 0, updated |-> Now, task |-> FALSE]

Claim(r) == [r EXCEPT !.status = "sending", !.attempts = @ + 1, !.updated = Now]

\* The worker tries again however often it has tried.
SuccessorsUnlimited(r) ==
  CASE r.status = "absent" -> {New}
    [] r.status \in Settled -> {NoReply}
    [] OTHER -> {Claim(r), [r EXCEPT !.status = "needs_manual"]}

\* The records one update of the worker may put in the place of r.
Successors(r) ==
  CASE r.status = "absent" -> {New}
    [] r.status \in Settled -> {NoReply}
    [] OTHER ->
         {[r EXCEPT !.status = "needs_manual", !.updated = Now]}
           \cup (IF r.attempts < MaxAttempts THEN {Claim(r)} ELSE {})
           \cup (IF r.status = "sending"
                 THEN {[r EXCEPT !.status = "sent", !.task = t, !.updated = Now] : t \in BOOLEAN}
                 ELSE {})

\* The records after one update: it may change several, as trimming and the
\* first scan do, or leave them all as they are.
Updates(recs) ==
  LET places == UNION {{recs[i]} \cup Successors(recs[i]) : i \in Id}
  IN {next \in [Id -> places] : \A i \in Id : next[i] \in {recs[i]} \cup Successors(recs[i])}

\* The metadata that an update changes together with the records, told by whether
\* it changed; an update of other metadata alone changes nothing to be told here.
UpdatedMeta(recs, next, m) == IF next = recs THEN m ELSE ~m
=============================================================================
