------------------------------- MODULE Outbox -------------------------------
(***************************************************************************)
(* The reply records of the outbox and the rules every writer of the state *)
(* document obeys: the legal status changes, the lease, the hourly         *)
(* reservation and the retention of old records (src/main/core/worker.ts,  *)
(* lines 896 to 961).                                                      *)
(*                                                                         *)
(* Time is counted in ticks.  A record keeps the age of its last update    *)
(* and what is left of its lease instead of two absolute timestamps; ages  *)
(* saturate at Window, beyond which no rule distinguishes them.            *)
(***************************************************************************)
EXTENDS Naturals, FiniteSets

CONSTANTS
  Msg,         \* the messages that may reach the allowlisted groups
  Window,      \* ticks during which the platform remembers an idempotency key
  Lease,       \* ticks a sending record is protected from a second attempt
  Hour,        \* ticks of the rate-limit window
  Retention    \* terminal records kept (TERMINAL_REPLY_RETENTION)

ASSUME OutboxAssumption ==
  /\ IsFiniteSet(Msg)
  /\ Window \in Nat /\ Lease \in Nat /\ Hour \in Nat /\ Retention \in Nat

Unfinished == {"pending", "sending"}

Terminal == {"sent", "ignored", "needs_manual", "recalled", "dry_run", "failed"}

Status == Unfinished \cup Terminal

\* A message without a record has the record Absent.
Absent == [status |-> "absent", attempts |-> 0, lease |-> 0, since |-> 0]

Record == [status : Status \cup {"absent"}, attempts : Nat, lease : 0..Lease,
           since : 0..Window]

Older(n) == IF n < Window THEN n + 1 ELSE n

\* createReplyRecord
NewRecord == [status |-> "pending", attempts |-> 0, lease |-> 0, since |-> 0]

\* Any record may be written over.
UncheckedTransition(from, to) == from \in Status

\* assertTransition: a terminal status is final, "sent" is reached from
\* "sending" alone, and no record goes back to "pending".
AllowedTransition(from, to) ==
  \/ from \in Status /\ to = from
  \/ from = "pending" /\ to \in Status \ {"sent"}
  \/ from = "sending" /\ to \in Status \ {"pending"}

\* The record setStatus writes: every status but "sending" drops the lease.
WithStatus(r, s) ==
  [status |-> s, attempts |-> r.attempts,
   lease |-> IF s = "sending" THEN r.lease ELSE 0, since |-> 0]

\* The lease counts the tick it starts in.
ClaimedLonger(r) ==
  [status |-> "sending", attempts |-> r.attempts + 1, lease |-> Lease + 1, since |-> 0]

\* The record of a new attempt: the lease starts and the attempt is counted.
Claimed(r) ==
  [status |-> "sending", attempts |-> r.attempts + 1, lease |-> Lease, since |-> 0]

\* A second attempt may start although the previous one holds the lease.
LeaseIgnored(r) == TRUE

LeaseExpired(r) == r.lease = 0

\* Uncertain sends do not count against the hourly limit.
ReservesSentOnly(r) == r.status = "sent" /\ r.since <= Hour

\* reservesHourlyReplyCapacity
Reserves(r) == r.status \in {"sent", "sending"} /\ r.since <= Hour

\* countReservedInLastHour
ReservedBesides(recs, m) == Cardinality({n \in Msg \ {m} : Reserves(recs[n])})

-----------------------------------------------------------------------------
(* trimReplies: unfinished records and the sends of the last hour stay; of  *)
(* the other terminal records the newest fill what the protected terminal  *)
(* ones leave of Retention.                                                *)

ProtectedTerminal(recs) ==
  {m \in Msg : recs[m].status \in Terminal /\ Reserves(recs[m])}

\* Only the sends of the last hour are protected from eviction.
EvictableUnlessSent(recs) ==
  {m \in Msg : recs[m].status # "absent" /\ ~(recs[m].status = "sent" /\ Reserves(recs[m]))}

Evictable(recs) ==
  {m \in Msg : recs[m].status \in Terminal /\ ~Reserves(recs[m])}

Capacity(recs) ==
  LET used == Cardinality(ProtectedTerminal(recs))
  IN IF used < Retention THEN Retention - used ELSE 0

Without(recs, evicted) == [m \in Msg |-> IF m \in evicted THEN Absent ELSE recs[m]]

\* The sets of records one trim may drop: records of the same tick are
\* ordered by timestamps the model does not keep.
EvictionSets(recs) ==
  {S \in SUBSET Evictable(recs) :
     /\ Cardinality(Evictable(recs) \ S) <= Capacity(recs)
     /\ S # {} => Cardinality(Evictable(recs) \ S) = Capacity(recs)
     /\ \A m \in S, n \in Evictable(recs) \ S : recs[n].since <= recs[m].since}

Trimmed(recs) == {Without(recs, S) : S \in EvictionSets(recs)}

\* One tick of the clock, as a record sees it.
AgedRecord(r) ==
  [status |-> r.status, attempts |-> r.attempts,
   lease |-> IF r.lease > 0 THEN r.lease - 1 ELSE 0,
   since |-> IF r.status = "absent" THEN 0 ELSE Older(r.since)]
=============================================================================
