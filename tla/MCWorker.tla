------------------------------ MODULE MCWorker ------------------------------
(* Finite instances of Worker for TLC. *)
EXTENDS Worker, TLC

CONSTANTS m1, m2, m3, g1, g2, a1, alice, bob

OneGroup == [m \in Msg |-> g1]

OneSender == [m \in Msg |-> alice]

\* m3 is posted by somebody else.
TwoSenders == [m \in Msg |-> IF m = m3 THEN bob ELSE alice]

\* Polls look back as long as a message stays answerable.
Setting(groups, dry, limit) ==
  [groups |-> groups, dry |-> dry, limit |-> limit, enabled |-> TRUE, mark |-> TRUE,
   lookback |-> FollowUp, followUp |-> FollowUp]

\* One group, live replies, one reply an hour.
Live == {Setting({g1}, FALSE, 1)}

\* A poll looks back a single tick.
ShortLookback == {[Setting({g1}, FALSE, 1) EXCEPT !.lookback = 1]}

\* Two replies an hour, so that a follow-up may be answered too.
Talking == {Setting({g1}, FALSE, 2)}

\* As above, without the marking first scan.
Unmarked == {[Setting({g1}, FALSE, 1) EXCEPT !.mark = FALSE]}

\* Two groups, all messages in g1: both live, only g2 and in preview, all off.
Switching ==
  {Setting({g1, g2}, FALSE, 1), Setting({g2}, TRUE, 1),
   [Setting({}, FALSE, 1) EXCEPT !.enabled = FALSE]}

\* g1 is withdrawn and authorised again.
Reauthorised == {Setting({g1, g2}, FALSE, 1), Setting({g2}, FALSE, 1)}

Messages == Permutations(Msg)
=============================================================================
