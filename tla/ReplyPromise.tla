---------------------------- MODULE ReplyPromise ----------------------------
(***************************************************************************)
(* What the automatic-reply worker promises for each message, whatever     *)
(* crashes, lost results, retries and human interventions happen:          *)
(*   - at most one reply ever appears in the group;                        *)
(*   - "sent" is only said of a message whose reply appeared;              *)
(*   - a message is declined (ignored, recalled or previewed) only if no   *)
(*     request for it was ever made; after a request it ends sent or with  *)
(*     a human;                                                            *)
(*   - no verdict is taken back.                                           *)
(***************************************************************************)
EXTENDS Naturals

CONSTANT Msg

VARIABLES
  outcome,  \* the verdict on each message
  replies   \* replies that appeared in the group

Outcome == {"open", "attempted", "sent", "declined", "manual"}

promiseVars == <<outcome, replies>>

Init == outcome = [m \in Msg |-> "open"] /\ replies = [m \in Msg |-> 0]

Become(m, from, to) ==
  /\ outcome[m] \in from
  /\ outcome' = [outcome EXCEPT ![m] = to]
  /\ UNCHANGED replies

Attempt(m) == Become(m, {"open"}, "attempted")

Confirm(m) == replies[m] = 1 /\ Become(m, {"attempted"}, "sent")

\* A late request may still be delivered after a human took over.
Deliver(m) ==
  /\ outcome[m] \in {"attempted", "manual"} /\ replies[m] = 0
  /\ replies' = [replies EXCEPT ![m] = 1]
  /\ UNCHANGED outcome

\* Re-authorising a group hands over all its open messages at once.
HandOver ==
  \E S \in SUBSET {m \in Msg : outcome[m] \in {"open", "attempted"}} :
    /\ outcome' = [m \in Msg |-> IF m \in S THEN "manual" ELSE outcome[m]]
    /\ UNCHANGED replies

\* A first scan declines all the messages it finds at once.
Decline ==
  \E S \in SUBSET {m \in Msg : outcome[m] = "open"} :
    /\ outcome' = [m \in Msg |-> IF m \in S THEN "declined" ELSE outcome[m]]
    /\ UNCHANGED replies

Next ==
  \/ \E m \in Msg : Attempt(m) \/ Confirm(m) \/ Deliver(m)
  \/ HandOver \/ Decline

Spec == Init /\ [][Next]_promiseVars
=============================================================================
