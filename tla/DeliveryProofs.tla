--------------------------- MODULE DeliveryProofs ---------------------------
(***************************************************************************)
(* The requests of the worker, for every number of messages, groups and    *)
(* faults.  A message is answered at most once (AtMostOnce); every request *)
(* has passed the checks of its text and author (OnlyScreenedSent) and is  *)
(* allowed by the persisted and the in-memory settings (BothSettingsAllow);*)
(* and two requests for one message are never outstanding together         *)
(* (AttemptsApart).                                                        *)
(***************************************************************************)
EXTENDS WorkerProofs

-----------------------------------------------------------------------------
(* The platform's steps.                                                    *)

(* A posted message stays posted. *)
LEMMA PostedGrows ==
  ASSUME rank' = rank \/ \E m \in Msg : Post(m), TypeOK
  PROVE  Posted \subseteq Posted'
<1>1. CASE rank' = rank
  BY <1>1 DEF Posted
<1>2. ASSUME NEW m \in Msg, Post(m)
      PROVE  Posted \subseteq Posted'
  BY <1>2 DEF Post, Posted, TypeOK, PlatformTypeOK
<1> QED
  BY <1>1, <1>2

LEMMA PostDelivery ==
  ASSUME TypeOK, DeliveryInv, NEW m \in Msg, Post(m)
  PROVE  DeliveryInv'
<1>1. Posted \subseteq Posted'
  BY PostedGrows
<1>2. UNCHANGED <<age, wire, accepted, delivered, recs, pc, scope, fetched, todo, cur, busy>>
  BY DEF Post, storeVars, runVars, jobVars
<1>3. ListsPosted' /\ RecordsPosted'
  BY <1>1, <1>2 DEF DeliveryInv, ListsPosted, RecordsPosted
<1>4. JobOnTime' /\ RequestsOnTime' /\ KeysRemembered'
  BY <1>1, <1>2 DEF DeliveryInv, JobOnTime, RequestsOnTime, KeysRemembered
<1> QED
  BY <1>3, <1>4 DEF DeliveryInv

(***************************************************************************)
(* The heart of the argument: a request that arrives for a message already *)
(* answered finds its key remembered.                                      *)
(***************************************************************************)
LEMMA KeyStillRemembered ==
  ASSUME TypeOK, DeliveryInv, NEW w \in wire, delivered[w.msg] = 1
  PROVE  Remembered(w.uuid)
<1>1. w \in Request /\ w.msg \in Msg
  BY DEF TypeOK, PlatformTypeOK, Request
<1>2. PICK a \in accepted : a.uuid = w.msg
  BY <1>1 DEF DeliveryInv, KeysRemembered
<1>3. a.age \in 0..Window /\ a.age <= age[w.msg]
  BY <1>2 DEF TypeOK, PlatformTypeOK, DeliveryInv, KeysRemembered
<1>4. w.age \in Nat /\ w.age <= Flight /\ age[w.msg] <= FollowUp + Stall + w.age
  BY <1>1, OutboxAssumption DEF DeliveryInv, RequestsOnTime, Request
<1>5. age[w.msg] \in Nat
  BY <1>1, OutboxAssumption DEF TypeOK, PlatformTypeOK
<1>6. a.age < Window
  BY <1>3, <1>4, <1>5, WorkerAssumption, OutboxAssumption
<1>7. w.uuid = w.msg
  BY DEF DeliveryInv, RequestsOnTime
<1> QED
  BY <1>2, <1>6, <1>7 DEF Remembered

LEMMA AcceptDelivery ==
  ASSUME TypeOK, DeliveryInv, NEW w \in wire, Accept(w)
  PROVE  DeliveryInv'
<1>1. w \in Request /\ w.msg \in Msg /\ w.msg \in Posted /\ w.uuid = w.msg
  BY DEF TypeOK, PlatformTypeOK, Request, DeliveryInv, RequestsOnTime
<1>2. UNCHANGED <<rank, age, recs, pc, scope, fetched, todo, cur, busy>>
  BY DEF Accept, storeVars, runVars
<1>3. Posted' = Posted
  BY <1>2 DEF Posted
<1>4. ListsPosted' /\ RecordsPosted' /\ JobOnTime'
  BY <1>2, <1>3 DEF DeliveryInv, ListsPosted, RecordsPosted, JobOnTime
<1>5. RequestsOnTime'
  BY <1>2, <1>3 DEF Accept, DeliveryInv, RequestsOnTime
<1>6. KeysRemembered'
  <2>1. CASE Remembered(w.uuid)
    BY <1>2, <1>3, <2>1 DEF Accept, DeliveryInv, KeysRemembered
  <2>2. CASE ~Remembered(w.uuid)
    <3>1. delivered[w.msg] \in Nat /\ delivered[w.msg] <= 1 /\ delivered[w.msg] # 1
      BY <1>1, <2>2, KeyStillRemembered DEF TypeOK, PlatformTypeOK, DeliveryInv, KeysRemembered
    <3>2. delivered' = [delivered EXCEPT ![w.msg] = 1]
      BY <2>2, <3>1 DEF Accept
    <3>3. accepted' = accepted \cup {[uuid |-> w.msg, age |-> 0]}
      BY <1>1, <2>2 DEF Accept
    <3>4. age[w.msg] \in Nat
      BY <1>1, OutboxAssumption DEF TypeOK, PlatformTypeOK
    <3>5. \A a \in accepted' : a.uuid \in Posted /\ a.age <= age[a.uuid]
      BY <1>1, <3>3, <3>4 DEF DeliveryInv, KeysRemembered
    <3>6. ASSUME NEW m \in Msg
          PROVE  delivered'[m] <= 1 /\ (delivered'[m] = 1 => \E a \in accepted' : a.uuid = m)
      <4>1. CASE m = w.msg
        <5>1. delivered'[m] = 1
          BY <1>1, <3>2, <4>1 DEF TypeOK, PlatformTypeOK
        <5>2. [uuid |-> w.msg, age |-> 0].uuid = m
          BY <4>1
        <5>3. \E a \in accepted' : a.uuid = m
          BY <3>3, <5>2
        <5>4. delivered'[m] <= 1
          BY <5>1
        <5> QED
          BY <5>3, <5>4
      <4>2. CASE m # w.msg
        BY <1>1, <3>2, <3>3, <4>2 DEF TypeOK, PlatformTypeOK, DeliveryInv, KeysRemembered
      <4> QED
        BY <4>1, <4>2
    <3> QED
      BY <1>2, <1>3, <3>5, <3>6 DEF KeysRemembered
  <2> QED
    BY <2>1, <2>2
<1> QED
  BY <1>4, <1>5, <1>6 DEF DeliveryInv

LEMMA TickDelivery ==
  ASSUME TypeOK, DeliveryInv, Tick
  PROVE  DeliveryInv'
<1>1. UNCHANGED <<rank, delivered, pc, scope, fetched, todo, cur>> /\ Posted' = Posted
  BY DEF Tick, runVars, Posted
<1>2. \A m \in Posted : m \in Msg /\ age'[m] = Older(age[m])
  BY DEF Tick, Posted
<1>3. \A m \in Msg : age[m] \in 0..Window
  BY DEF TypeOK, PlatformTypeOK
<1>4. \A m, n \in 0..Window : m <= n => Older(m) <= Older(n)
  BY OutboxAssumption DEF Older
<1>5. \A n \in 0..Window : Older(n) <= n + 1
  BY OutboxAssumption DEF Older
<1>6. ListsPosted' /\ RecordsPosted'
  <2>1. \A m \in Msg : recs'[m].status = recs[m].status
    BY DEF Tick, AgedRecord
  <2> QED
    BY <1>1, <2>1 DEF DeliveryInv, ListsPosted, RecordsPosted
<1>7. JobOnTime'
  <2>1. CASE pc \in JobSteps
    <3>1. cur.msg \in Posted
      BY <2>1 DEF DeliveryInv, ListsPosted
    <3>2. busy \in Nat /\ busy < Stall /\ busy' = busy + 1
      BY <2>1 DEF Tick, TypeOK, JobTypeOK
    <3>3. age[cur.msg] \in Nat /\ age[cur.msg] <= FollowUp + busy
      BY <1>2, <1>3, <2>1, <3>1, OutboxAssumption DEF DeliveryInv, JobOnTime
    <3>4. age'[cur.msg] \in Nat /\ age'[cur.msg] <= age[cur.msg] + 1
      BY <1>2, <1>3, <3>1, OutboxAssumption DEF Older
    <3>5. busy' <= Stall /\ age'[cur.msg] <= FollowUp + busy'
      BY <3>2, <3>3, <3>4, WorkerAssumption
    <3> QED
      BY <1>1, <2>1, <3>5 DEF JobOnTime
  <2>2. CASE pc \notin JobSteps
    BY <1>1, <2>2 DEF Tick, DeliveryInv, JobOnTime
  <2> QED
    BY <2>1, <2>2
<1>8. RequestsOnTime'
  <2>1. ASSUME NEW w \in wire
        PROVE  LET v == [w EXCEPT !.age = Older(w.age)]
               IN /\ v.msg \in Posted /\ v.uuid = v.msg /\ v.age <= Flight
                  /\ age'[v.msg] <= FollowUp + Stall + v.age
    <3>1. w \in Request /\ w.age \in Nat /\ w.age < Flight /\ w.msg \in Posted /\ w.uuid = w.msg
          /\ age[w.msg] <= FollowUp + Stall + w.age
      BY OutboxAssumption DEF TypeOK, PlatformTypeOK, Request, Tick, DeliveryInv, RequestsOnTime
    <3>2. Older(w.age) = w.age + 1
      BY <3>1, WorkerAssumption, OutboxAssumption DEF Older
    <3>3. age'[w.msg] <= FollowUp + Stall + (w.age + 1)
      BY <1>2, <1>3, <1>5, <3>1, WorkerAssumption, OutboxAssumption DEF Older
    <3> QED
      BY <3>1, <3>2, <3>3, WorkerAssumption DEF Request
  <2> QED
    BY <1>1, <2>1 DEF Tick, RequestsOnTime
<1>9. KeysRemembered'
  <2>1. ASSUME NEW a \in accepted
        PROVE  LET b == [a EXCEPT !.age = Older(a.age)]
               IN b.uuid = a.uuid /\ b.uuid \in Posted /\ b.age <= age'[b.uuid]
    <3>1. a \in [uuid : Msg, age : 0..Window] /\ a.uuid \in Posted /\ a.age <= age[a.uuid]
      BY DEF TypeOK, PlatformTypeOK, DeliveryInv, KeysRemembered
    <3> QED
      BY <1>2, <1>3, <1>4, <3>1
  <2>2. \A m \in Msg : (\E a \in accepted : a.uuid = m) => \E b \in accepted' : b.uuid = m
    BY <2>1 DEF Tick
  <2> QED
    BY <1>1, <2>1, <2>2 DEF Tick, DeliveryInv, KeysRemembered
<1> QED
  BY <1>6, <1>7, <1>8, <1>9 DEF DeliveryInv

-----------------------------------------------------------------------------
(* The steps that leave the platform alone.                                 *)

(* What a failing database operation leaves behind. *)
LEMMA StoreFailsMoves ==
  ASSUME StoreFails
  PROVE  /\ UNCHANGED <<rank, age, recalled, wire, accepted, delivered>>
         /\ UNCHANGED <<stored, current, save, answer>>
         /\ \/ recs' = recs /\ LeaveGroup
            \/ /\ pc = "guard" /\ GuardVerdict = "needs_manual"
               /\ \E s \in {"sending", "needs_manual"} : Finish(cur.msg, s)
BY DEF StoreFails, RetryLater, platformVars, settingVars

(* A follow-up window is looked at while no record is in processing; what it *)
(* puts on the list was posted.                                              *)
LEMMA ServeWindowMoves ==
  ASSUME NEW m \in windows, ServeWindow(m)
  PROVE  /\ UNCHANGED <<rank, age, recalled, wire, accepted, delivered, recs>>
         /\ UNCHANGED <<stored, current, save, answer>>
         /\ pc = "next" /\ phase = "followups" /\ todo = {}
         /\ \/ LeaveGroup
            \/ /\ pc' = "next" /\ phase' = "followups"
               /\ UNCHANGED <<scope, fetched, group, jobVars>>
               /\ \A i \in todo' : i.msg \in Posted
<1>1. \A n \in HumanAfter(m) : n \in Posted
  BY DEF HumanAfter, PageAfter
<1> QED
  BY <1>1 DEF ServeWindow, platformVars, settingVars

(* The call ends in a status, whether the reply is confirmed or not. *)
LEMMA CallMoves ==
  ASSUME CallSucceeds \/ CallFails
  PROVE  /\ UNCHANGED <<rank, age, recalled, wire, accepted, delivered>>
         /\ UNCHANGED <<stored, current, save, answer>>
         /\ pc = "call" /\ \E s \in {"sent", "sending", "needs_manual"} : Finish(cur.msg, s)
BY DEF CallSucceeds, CallFails, RetryLater, Finish, Outside, platformVars, settingVars

(* Such a step must only keep its lists, records and clock in order. *)
LEMMA QuietDelivery ==
  ASSUME DeliveryInv, UNCHANGED platformVars, ListsPosted', JobOnTime',
         \A m \in Msg : recs'[m].status # "absent" =>
                          recs[m].status # "absent" \/ m \in Posted
  PROVE  DeliveryInv'
<1>1. Posted' = Posted /\ UNCHANGED <<age, wire, accepted, delivered>>
  BY DEF platformVars, Posted
<1>2. RecordsPosted'
  BY <1>1 DEF DeliveryInv, RecordsPosted
<1>3. RequestsOnTime' /\ KeysRemembered'
  BY <1>1 DEF DeliveryInv, RequestsOnTime, KeysRemembered
<1> QED
  BY <1>2, <1>3 DEF DeliveryInv

(* Nothing the worker does outside the processing of a record takes time. *)
LEMMA IdleOnTime ==
  ASSUME NoJob, pc' \notin JobSteps
  PROVE  JobOnTime'
BY DEF NoJob, JobOnTime

LEMMA LeaveGroupDelivery ==
  ASSUME DeliveryInv, LeaveGroup, UNCHANGED platformVars
  PROVE  ListsPosted' /\ JobOnTime'
<1>1. Posted' = Posted
  BY DEF platformVars, Posted
<1>2. pc' \notin JobSteps \cup {"entry"}
  BY DEF LeaveGroup, JobSteps
<1>3. ListsPosted'
  BY <1>1, <1>2 DEF LeaveGroup, DeliveryInv, ListsPosted
<1> QED
  BY <1>2, <1>3, IdleOnTime DEF LeaveGroup

LEMMA BackToLoopDelivery ==
  ASSUME DeliveryInv, BackToLoop, UNCHANGED platformVars
  PROVE  ListsPosted' /\ JobOnTime'
<1>1. Posted' = Posted
  BY DEF platformVars, Posted
<1>2. pc' \notin JobSteps \cup {"entry"}
  BY DEF BackToLoop, JobSteps
<1>3. ListsPosted'
  BY <1>1, <1>2 DEF BackToLoop, runVars, DeliveryInv, ListsPosted
<1> QED
  BY <1>2, <1>3, IdleOnTime DEF BackToLoop

(* A trim invents no record. *)
LEMMA TrimInventsNone ==
  ASSUME NEW x, NEW t \in Trimmed(x)
  PROVE  \A m \in Msg : t[m].status # "absent" => x[m].status # "absent"
<1>1. Absent.status = "absent"
  BY DEF Absent
<1> QED
  BY <1>1, TrimKeepsOrDrops

LEMMA FinishDelivery ==
  ASSUME TypeOK, DeliveryInv, NEW m \in Msg, NEW s \in Status, Finish(m, s),
         UNCHANGED platformVars
  PROVE  DeliveryInv'
<1>1. CASE AllowedTransition(recs[m].status, s)
  <2> DEFINE x == [recs EXCEPT ![m] = WithStatus(recs[m], s)]
  <2>1. recs' \in Trimmed(x) /\ BackToLoop
    BY <1>1 DEF Finish
  <2>2. recs[m].status # "absent"
    BY <1>1 DEF AllowedTransition, Status, Unfinished, Terminal
  <2>3. \A n \in Msg : x[n].status # "absent" => recs[n].status # "absent"
    BY <2>2 DEF TypeOK, StoreTypeOK
  <2>4. \A n \in Msg : recs'[n].status # "absent" => recs[n].status # "absent"
    BY <2>1, <2>3, TrimInventsNone
  <2> QED
    BY <2>1, <2>4, BackToLoopDelivery, QuietDelivery
<1>2. CASE ~AllowedTransition(recs[m].status, s)
  <2>1. recs' = recs /\ LeaveGroup
    BY <1>2 DEF Finish
  <2> QED
    BY <2>1, LeaveGroupDelivery, QuietDelivery
<1> QED
  BY <1>1, <1>2

LEMMA DecideDelivery ==
  ASSUME TypeOK, DeliveryInv, UNCHANGED platformVars, pc \in JobSteps,
         NEW v \in {"proceed", "needs_manual", "recalled", "ignored", "dry_run"},
         NEW step \in JobSteps, Decide(v, step)
  PROVE  DeliveryInv'
<1>1. CASE v = "proceed"
  <2>1. pc' = step /\ UNCHANGED <<recs, scope, fetched, todo, cur, busy, rank, age>>
    BY <1>1 DEF Decide, runVars, jobVars, platformVars
  <2>2. Posted' = Posted
    BY <2>1 DEF Posted
  <2>3. ListsPosted' /\ JobOnTime'
    BY <2>1, <2>2 DEF DeliveryInv, ListsPosted, JobOnTime
  <2> QED
    BY <2>1, <2>3, QuietDelivery
<1>2. CASE v # "proceed"
  <2>1. Finish(cur.msg, Settled(v)) /\ Settled(v) \in Status
    BY <1>2 DEF Decide, Settled, Status, Terminal
  <2> QED
    BY <2>1, JobTyped, FinishDelivery
<1> QED
  BY <1>1, <1>2

LEMMA SettingsDelivery ==
  ASSUME TypeOK, DeliveryInv, Settings
  PROVE  DeliveryInv'
<1>1. UNCHANGED platformVars /\ UNCHANGED <<pc, scope, fetched, todo, cur, busy>>
  BY DEF Settings, BeginSave, PublishSave, PersistSave, FailSave, StopSave, ChangeAnswer,
     runVars, jobVars
<1>2. UNCHANGED <<rank, age>> /\ Posted' = Posted
  BY <1>1 DEF platformVars, Posted
<1>3. ListsPosted' /\ JobOnTime'
  BY <1>1, <1>2 DEF DeliveryInv, ListsPosted, JobOnTime
<1>4. ASSUME NEW m \in Msg
      PROVE  recs'[m].status # "absent" => recs[m].status # "absent"
  <2>1. CASE recs' = recs
    BY <2>1
  <2>2. CASE \E c \in Configs : BeginSave(c)
    BY <2>2 DEF BeginSave, HandOver, Unfinished
  <2> QED
    BY <2>1, <2>2 DEF Settings, PublishSave, PersistSave, FailSave, StopSave, ChangeAnswer,
       storeVars
<1> QED
  BY <1>1, <1>3, <1>4, QuietDelivery

LEMMA RunDelivery ==
  ASSUME TypeOK, DeliveryInv, Run
  PROVE  DeliveryInv'
<1>1. UNCHANGED platformVars /\ UNCHANGED <<rank, age>> /\ Posted' = Posted
  BY DEF Run, StartRun, FetchMentions, FetchFails, Scan, MarkInitialized, TakeSnapshot,
     NextPhase, EndRun, platformVars, Posted
<1>2. pc \notin JobSteps \cup {"entry"}
  BY DEF Run, StartRun, FetchMentions, FetchFails, Scan, MarkInitialized, TakeSnapshot,
     NextPhase, EndRun, JobSteps
<1>3. CASE LeaveGroup /\ recs' = recs
  BY <1>1, <1>3, LeaveGroupDelivery, QuietDelivery
<1>4. CASE StartRun
  <2>1. ListsPosted' /\ JobOnTime'
    BY <1>1, <1>4 DEF StartRun, DeliveryInv, ListsPosted, JobOnTime, jobVars, JobSteps
  <2> QED
    BY <1>1, <1>4, <2>1, QuietDelivery DEF StartRun, storeVars
<1>5. ASSUME NEW g \in Group, FetchMentions(g)
      PROVE  DeliveryInv'
  <2>1. \A i \in fetched' : i.msg \in scope
    BY <1>5 DEF FetchMentions
  <2>2. ListsPosted' /\ JobOnTime'
    BY <1>1, <1>5, <2>1 DEF FetchMentions, DeliveryInv, ListsPosted, JobOnTime, jobVars, JobSteps
  <2> QED
    BY <1>1, <1>5, <2>2, QuietDelivery DEF FetchMentions, storeVars
<1>6. ASSUME NEW g \in Group, FetchFails(g)
      PROVE  DeliveryInv'
  <2>1. ListsPosted' /\ JobOnTime'
    BY <1>1, <1>6 DEF FetchFails, DeliveryInv, ListsPosted, JobOnTime, jobVars, JobSteps
  <2> QED
    BY <1>1, <1>6, <2>1, QuietDelivery DEF FetchFails, storeVars
<1>7. CASE Scan
  <2>1. ListsPosted' /\ JobOnTime'
    BY <1>1, <1>7 DEF Scan, DeliveryInv, ListsPosted, JobOnTime, runVars, jobVars, JobSteps
  <2> DEFINE x == [m \in Msg |-> IF \E i \in fetched : i.msg = m
                                THEN MarkedIgnored(recs[m]) ELSE recs[m]]
  <2>2. ASSUME NEW m \in Msg
        PROVE  x[m].status # "absent" => recs[m].status # "absent" \/ m \in Posted
    BY DEF DeliveryInv, ListsPosted
  <2>3. recs' = recs \/ recs' \in Trimmed(x)
    BY <1>7 DEF Scan
  <2>4. \A m \in Msg : recs'[m].status # "absent" =>
                         recs[m].status # "absent" \/ m \in Posted
    BY <2>2, <2>3, TrimInventsNone
  <2> QED
    BY <1>1, <2>1, <2>4, QuietDelivery
<1>8. CASE MarkInitialized
  <2>1. CASE cfg.mark
    BY <1>3, <1>8, <2>1 DEF MarkInitialized
  <2>2. CASE ~cfg.mark
    <3>1. ListsPosted' /\ JobOnTime'
      BY <1>1, <1>8, <2>2 DEF MarkInitialized, DeliveryInv, ListsPosted, JobOnTime, runVars,
         jobVars, JobSteps
    <3> QED
      BY <1>1, <1>8, <3>1, QuietDelivery DEF MarkInitialized
  <2> QED
    BY <2>1, <2>2
<1>9. CASE TakeSnapshot
  <2>1. \A i \in todo' : i.msg \in Posted
    BY <1>9 DEF TakeSnapshot, Recoverable, DeliveryInv, RecordsPosted
  <2>2. ListsPosted' /\ JobOnTime'
    BY <1>1, <1>9, <2>1 DEF TakeSnapshot, DeliveryInv, ListsPosted, JobOnTime, jobVars, JobSteps
  <2> QED
    BY <1>1, <1>9, <2>2, QuietDelivery DEF TakeSnapshot, storeVars
<1>10. CASE NextPhase
  <2>1. CASE phase = "recover"
    <3>1. ListsPosted' /\ JobOnTime'
      BY <1>1, <1>10, <2>1 DEF NextPhase, DeliveryInv, ListsPosted, JobOnTime, jobVars, JobSteps
    <3> QED
      BY <1>1, <1>10, <3>1, QuietDelivery DEF NextPhase, storeVars
  <2>2. CASE phase = "mentions"
    <3>1. ListsPosted' /\ JobOnTime'
      BY <1>1, <1>10, <2>2 DEF NextPhase, DeliveryInv, ListsPosted, JobOnTime, jobVars, JobSteps
    <3> QED
      BY <1>1, <1>10, <3>1, QuietDelivery DEF NextPhase, storeVars
  <2>3. CASE phase \notin {"recover", "mentions"}
    BY <1>3, <1>10, <2>3 DEF NextPhase, storeVars
  <2> QED
    BY <2>1, <2>2, <2>3
<1>11. CASE EndRun
  <2>1. ListsPosted' /\ JobOnTime'
    BY <1>1, <1>11 DEF EndRun, DeliveryInv, ListsPosted, JobOnTime, jobVars, JobSteps
  <2> QED
    BY <1>1, <1>11, <2>1, QuietDelivery DEF EndRun, storeVars
<1> QED
  BY <1>4, <1>5, <1>6, <1>7, <1>8, <1>9, <1>10, <1>11 DEF Run

-----------------------------------------------------------------------------
(* The processing of a record.                                              *)

LEMMA EntryDelivery ==
  ASSUME TypeOK, DeliveryInv, Entry
  PROVE  DeliveryInv'
<1>1. pc = "entry" /\ Decide(EntryVerdict, "history") /\ UNCHANGED platformVars
  BY DEF Entry, Outside
<1>2. cur.msg \in Msg /\ cur.msg \in Posted
  BY <1>1, JobTyped DEF DeliveryInv, ListsPosted
<1>3. CASE EntryVerdict = "proceed"
  <2>1. pc' = "history" /\ UNCHANGED <<recs, scope, fetched, todo, cur, busy, rank, age>>
    BY <1>1, <1>3 DEF Decide, runVars, jobVars, platformVars
  <2>2. age[cur.msg] <= cfg.followUp /\ cfg.followUp \in Nat /\ cfg.followUp <= FollowUp
    <3>1. cfg \in Config
      BY <1>1, WorkerAssumption DEF TypeOK, RunTypeOK
    <3> QED
      BY <1>3, <3>1, WorkerAssumption DEF EntryVerdict, FreshEnough, Config
  <2>3. busy = 0
    BY <1>1 DEF DeliveryInv, JobOnTime, JobSteps
  <2>4. age[cur.msg] \in Nat
    BY <1>2, OutboxAssumption DEF TypeOK, PlatformTypeOK
  <2>5. busy <= Stall /\ age[cur.msg] <= FollowUp + busy
    BY <2>2, <2>3, <2>4, WorkerAssumption
  <2>6. pc' \in JobSteps /\ JobOnTime'
    BY <2>1, <2>5 DEF JobOnTime, JobSteps
  <2>7. Posted' = Posted
    BY <2>1 DEF Posted
  <2>8. ListsPosted'
    BY <1>2, <2>1, <2>7 DEF DeliveryInv, ListsPosted
  <2> QED
    BY <1>1, <2>1, <2>6, <2>8, QuietDelivery
<1>4. CASE EntryVerdict # "proceed"
  <2>1. EntryVerdict \in {"recalled", "ignored", "needs_manual"}
    BY <1>4 DEF EntryVerdict
  <2>2. Finish(cur.msg, Settled(EntryVerdict)) /\ Settled(EntryVerdict) \in Status
    BY <1>1, <1>4, <2>1 DEF Decide, Settled, Status, Terminal
  <2> QED
    BY <1>1, <1>2, <2>2, FinishDelivery
<1> QED
  BY <1>3, <1>4

(* A record is taken into processing: its message was posted and its time   *)
(* budget is untouched.                                                     *)
LEMMA TakeDelivery ==
  ASSUME TypeOK, DeliveryInv, NEW i \in todo,
         TakeRecoverable(i) \/ TakeOverdue(i) \/ TakeMention(i)
  PROVE  DeliveryInv'
<1>1. UNCHANGED platformVars /\ UNCHANGED <<rank, age>> /\ Posted' = Posted
  BY DEF TakeRecoverable, TakeOverdue, TakeMention, Outside, platformVars, Posted
<1>2. pc = "next" /\ i.msg \in Posted /\ i \in Item /\ i.msg \in Msg
  BY DEF TakeRecoverable, TakeOverdue, TakeMention, DeliveryInv, ListsPosted, TypeOK,
     RunTypeOK, Item
<1>3. CASE TakeRecoverable(i)
  <2>1. ListsPosted' /\ JobOnTime'
    BY <1>1, <1>2, <1>3 DEF TakeRecoverable, DeliveryInv, ListsPosted, JobOnTime, JobSteps
  <2> QED
    BY <1>1, <1>3, <2>1, QuietDelivery DEF TakeRecoverable
<1>4. CASE TakeOverdue(i)
  <2>1. CASE AllowedTransition(recs[i.msg].status, "needs_manual")
    <3> DEFINE x == [recs EXCEPT ![i.msg] = WithStatus(recs[i.msg], "needs_manual")]
    <3>1. /\ recs' \in Trimmed(x) /\ todo' \subseteq todo
          /\ UNCHANGED <<pc, scope, fetched, cur, busy>>
      BY <1>4, <2>1 DEF TakeOverdue, jobVars
    <3>2. ListsPosted' /\ JobOnTime'
      BY <1>1, <1>2, <3>1 DEF DeliveryInv, ListsPosted, JobOnTime, JobSteps
    <3>3. \A n \in Msg : x[n].status # "absent" => recs[n].status # "absent" \/ n \in Posted
      BY <1>2 DEF TypeOK, StoreTypeOK
    <3>4. \A n \in Msg : recs'[n].status # "absent" => recs[n].status # "absent" \/ n \in Posted
      BY <3>1, <3>3, TrimInventsNone
    <3> QED
      BY <1>1, <3>2, <3>4, QuietDelivery
  <2>2. CASE ~AllowedTransition(recs[i.msg].status, "needs_manual")
    BY <1>1, <1>4, <2>2, LeaveGroupDelivery, QuietDelivery DEF TakeOverdue
  <2> QED
    BY <2>1, <2>2
<1>5. CASE TakeMention(i)
  <2> DEFINE x == [recs EXCEPT ![i.msg] = NewRecord]
  <2>1. todo' \subseteq todo /\ UNCHANGED <<scope, fetched, busy>>
    BY <1>5 DEF TakeMention
  <2>2. pc' = "entry" => cur'.msg = i.msg
    BY <1>2, <1>5 DEF TakeMention, Item
  <2>3. pc' \in {"entry", "next"}
    BY <1>2, <1>5 DEF TakeMention
  <2>4. ListsPosted' /\ JobOnTime'
    BY <1>1, <1>2, <2>1, <2>2, <2>3 DEF DeliveryInv, ListsPosted, JobOnTime, JobSteps
  <2>5. recs' = recs \/ recs' \in Trimmed(x)
    BY <1>5 DEF TakeMention
  <2>6. \A n \in Msg : x[n].status # "absent" => recs[n].status # "absent" \/ n \in Posted
    BY <1>2 DEF TypeOK, StoreTypeOK
  <2>7. \A n \in Msg : recs'[n].status # "absent" => recs[n].status # "absent" \/ n \in Posted
    BY <2>5, <2>6, TrimInventsNone
  <2> QED
    BY <1>1, <2>4, <2>7, QuietDelivery
<1> QED
  BY <1>3, <1>4, <1>5

LEMMA ClaimDelivery ==
  ASSUME TypeOK, DeliveryInv, Claim
  PROVE  DeliveryInv'
<1>1. pc = "claim" /\ UNCHANGED platformVars /\ UNCHANGED <<rank, age>> /\ Posted' = Posted
  BY DEF Claim, Outside, platformVars, Posted
<1>2. pc \in JobSteps /\ cur.msg \in Msg
  BY <1>1, JobTyped DEF JobSteps
<1>3. CASE ClaimVerdict = "proceed" /\ AllowedTransition(recs[cur.msg].status, "sending")
  <2> DEFINE x == [recs EXCEPT ![cur.msg] = Claimed(recs[cur.msg])]
  <2>1. recs' \in Trimmed(x) /\ pc' = "guard" /\ UNCHANGED <<scope, fetched, todo, cur, busy>>
    BY <1>3 DEF Claim, runVars
  <2>2. ListsPosted' /\ JobOnTime'
    BY <1>1, <1>2, <2>1 DEF DeliveryInv, ListsPosted, JobOnTime, JobSteps
  <2>3. recs[cur.msg].status # "absent"
    BY <1>3 DEF AllowedTransition, Status, Unfinished, Terminal
  <2>4. \A n \in Msg : x[n].status # "absent" => recs[n].status # "absent"
    BY <2>3 DEF TypeOK, StoreTypeOK
  <2>5. \A n \in Msg : recs'[n].status # "absent" => recs[n].status # "absent"
    BY <2>1, <2>4, TrimInventsNone
  <2> QED
    BY <1>1, <2>2, <2>5, QuietDelivery
<1>4. CASE recs' = recs /\ LeaveGroup
  BY <1>1, <1>4, LeaveGroupDelivery, QuietDelivery
<1>5. CASE ClaimVerdict # "proceed" /\ Finish(cur.msg, Settled(ClaimVerdict))
  <2>1. ClaimVerdict \in {"ignored", "dry_run", "needs_manual"}
    BY <1>5 DEF ClaimVerdict
  <2>2. Settled(ClaimVerdict) \in Status
    BY <2>1 DEF Settled, Status, Terminal
  <2> QED
    BY <1>1, <1>2, <1>5, <2>2, FinishDelivery
<1> QED
  BY <1>3, <1>4, <1>5 DEF Claim

(* The request that leaves is in time for its key, whatever attempt it is. *)
LEMMA GuardDelivery ==
  ASSUME TypeOK, DeliveryInv, Guard
  PROVE  DeliveryInv'
<1>1. pc = "guard" /\ pc \in JobSteps /\ cur.msg \in Msg
  BY JobTyped DEF Guard, JobSteps
<1>2. CASE GuardVerdict = "proceed"
  <2> DEFINE m == cur.msg
             w == [msg |-> m, attempt |-> recs[m].attempts,
                   uuid |-> Uuid(m, recs[m].attempts), age |-> 0]
  <2>1. /\ wire' = wire \cup {w} /\ pc' = "call"
        /\ UNCHANGED <<rank, age, accepted, delivered, recs, scope, fetched, todo, cur, busy>>
    BY <1>2 DEF Guard, runVars
  <2>2. Posted' = Posted
    BY <2>1 DEF Posted
  <2>3. m \in Posted
    BY <1>1 DEF DeliveryInv, ListsPosted
  <2>4. w.msg = m /\ w.uuid = m /\ w.age = 0
    BY DEF Uuid
  <2>5. age[m] \in Nat /\ busy \in Nat /\ busy <= Stall /\ age[m] <= FollowUp + busy
    BY <1>1, OutboxAssumption DEF TypeOK, PlatformTypeOK, JobTypeOK, DeliveryInv, JobOnTime
  <2>6. 0 <= Flight /\ 0 <= Stall /\ age[m] <= FollowUp + Stall + 0
    BY <2>5, WorkerAssumption
  <2>7. w.msg \in Posted /\ w.uuid = w.msg
    BY <2>3, <2>4
  <2>8. w.age <= Flight
    BY <2>4, <2>6
  <2>9. age[w.msg] <= FollowUp + Stall + w.age
    BY <2>4, <2>6
  <2> HIDE DEF w
  <2>10. RequestsOnTime'
    BY <2>1, <2>2, <2>7, <2>8, <2>9 DEF DeliveryInv, RequestsOnTime
  <2>11. ListsPosted' /\ JobOnTime'
    BY <1>1, <2>1, <2>2 DEF DeliveryInv, ListsPosted, JobOnTime, JobSteps
  <2>12. RecordsPosted' /\ KeysRemembered'
    BY <2>1, <2>2 DEF DeliveryInv, RecordsPosted, KeysRemembered
  <2> QED
    BY <2>10, <2>11, <2>12 DEF DeliveryInv
<1>3. CASE GuardVerdict # "proceed"
  <2>1. GuardVerdict \in {"ignored", "dry_run", "needs_manual"}
    BY <1>3 DEF GuardVerdict
  <2>2. Settled(GuardVerdict) \in Status
    BY <2>1 DEF Settled, Status, Terminal
  <2>3. Finish(cur.msg, Settled(GuardVerdict)) /\ UNCHANGED platformVars
    BY <1>3 DEF Guard, platformVars
  <2> QED
    BY <1>1, <2>2, <2>3, FinishDelivery
<1> QED
  BY <1>2, <1>3

LEMMA ProcessDelivery ==
  ASSUME TypeOK, DeliveryInv, Process
  PROVE  DeliveryInv'
<1>1. CASE ReadHistory
  <2>1. PICK v \in HistoryVerdicts : Decide(v, "latest")
    BY <1>1 DEF ReadHistory
  <2>2. v \in {"proceed", "needs_manual", "recalled", "ignored", "dry_run"}
    BY DEF HistoryVerdicts, LookupVerdicts, Composed
  <2>3. pc \in JobSteps /\ "latest" \in JobSteps /\ UNCHANGED platformVars
    BY <1>1 DEF ReadHistory, Outside, JobSteps
  <2> QED
    BY <2>1, <2>2, <2>3, DecideDelivery
<1>2. CASE ReadLatestConfig
  <2>1. PICK v \in {"proceed", "needs_manual", "recalled", "ignored", "dry_run"} :
          Decide(v, "recheck")
    BY <1>2 DEF ReadLatestConfig
  <2>2. pc \in JobSteps /\ "recheck" \in JobSteps /\ UNCHANGED platformVars
    BY <1>2 DEF ReadLatestConfig, Outside, JobSteps
  <2> QED
    BY <2>1, <2>2, DecideDelivery
<1>3. CASE RecheckHistory
  <2>1. PICK v \in LookupVerdicts("proceed") : Decide(v, "claim")
    BY <1>3 DEF RecheckHistory
  <2>2. v \in {"proceed", "needs_manual", "recalled", "ignored", "dry_run"}
    BY DEF LookupVerdicts
  <2>3. pc \in JobSteps /\ "claim" \in JobSteps /\ UNCHANGED platformVars
    BY <1>3 DEF RecheckHistory, Outside, JobSteps
  <2> QED
    BY <2>1, <2>2, <2>3, DecideDelivery
<1>4. ASSUME NEW m \in windows, ServeWindow(m)
      PROVE  DeliveryInv'
  <2>1. UNCHANGED platformVars /\ recs' = recs /\ Posted' = Posted
    BY <1>4, ServeWindowMoves DEF platformVars, Posted
  <2>2. CASE LeaveGroup
    BY <2>1, <2>2, LeaveGroupDelivery, QuietDelivery
  <2>3. CASE ~LeaveGroup
    <3>1. ListsPosted' /\ JobOnTime'
      BY <1>4, <2>1, <2>3, ServeWindowMoves DEF DeliveryInv, ListsPosted, JobOnTime, jobVars,
         JobSteps
    <3> QED
      BY <2>1, <3>1, QuietDelivery
  <2> QED
    BY <2>2, <2>3
<1>5. CASE CallSucceeds \/ CallFails
  <2>1. pc \in JobSteps /\ UNCHANGED platformVars
    BY <1>5, CallMoves DEF JobSteps, platformVars
  <2>2. PICK s \in {"sent", "sending", "needs_manual"} : Finish(cur.msg, s)
    BY <1>5, CallMoves
  <2>3. s \in Status /\ cur.msg \in Msg
    BY <2>1, JobTyped DEF Status, Unfinished, Terminal
  <2> QED
    BY <2>1, <2>2, <2>3, FinishDelivery
<1> QED
  BY <1>1, <1>2, <1>3, <1>4, <1>5, TakeDelivery, EntryDelivery, ClaimDelivery, GuardDelivery
     DEF Process

-----------------------------------------------------------------------------
(* The theorem.                                                             *)

LEMMA PlatformDelivery ==
  ASSUME TypeOK, DeliveryInv, Platform
  PROVE  DeliveryInv'
<1>1. ASSUME NEW m \in Msg, Recall(m)
      PROVE  DeliveryInv'
  <2>1. UNCHANGED <<rank, age, wire, accepted, delivered, recs, pc, scope, fetched, todo,
                    cur, busy>> /\ Posted' = Posted
    BY <1>1 DEF Recall, storeVars, runVars, jobVars, Posted
  <2> QED
    BY <2>1 DEF DeliveryInv, ListsPosted, RecordsPosted, JobOnTime, RequestsOnTime,
       KeysRemembered
<1>2. ASSUME NEW w \in wire, Drop(w)
      PROVE  DeliveryInv'
  <2>1. wire' \subseteq wire /\ Posted' = Posted
        /\ UNCHANGED <<rank, age, accepted, delivered, recs, pc, scope, fetched, todo, cur,
                       busy>>
    BY <1>2 DEF Drop, storeVars, runVars, jobVars, Posted
  <2> QED
    BY <2>1 DEF DeliveryInv, ListsPosted, RecordsPosted, JobOnTime, RequestsOnTime,
       KeysRemembered
<1> QED
  BY <1>1, <1>2, PostDelivery, AcceptDelivery, TickDelivery DEF Platform

LEMMA StoreFailsDelivery ==
  ASSUME TypeOK, DeliveryInv, StoreFails
  PROVE  DeliveryInv'
<1>1. UNCHANGED platformVars
  BY StoreFailsMoves DEF platformVars
<1>2. CASE recs' = recs /\ LeaveGroup
  BY <1>1, <1>2, LeaveGroupDelivery, QuietDelivery
<1>3. ASSUME pc = "guard", NEW s \in {"sending", "needs_manual"}, Finish(cur.msg, s)
      PROVE  DeliveryInv'
  <2>1. cur.msg \in Msg /\ s \in Status
    BY <1>3, JobTyped DEF JobSteps, Status, Unfinished, Terminal
  <2> QED
    BY <1>1, <1>3, <2>1, FinishDelivery
<1> QED
  BY <1>2, <1>3, StoreFailsMoves

LEMMA CrashRestartDelivery ==
  ASSUME TypeOK, DeliveryInv, Crash \/ Restart
  PROVE  DeliveryInv'
<1>1. UNCHANGED platformVars /\ recs' = recs /\ Posted' = Posted /\ UNCHANGED <<rank, age>>
  BY DEF Crash, Restart, storeVars, platformVars, Posted
<1>2. CASE Crash
  <2>1. ListsPosted' /\ JobOnTime'
    BY <1>2 DEF Crash, NoJob, ListsPosted, JobOnTime, JobSteps
  <2> QED
    BY <1>1, <2>1, QuietDelivery
<1>3. CASE Restart
  <2>1. ListsPosted' /\ JobOnTime'
    BY <1>1, <1>3 DEF Restart, runVars, jobVars, DeliveryInv, ListsPosted, JobOnTime, JobSteps
  <2> QED
    BY <1>1, <2>1, QuietDelivery
<1> QED
  BY <1>2, <1>3

LEMMA DeliveryInit == Init => DeliveryInv
BY DEF Init, DeliveryInv, ListsPosted, RecordsPosted, JobOnTime, RequestsOnTime,
   KeysRemembered, Absent, JobSteps

LEMMA DeliveryStep == TypeOK /\ DeliveryInv /\ [Next]_vars => DeliveryInv'
<1> SUFFICES ASSUME TypeOK, DeliveryInv, [Next]_vars PROVE DeliveryInv'
  OBVIOUS
<1>1. CASE UNCHANGED vars
  <2>1. UNCHANGED <<rank, age, wire, accepted, delivered, recs, pc, scope, fetched, todo,
                    cur, busy>> /\ Posted' = Posted
    BY <1>1 DEF vars, platformVars, storeVars, runVars, jobVars, Posted
  <2> QED
    BY <2>1 DEF DeliveryInv, ListsPosted, RecordsPosted, JobOnTime, RequestsOnTime,
       KeysRemembered
<1>2. CASE Next
  BY <1>2, PlatformDelivery, SettingsDelivery, RunDelivery, ProcessDelivery,
     StoreFailsDelivery, CrashRestartDelivery DEF Next
<1> QED
  BY <1>1, <1>2

(***************************************************************************)
(* The reply to a message appears in the group at most once, for every     *)
(* number of messages, groups, attempts and faults, as long as the         *)
(* retry window, one processing and one request fit into the time the      *)
(* platform remembers a key (stableUuid and the 24 h rule of               *)
(* processRecoverableRecords).                                             *)
(***************************************************************************)
THEOREM AtMostOnce == Spec => []AtMostOnceDelivered
<1>1. DeliveryInv => AtMostOnceDelivered
  BY DEF DeliveryInv, KeysRemembered, AtMostOnceDelivered
<1> QED
  BY <1>1, DeliveryInit, DeliveryStep, TypeCorrect, PTL DEF Spec
-----------------------------------------------------------------------------
(* What a request has passed.                                               *)

(* Closing a record ends its processing. *)
LEMMA FinishEndsJob ==
  ASSUME NEW m, NEW s, Finish(m, s)
  PROVE  pc' \notin JobSteps \cup {"entry"} /\ ack' = FALSE
BY DEF Finish, LeaveGroup, BackToLoop, NoJob, JobSteps

(* The steps outside a record's processing: the platform's and the operator's*)
(* leave it where it is, the others are not in one or end it. *)
LEMMA OutsideJob ==
  ASSUME TypeOK, Platform \/ Settings \/ Run \/ StoreFails \/ Crash \/ Restart
  PROVE  \/ pc' = pc /\ UNCHANGED <<cur, group, phase, todo, text, reserved>>
         \/ pc' \notin JobSteps \cup {"entry"}
<1>1. CASE Platform \/ Settings
  BY <1>1 DEF Platform, Settings, Post, Recall, Accept, Drop, Tick, BeginSave, PublishSave,
     PersistSave, FailSave, StopSave, ChangeAnswer, runVars, jobVars
<1>2. CASE Run
  BY <1>2 DEF Run, StartRun, FetchMentions, FetchFails, Scan, MarkInitialized, TakeSnapshot,
     NextPhase, EndRun, LeaveGroup, JobSteps
<1>3. CASE Crash \/ Restart
  BY <1>3 DEF Crash, Restart, JobSteps
<1>4. CASE StoreFails
  BY <1>4, StoreFailsMoves, FinishEndsJob DEF LeaveGroup, JobSteps
<1> QED
  BY <1>1, <1>2, <1>3, <1>4

(* Only the guard makes a request. *)
LEMMA GuardRequests ==
  ASSUME TypeOK, Next \/ UNCHANGED vars, ~Guard
  PROVE  \A w \in wire' : \E v \in wire : w.msg = v.msg /\ (w.age = 0 => w = v)
<1>1. CASE wire' \subseteq wire
  BY <1>1
<1>2. CASE Tick
  <2>1. \A n \in Nat : Older(n) # 0 \/ Window = 0
    BY OutboxAssumption DEF Older
  <2>2. Window # 0
    BY WorkerAssumption, OutboxAssumption
  <2>3. \A v \in wire : v \in Request /\ v.age \in Nat
    BY OutboxAssumption DEF TypeOK, PlatformTypeOK, Request
  <2> SUFFICES ASSUME NEW v \in wire
               PROVE  LET w == [v EXCEPT !.age = Older(v.age)] IN w.msg = v.msg /\ w.age # 0
    BY <1>2 DEF Tick
  <2>4. [v EXCEPT !.age = Older(v.age)].age = Older(v.age)
    BY <2>3 DEF Request
  <2>5. [v EXCEPT !.age = Older(v.age)].msg = v.msg
    BY <2>3 DEF Request
  <2> QED
    BY <2>1, <2>2, <2>3, <2>4, <2>5
<1>3. CASE Platform /\ ~Tick
  BY <1>1, <1>3 DEF Platform, Post, Recall, Accept, Drop
<1>4. CASE Settings \/ Run \/ Crash \/ Restart \/ UNCHANGED vars
  BY <1>1, <1>4 DEF Settings, BeginSave, PublishSave, PersistSave, FailSave, StopSave,
     ChangeAnswer, Run, StartRun, FetchMentions, FetchFails, Scan, MarkInitialized,
     TakeSnapshot, NextPhase, EndRun, Crash, Restart, vars, platformVars
<1>5. CASE Process
  <2>1. wire' = wire
    BY <1>5, ServeWindowMoves, CallMoves DEF Process, TakeRecoverable, TakeOverdue,
       TakeMention, Entry, ReadHistory, ReadLatestConfig, RecheckHistory, Claim, Outside,
       platformVars
  <2> QED
    BY <1>1, <2>1
<1>6. CASE StoreFails
  BY <1>1, <1>6, StoreFailsMoves
<1> QED
  BY <1>2, <1>3, <1>4, <1>5, <1>6 DEF Next

(***************************************************************************)
(* Before a request is made, the record has passed the check of its text   *)
(* and the lookup that names its author.                                   *)
(***************************************************************************)
Screened ==
  /\ ScreenedNeverSent
  /\ pc \in JobSteps => cur.msg \notin Blank
  /\ pc \in JobSteps \ {"history"} => cur.msg \notin Own

LEMMA ScreenedStep ==
  ASSUME TypeOK, Screened, Next \/ UNCHANGED vars
  PROVE  Screened'
<1>1. CASE Guard
  <2>1. pc = "guard" /\ cur.msg \notin Own \cup Blank
    BY <1>1 DEF Guard, Screened, JobSteps
  <2>2. ScreenedNeverSent'
    BY <1>1, <2>1 DEF Guard, Screened, ScreenedNeverSent
  <2>3. pc' \in JobSteps => cur' = cur
    BY <1>1, FinishEndsJob DEF Guard
  <2> QED
    BY <2>1, <2>2, <2>3 DEF Screened
<1>2. CASE ~Guard
  <2>1. ScreenedNeverSent'
    BY <1>2, GuardRequests DEF Screened, ScreenedNeverSent
  <2>2. CASE (pc' = pc /\ cur' = cur) \/ pc' \notin JobSteps
    BY <2>1, <2>2 DEF Screened
  <2>3. ASSUME NEW v, NEW step \in JobSteps, Decide(v, step), pc' \in JobSteps
        PROVE  v = "proceed" /\ pc' = step /\ cur' = cur
    BY <2>3, FinishEndsJob DEF Decide, jobVars
  <2>4. CASE Entry
    <3>1. pc' \in JobSteps => pc' = "history" /\ cur' = cur /\ cur.msg \notin Blank
      BY <2>3, <2>4 DEF Entry, EntryVerdict, JobSteps
    <3> QED
      BY <2>1, <3>1 DEF Screened
  <2>5. CASE ReadHistory
    <3>1. pc' \in JobSteps => cur' = cur /\ cur.msg \notin Own
      BY <2>3, <2>5 DEF ReadHistory, HistoryVerdicts, LookupVerdicts, JobSteps
    <3>2. pc = "history"
      BY <2>5 DEF ReadHistory
    <3> QED
      BY <2>1, <3>1, <3>2 DEF Screened, JobSteps
  <2>6. CASE ReadLatestConfig \/ RecheckHistory
    <3>1. pc \in JobSteps \ {"history"} /\ (pc' \in JobSteps => cur' = cur)
      BY <2>3, <2>6 DEF ReadLatestConfig, RecheckHistory, JobSteps
    <3> QED
      BY <2>1, <3>1 DEF Screened
  <2>7. CASE Claim
    <3>1. pc \in JobSteps \ {"history"}
      BY <2>7 DEF Claim, JobSteps
    <3>2. pc' \in JobSteps => cur' = cur
      BY <2>7, FinishEndsJob DEF Claim, LeaveGroup, JobSteps
    <3> QED
      BY <2>1, <3>1, <3>2 DEF Screened
  <2>8. CASE CallSucceeds \/ CallFails
    <3>1. pc' \notin JobSteps
      BY <2>8, CallMoves, FinishEndsJob
    <3> QED
      BY <2>2, <3>1
  <2>9. ASSUME NEW i \in todo, TakeRecoverable(i) \/ TakeOverdue(i) \/ TakeMention(i)
        PROVE  pc' \notin JobSteps
    BY <2>9 DEF TakeRecoverable, TakeOverdue, TakeMention, LeaveGroup, JobSteps
  <2>10. CASE UNCHANGED vars
    BY <2>2, <2>10 DEF vars, jobVars
  <2>11. ASSUME NEW m \in windows, ServeWindow(m)
         PROVE  pc' \notin JobSteps
    BY <2>11, ServeWindowMoves DEF LeaveGroup, JobSteps
  <2> QED
    BY <1>2, <2>2, <2>4, <2>5, <2>6, <2>7, <2>8, <2>9, <2>10, <2>11, OutsideJob
    DEF Next, Process
<1> QED
  BY <1>1, <1>2

(***************************************************************************)
(* No request is ever made for a message the account sent itself nor for   *)
(* one without text, not even for a record recovered after a crash         *)
(* (processRecord's first returns and its first lookup).                   *)
(***************************************************************************)
THEOREM OnlyScreenedSent == Spec => []ScreenedNeverSent
<1>1. Init => Screened
  BY DEF Init, Screened, ScreenedNeverSent, JobSteps
<1>2. TypeOK /\ Screened /\ [Next]_vars => Screened'
  BY ScreenedStep
<1>3. Screened => ScreenedNeverSent
  BY DEF Screened
<1> QED
  BY <1>1, <1>2, <1>3, TypeCorrect, PTL DEF Spec

(***************************************************************************)
(* How the settings of a save reach the two places the worker reads them   *)
(* from, and what is left of it once a record is claimed: what was         *)
(* persisted when the record was claimed allowed a live reply, or what is  *)
(* persisted since is what the worker's last guard reads.                  *)
(***************************************************************************)
SendsLive(c) == Permits(c) /\ ~c.dry

Persisting == save # None /\ save.stage = "persist"

SettingsInv ==
  /\ pc = "down" => save = None
  /\ pc # "down" /\ Persisting => current = save.next
  /\ pc # "down" /\ ~Persisting => current = stored
  /\ pc = "guard" =>
       SendsLive(stored) \/ (stored = current /\ (save = None \/ save.stage = "stop"))

(* A step that leaves the settings alone and does not claim a record. *)
LEMMA SettingsStay ==
  ASSUME SettingsInv, UNCHANGED <<stored, current, save>>, pc # "down", pc' # "down",
         pc' = "guard" => pc = "guard" /\ group' = group
  PROVE  SettingsInv'
BY DEF SettingsInv, Persisting, SendsLive, Permits

LEMMA SettingsStep ==
  ASSUME TypeOK, SettingsInv, Next \/ UNCHANGED vars
  PROVE  SettingsInv'
<1>0. \A c \in Configs, s \in {"publish", "persist", "stop"} :
        [next |-> c, stage |-> s] # None
  BY WorkerAssumption
<1>1. CASE Settings
  <2>1. pc' = pc /\ group' = group
    BY <1>1 DEF Settings, BeginSave, PublishSave, PersistSave, FailSave, StopSave, ChangeAnswer,
       runVars
  <2>2. \A c : SendsLive(c)' <=> SendsLive(c)
    BY <2>1 DEF SendsLive, Permits
  <2>3. ASSUME NEW c \in Configs, BeginSave(c)
        PROVE  SettingsInv'
    <3>1. /\ save = None /\ pc \notin {"down", "guard"} /\ current' = current
          /\ stored' = stored /\ save' = [next |-> c, stage |-> "publish"]
      BY <2>3 DEF BeginSave
    <3> QED
      BY <2>1, <3>1 DEF SettingsInv, Persisting
  <2>4. ASSUME save # None
        PROVE  save = [next |-> save.next, stage |-> save.stage] /\ save.next \in Configs
    BY <2>4 DEF TypeOK, SettingsTypeOK
  <2>5. CASE PublishSave
    <3>1. /\ save # None /\ save.stage = "publish" /\ current' = save.next /\ stored' = stored
          /\ save' = [next |-> save.next, stage |-> "persist"]
      BY <2>4, <2>5 DEF PublishSave
    <3>2. save' # None /\ Persisting'
      BY <1>0, <2>4, <3>1 DEF Persisting
    <3> QED
      BY <2>1, <2>2, <3>1, <3>2 DEF SettingsInv, Persisting
  <2>6. CASE PersistSave
    <3>1. /\ save # None /\ Persisting /\ stored' = save.next /\ current' = current
          /\ save' = None \/ save' = [next |-> save.next, stage |-> "stop"]
      BY <2>4, <2>6 DEF PersistSave, Persisting
    <3>2. pc # "down" /\ current' = stored' /\ ~Persisting'
      BY <3>1 DEF SettingsInv, Persisting
    <3> QED
      BY <2>1, <3>1, <3>2 DEF SettingsInv
  <2>7. CASE FailSave
    BY <2>1, <2>2, <2>7 DEF FailSave, SettingsInv, Persisting
  <2>8. CASE StopSave
    BY <2>1, <2>8 DEF StopSave, SettingsInv, Persisting
  <2>9. ASSUME NEW a, ChangeAnswer(a)
        PROVE  SettingsInv'
    <3>1. pc # "down" /\ UNCHANGED <<stored, save>>
      BY <2>9 DEF ChangeAnswer
    <3>2. current' = current
      BY <2>9, <3>1 DEF ChangeAnswer, SettingsInv, Persisting
    <3> QED
      BY <2>1, <3>1, <3>2, SettingsStay
  <2> QED
    BY <1>1, <2>3, <2>5, <2>6, <2>7, <2>8, <2>9 DEF Settings
<1>2. CASE Crash
  BY <1>2 DEF Crash, SettingsInv
<1>3. CASE Restart
  BY <1>3 DEF Restart, SettingsInv, Persisting
<1>4. CASE UNCHANGED vars \/ Platform
  <2>1. UNCHANGED <<pc, group, stored, current, save>>
    BY <1>4 DEF vars, Platform, Post, Recall, Accept, Drop, Tick, settingVars, runVars
  <2> QED
    BY <2>1 DEF SettingsInv, Persisting, SendsLive, Permits
<1>5. CASE Run
  <2>1. UNCHANGED <<stored, current, save>> /\ pc # "down" /\ pc' \notin {"down", "guard"}
    BY <1>5 DEF Run, StartRun, FetchMentions, FetchFails, Scan, MarkInitialized, TakeSnapshot,
       NextPhase, EndRun, LeaveGroup, settingVars
  <2> QED
    BY <2>1, SettingsStay
<1>6. CASE Claim
  <2>1. UNCHANGED <<stored, current, save>> /\ pc = "claim"
    BY <1>6 DEF Claim, Outside, settingVars
  <2>2. CASE ClaimVerdict = "proceed" /\ UNCHANGED group
    <3>1. SendsLive(stored)'
      BY <2>1, <2>2 DEF ClaimVerdict, SendsLive, Permits
    <3> QED
      BY <1>6, <2>1, <3>1 DEF SettingsInv, Persisting, Claim, LeaveGroup, Finish, BackToLoop
  <2>3. CASE pc' \notin {"down", "guard"}
    BY <2>1, <2>3, SettingsStay
  <2> QED
    BY <1>6, <2>2, <2>3 DEF Claim, LeaveGroup, Finish, BackToLoop, runVars
<1>7. CASE Process /\ ~Claim
  <2>1. UNCHANGED <<stored, current, save>> /\ pc # "down"
    BY <1>7, ServeWindowMoves, CallMoves DEF Process, TakeRecoverable, TakeOverdue,
       TakeMention, Entry, ReadHistory, ReadLatestConfig, RecheckHistory, Guard, Outside,
       settingVars
  <2>2. ASSUME NEW v, NEW step \in JobSteps \ {"guard"}, Decide(v, step)
        PROVE  pc' \notin {"down", "guard"}
    BY <2>2 DEF Decide, Finish, LeaveGroup, BackToLoop, JobSteps
  <2>3. pc' \notin {"down", "guard"}
    BY <1>7, <2>1, <2>2, ServeWindowMoves, CallMoves DEF Process, TakeRecoverable,
       TakeOverdue, TakeMention, Entry, ReadHistory, ReadLatestConfig, RecheckHistory, Guard,
       Finish, LeaveGroup, BackToLoop, JobSteps, jobVars
  <2> QED
    BY <2>1, <2>3, SettingsStay
<1>8. CASE StoreFails
  <2>1. UNCHANGED <<stored, current, save>> /\ pc' \notin {"down", "guard"}
    BY <1>8, StoreFailsMoves DEF Finish, LeaveGroup, BackToLoop
  <2>2. pc # "down"
    BY <1>8 DEF StoreFails, UsesStore
  <2> QED
    BY <2>1, <2>2, SettingsStay
<1> QED
  BY <1>1, <1>2, <1>3, <1>4, <1>5, <1>6, <1>7, <1>8 DEF Next

(***************************************************************************)
(* A request starts only while both the persisted and the in-memory        *)
(* settings allow live replies in its group, whatever step of a save falls *)
(* between the claim of its record and the request (service.saveConfig,    *)
(* processRecord's last guard).                                            *)
(***************************************************************************)
THEOREM BothSettingsAllow == Spec => SendNeedsBothSettings
<1>1. Init => SettingsInv
  BY DEF Init, SettingsInv, Persisting
<1>2. TypeOK /\ SettingsInv /\ [Next]_vars => SettingsInv'
  BY SettingsStep
<1>3. ASSUME TypeOK, SettingsInv, Next
      PROVE  \A w \in wire' \ wire : w.age = 0 => \A c \in {stored, current} : SendsLive(c)
  <2>1. CASE Guard
    <3>1. pc = "guard" /\ (wire' = wire \/ SendsLive(current))
      BY <2>1 DEF Guard, GuardVerdict, SendsLive, Permits
    <3> QED
      BY <1>3, <3>1 DEF SettingsInv
  <2> QED
    BY <1>3, <2>1, GuardRequests
<1>4. TypeOK /\ SettingsInv /\ [Next]_vars =>
        [\A w \in wire' \ wire : w.age = 0 =>
           \A c \in {stored, current} : Permits(c) /\ ~c.dry]_vars
  BY <1>3 DEF SendsLive
<1> QED
  BY <1>1, <1>2, <1>4, TypeCorrect, PTL DEF Spec, SendNeedsBothSettings
-----------------------------------------------------------------------------
(* Attempts at one message are kept apart.                                  *)

(* A record whose request is undecided is in the outbox: no trim drops it. *)
RequestedKept == \A w \in wire : recs[w.msg].status # "absent"

(* The steps of a record's processing before its request. *)
Early == {"entry", "history", "latest", "recheck", "claim", "guard"}

(***************************************************************************)
(* The lease of an open record outlasts the request made under it; so a    *)
(* record that may be taken up again, one being processed before its       *)
(* request and one on the list of recoverable records have no undecided    *)
(* request.                                                                *)
(***************************************************************************)
LeasesHeld ==
  \A w \in wire : /\ recs[w.msg].status # "pending"
                  /\ recs[w.msg].status = "sending" => recs[w.msg].lease + w.age >= Lease

JobUnrequested == pc \in Early => \A w \in wire : w.msg # cur.msg

ListUnrequested ==
  phase = "recover" => \A i \in todo : \A w \in wire : w.msg # i.msg

(* The list of recoverable records names a record once, and not the one in  *)
(* processing.                                                              *)
ListDistinct ==
  phase = "recover" => \A i \in todo :
    /\ \A j \in todo : j.msg = i.msg => j = i
    /\ pc \in JobSteps \cup {"entry"} => cur.msg # i.msg

FreshLease == pc = "guard" => recs[cur.msg].status = "sending" /\ recs[cur.msg].lease = Lease

RequestInv ==
  /\ OneRequestPerMessage /\ LeasesHeld /\ JobUnrequested /\ ListUnrequested
  /\ ListDistinct /\ FreshLease

(* A change of a record that neither reopens it nor shortens its lease. *)
Keeps(r, t) ==
  t.status \in Unfinished /\ r.status \notin {"absent", "pending"} =>
    t.status = r.status /\ t.lease = r.lease

LEMMA KeepsChanges ==
  ASSUME NEW r
  PROVE  /\ Keeps(r, r) /\ Keeps(r, Absent)
         /\ Keeps(r, MarkedIgnored(r))
         /\ r.status \in {"absent", "pending"} => \A t : Keeps(r, t)
         /\ \A s \in Status \ {"pending"} : AllowedTransition(r.status, s) =>
              Keeps(r, WithStatus(r, s))
         /\ Keeps(r, WithStatus(r, "needs_manual"))
BY DEF Keeps, Absent, Unfinished, MarkedIgnored, AllowedTransition, WithStatus, NewRecord

LEMMA TrimKeeps ==
  ASSUME NEW x, NEW t \in Trimmed(x), NEW r, NEW m \in Msg, Keeps(r, x[m])
  PROVE  Keeps(r, t[m])
<1>1. t[m] = x[m] \/ t[m] = Absent
  BY TrimKeepsOrDrops
<1> QED
  BY <1>1, KeepsChanges

LEMMA FinishKeeps ==
  ASSUME TypeOK, NEW h \in Msg, NEW s \in Status \ {"pending"}, Finish(h, s), NEW m \in Msg
  PROVE  Keeps(recs[m], recs'[m])
<1>1. CASE AllowedTransition(recs[h].status, s)
  <2> DEFINE x == [recs EXCEPT ![h] = WithStatus(recs[h], s)]
  <2>1. recs' \in Trimmed(x)
    BY <1>1 DEF Finish
  <2>2. x[m] = recs[m] \/ (m = h /\ x[m] = WithStatus(recs[m], s))
    BY DEF TypeOK, StoreTypeOK
  <2>3. Keeps(recs[m], x[m])
    BY <1>1, <2>2, KeepsChanges
  <2> HIDE DEF x
  <2> QED
    BY <2>1, <2>3, TrimKeeps
<1>2. CASE recs' = recs
  BY <1>2, KeepsChanges
<1> QED
  BY <1>1, <1>2 DEF Finish

LEMMA DecideKeeps ==
  ASSUME TypeOK, pc \in JobSteps \cup {"entry"},
         NEW v \in {"proceed", "needs_manual", "recalled", "ignored", "dry_run"},
         NEW step, Decide(v, step), NEW m \in Msg
  PROVE  Keeps(recs[m], recs'[m])
<1>1. CASE v = "proceed"
  BY <1>1, KeepsChanges DEF Decide
<1>2. CASE v # "proceed"
  <2>1. Settled(v) \in Status \ {"pending"}
    BY <1>2 DEF Settled, Status, Terminal
  <2> QED
    BY <1>2, <2>1, JobTyped, FinishKeeps DEF Decide
<1> QED
  BY <1>1, <1>2

(* Only claiming reopens a record, and only the clock shortens a lease. *)
LEMMA StepKeeps ==
  ASSUME TypeOK, Next \/ UNCHANGED vars, ~Tick, NEW m \in Msg
  PROVE  \/ Keeps(recs[m], recs'[m])
         \/ Claim /\ pc' = "guard" /\ m = cur.msg
<1>1. CASE recs' = recs
  BY <1>1, KeepsChanges
<1>2. ASSUME NEW c \in Configs, BeginSave(c)
      PROVE  Keeps(recs[m], recs'[m])
  <2>1. recs'[m] = recs[m] \/ recs'[m] = WithStatus(recs[m], "needs_manual")
    BY <1>2 DEF BeginSave, HandOver
  <2> QED
    BY <2>1, KeepsChanges
<1>3. CASE Scan
  <2> DEFINE x == [n \in Msg |-> IF \E i \in fetched : i.msg = n
                                THEN MarkedIgnored(recs[n]) ELSE recs[n]]
  <2>1. recs' = recs \/ recs' \in Trimmed(x)
    BY <1>3 DEF Scan
  <2>2. Keeps(recs[m], x[m])
    BY KeepsChanges
  <2> HIDE DEF x
  <2> QED
    BY <2>1, <2>2, TrimKeeps, KeepsChanges
<1>4. ASSUME NEW i \in todo, TakeRecoverable(i) \/ TakeOverdue(i) \/ TakeMention(i)
      PROVE  Keeps(recs[m], recs'[m])
  <2>1. i.msg \in Msg
    BY DEF TypeOK, RunTypeOK, Item
  <2>2. CASE TakeMention(i) /\ recs' # recs
    <3> DEFINE x == [recs EXCEPT ![i.msg] = NewRecord]
    <3>1. recs[i.msg].status = "absent" /\ recs' \in Trimmed(x)
      BY <2>2 DEF TakeMention
    <3>2. x[m] = recs[m] \/ m = i.msg
      BY DEF TypeOK, StoreTypeOK
    <3>3. Keeps(recs[m], x[m])
      BY <3>1, <3>2, KeepsChanges
    <3> HIDE DEF x
    <3> QED
      BY <3>1, <3>3, TrimKeeps
  <2>3. CASE TakeOverdue(i) /\ recs' # recs
    <3> DEFINE x == [recs EXCEPT ![i.msg] = WithStatus(recs[i.msg], "needs_manual")]
    <3>1. recs' \in Trimmed(x)
      BY <2>3 DEF TakeOverdue
    <3>2. x[m] = recs[m] \/ x[m] = WithStatus(recs[m], "needs_manual")
      BY DEF TypeOK, StoreTypeOK
    <3>3. Keeps(recs[m], x[m])
      BY <3>2, KeepsChanges
    <3> HIDE DEF x
    <3> QED
      BY <3>1, <3>3, TrimKeeps
  <2> QED
    BY <1>4, <2>2, <2>3, KeepsChanges DEF TakeRecoverable
<1>5. CASE Entry \/ ReadHistory \/ ReadLatestConfig \/ RecheckHistory
  <2>1. pc \in JobSteps \cup {"entry"}
    BY <1>5 DEF Entry, ReadHistory, ReadLatestConfig, RecheckHistory, JobSteps
  <2>2. PICK v \in {"proceed", "needs_manual", "recalled", "ignored", "dry_run"},
             step \in {"history", "latest", "recheck", "claim"} : Decide(v, step)
    BY <1>5 DEF Entry, ReadHistory, ReadLatestConfig, RecheckHistory, EntryVerdict,
       HistoryVerdicts, LookupVerdicts, Composed
  <2> QED
    BY <2>1, <2>2, DecideKeeps
<1>6. CASE Claim
  <2>1. pc \in JobSteps
    BY <1>6 DEF Claim, JobSteps
  <2>2. cur.msg \in Msg
    BY <2>1, JobTyped
  <2>3. CASE ClaimVerdict = "proceed" /\ recs' # recs
    <3> DEFINE x == [recs EXCEPT ![cur.msg] = Claimed(recs[cur.msg])]
    <3>1. recs' \in Trimmed(x) /\ pc' = "guard"
      BY <1>6, <2>3 DEF Claim
    <3>2. m # cur.msg => x[m] = recs[m]
      BY DEF TypeOK, StoreTypeOK
    <3>3. m # cur.msg => Keeps(recs[m], x[m])
      BY <3>2, KeepsChanges
    <3> HIDE DEF x
    <3> QED
      BY <1>6, <3>1, <3>3, TrimKeeps
  <2>4. CASE ClaimVerdict # "proceed"
    <3>1. Settled(ClaimVerdict) \in Status \ {"pending"}
      BY <2>4 DEF ClaimVerdict, Settled, Status, Terminal
    <3>2. Finish(cur.msg, Settled(ClaimVerdict))
      BY <1>6, <2>4 DEF Claim
    <3> QED
      BY <2>2, <3>1, <3>2, FinishKeeps
  <2> QED
    BY <1>1, <2>3, <2>4
<1>7. CASE Guard
  <2>1. pc \in JobSteps
    BY <1>7 DEF Guard, JobSteps
  <2>2. cur.msg \in Msg
    BY <2>1, JobTyped
  <2>3. CASE GuardVerdict # "proceed"
    <3>1. Settled(GuardVerdict) \in Status \ {"pending"}
      BY <2>3 DEF GuardVerdict, Settled, Status, Terminal
    <3>2. Finish(cur.msg, Settled(GuardVerdict))
      BY <1>7, <2>3 DEF Guard
    <3> QED
      BY <2>2, <3>1, <3>2, FinishKeeps
  <2> QED
    BY <1>1, <1>7, <2>3 DEF Guard
<1>8. CASE (CallSucceeds \/ CallFails \/ StoreFails) /\ recs' # recs
  <2>1. pc \in JobSteps
    BY <1>8, CallMoves, StoreFailsMoves DEF JobSteps
  <2>2. cur.msg \in Msg
    BY <2>1, JobTyped
  <2>3. PICK s \in {"sent", "sending", "needs_manual"} : Finish(cur.msg, s)
    BY <1>8, CallMoves, StoreFailsMoves
  <2>4. s \in Status \ {"pending"}
    BY DEF Status, Unfinished, Terminal
  <2> QED
    BY <2>2, <2>3, <2>4, FinishKeeps
<1>9. recs' = recs \/ (\E c \in Configs : BeginSave(c)) \/ Scan \/ Process \/ StoreFails
  BY DEF Next, Platform, Post, Recall, Accept, Drop, Settings, PublishSave, PersistSave,
     FailSave, StopSave, ChangeAnswer, Run, StartRun, FetchMentions, FetchFails,
     MarkInitialized, TakeSnapshot, NextPhase, EndRun, Crash, Restart, storeVars, vars
<1> QED
  BY <1>1, <1>2, <1>3, <1>4, <1>5, <1>6, <1>7, <1>8, <1>9, ServeWindowMoves DEF Process

(* A record that may be taken up has no undecided request. *)
LEMMA TakenUnrequested ==
  ASSUME Flight < Lease, TypeOK, RequestsOnTime, RequestedKept, LeasesHeld,
         NEW m \in Msg, recs[m].status = "absent" \/ Recoverable(recs[m])
  PROVE  \A w \in wire : w.msg # m
<1> SUFFICES ASSUME NEW w \in wire, w.msg = m PROVE FALSE
  OBVIOUS
<1>1. recs[m].status = "sending" /\ recs[m].lease = 0
  BY DEF RequestedKept, LeasesHeld, Recoverable, LeaseExpired
<1>2. w.age \in Nat /\ w.age <= Flight /\ 0 + w.age >= Lease
  BY <1>1, OutboxAssumption DEF TypeOK, PlatformTypeOK, Request, RequestsOnTime, LeasesHeld
<1> QED
  BY <1>2, OutboxAssumption, WorkerAssumption

LEMMA QuietWire ==
  ASSUME Next \/ UNCHANGED vars, ~Guard, ~Tick
  PROVE  wire' \subseteq wire
<1>1. CASE Platform
  BY <1>1 DEF Platform, Post, Recall, Accept, Drop
<1>2. CASE Settings \/ Run \/ Crash \/ Restart \/ UNCHANGED vars
  BY <1>2 DEF Settings, BeginSave, PublishSave, PersistSave, FailSave, StopSave,
     ChangeAnswer, Run, StartRun, FetchMentions, FetchFails, Scan, MarkInitialized,
     TakeSnapshot, NextPhase, EndRun, Crash, Restart, vars, platformVars
<1>3. CASE Process
  BY <1>3, ServeWindowMoves, CallMoves DEF Process, TakeRecoverable, TakeOverdue,
     TakeMention, Entry, ReadHistory, ReadLatestConfig, RecheckHistory, Claim, Outside,
     platformVars
<1>4. CASE StoreFails
  BY <1>4, StoreFailsMoves
<1> QED
  BY <1>1, <1>2, <1>3, <1>4 DEF Next

(* The requests and their leases. *)
LEMMA RequestsStep ==
  ASSUME Flight < Lease, TypeOK, TypeOK', RequestsOnTime, RequestedKept, RequestInv,
         Next \/ UNCHANGED vars
  PROVE  OneRequestPerMessage' /\ LeasesHeld'
<1>1. CASE Tick
  <2>1. ASSUME NEW v \in wire, NEW w, w = [v EXCEPT !.age = Older(v.age)]
        PROVE  /\ w.msg = v.msg /\ recs'[w.msg].status # "pending"
               /\ recs'[w.msg].status = "sending" => recs'[w.msg].lease + w.age >= Lease
    <3>1. v \in Request /\ v.age \in Nat /\ v.age < Flight /\ v.msg \in Msg
      BY <1>1, OutboxAssumption DEF TypeOK, PlatformTypeOK, Request, Tick
    <3>2. Older(v.age) = v.age + 1
      BY <3>1, WorkerAssumption, OutboxAssumption DEF Older
    <3>3. recs'[v.msg] = AgedRecord(recs[v.msg])
      BY <1>1, <3>1 DEF Tick
    <3>4. recs[v.msg].lease \in Nat
      BY <3>1, OutboxAssumption DEF TypeOK, StoreTypeOK, Record
    <3>5. recs[v.msg].status # "pending"
          /\ (recs[v.msg].status = "sending" => recs[v.msg].lease + v.age >= Lease)
      BY DEF RequestInv, LeasesHeld
    <3>6. recs'[v.msg].status = recs[v.msg].status
          /\ recs'[v.msg].lease = IF recs[v.msg].lease > 0 THEN recs[v.msg].lease - 1 ELSE 0
      BY <3>3 DEF AgedRecord
    <3>7. recs'[v.msg].status # "pending"
          /\ (recs'[v.msg].status = "sending" => recs'[v.msg].lease + (v.age + 1) >= Lease)
      BY <3>1, <3>4, <3>5, <3>6, OutboxAssumption
    <3>8. w.msg = v.msg /\ w.age = v.age + 1
      BY <2>1, <3>1, <3>2 DEF Request
    <3> QED
      BY <3>7, <3>8
  <2>2. wire' = {[v EXCEPT !.age = Older(v.age)] : v \in wire}
    BY <1>1 DEF Tick
  <2>3. OneRequestPerMessage'
    BY <2>1, <2>2 DEF RequestInv, OneRequestPerMessage
  <2>4. LeasesHeld'
    BY <2>1, <2>2 DEF LeasesHeld
  <2> QED
    BY <2>3, <2>4
<1>2. CASE Guard /\ GuardVerdict = "proceed"
  <2>1. pc = "guard" /\ recs' = recs
        /\ wire' = wire \cup {[msg |-> cur.msg, attempt |-> recs[cur.msg].attempts,
                               uuid |-> Uuid(cur.msg, recs[cur.msg].attempts), age |-> 0]}
    BY <1>2 DEF Guard
  <2>2. pc \in JobSteps
    BY <2>1 DEF JobSteps
  <2>3. cur.msg \in Msg
    BY <2>2, JobTyped
  <2>4. \A w \in wire : w.msg # cur.msg
    BY <2>1 DEF RequestInv, JobUnrequested, Early
  <2>5. recs[cur.msg].status = "sending" /\ recs[cur.msg].lease = Lease
    BY <2>1 DEF RequestInv, FreshLease
  <2>6. Lease + 0 >= Lease
    BY OutboxAssumption
  <2>7. OneRequestPerMessage'
    BY <2>1, <2>4 DEF RequestInv, OneRequestPerMessage
  <2>8. LeasesHeld'
    BY <2>1, <2>5, <2>6 DEF RequestInv, LeasesHeld
  <2> QED
    BY <2>7, <2>8
<1>3. CASE ~Tick /\ ~(Guard /\ GuardVerdict = "proceed")
  <2>1. wire' \subseteq wire
    BY <1>3, QuietWire DEF Guard
  <2>2. OneRequestPerMessage'
    BY <2>1 DEF RequestInv, OneRequestPerMessage
  <2>3. ASSUME NEW w \in wire'
        PROVE  /\ recs'[w.msg].status # "pending"
               /\ recs'[w.msg].status = "sending" => recs'[w.msg].lease + w.age >= Lease
    <3>1. w \in wire /\ w.msg \in Msg
      BY <2>1, <2>3 DEF TypeOK, PlatformTypeOK, Request
    <3>2. recs[w.msg].status \notin {"absent", "pending"}
      BY <3>1 DEF RequestedKept, RequestInv, LeasesHeld
    <3>3. ~(Claim /\ w.msg = cur.msg)
      BY <3>1 DEF Claim, RequestInv, JobUnrequested, Early
    <3>4. Keeps(recs[w.msg], recs'[w.msg])
      BY <1>3, <3>1, <3>3, StepKeeps
    <3> QED
      BY <3>1, <3>2, <3>4 DEF Keeps, Unfinished, RequestInv, LeasesHeld
  <2>4. LeasesHeld'
    BY <2>3 DEF LeasesHeld
  <2> QED
    BY <2>2, <2>4
<1> QED
  BY <1>1, <1>2, <1>3

(***************************************************************************)
(* How a step moves the worker over its lists: it goes on with the record  *)
(* it has, takes up another one of its own list, or lists a follow-up.     *)
(***************************************************************************)
GoesOn ==
  /\ todo' \subseteq todo /\ (phase' = phase \/ todo' = {})
  /\ pc' \in JobSteps \cup {"entry"} => pc \in JobSteps \cup {"entry"} /\ cur' = cur
  /\ pc' \in Early \ {"guard"} => pc \in Early \ {"guard"}
  /\ pc' = "guard" => pc \in {"claim", "guard"}

LEMMA FinishLists ==
  ASSUME NEW m, NEW s, Finish(m, s)
  PROVE  GoesOn
BY DEF Finish, LeaveGroup, BackToLoop, runVars, JobSteps, Early, GoesOn

LEMMA ListMoves ==
  ASSUME Next \/ UNCHANGED vars
  PROVE  \/ GoesOn
         \/ TakeSnapshot
         \/ NextPhase /\ phase = "recover"
         \/ \E i \in todo : TakeRecoverable(i) \/ TakeMention(i)
         \/ pc' = "next" /\ phase' = "followups"
<1>1. CASE Platform \/ Settings \/ UNCHANGED vars
  <2>1. pc' = pc /\ cur' = cur /\ phase' = phase /\ todo' = todo
    BY <1>1 DEF Platform, Settings, Post, Recall, Accept, Drop, Tick, BeginSave,
       PublishSave, PersistSave, FailSave, StopSave, ChangeAnswer, runVars, jobVars, vars
  <2> QED
    BY <2>1 DEF GoesOn
<1>2. CASE (Run \/ Crash \/ Restart) /\ ~TakeSnapshot /\ ~(NextPhase /\ phase = "recover")
  <2>1. todo' \subseteq todo /\ (phase' = phase \/ todo' = {})
    BY <1>2 DEF Run, StartRun, FetchMentions, FetchFails, Scan, MarkInitialized, NextPhase,
       EndRun, LeaveGroup, Crash, Restart, runVars
  <2>2. pc' \notin JobSteps \cup {"entry"} /\ pc' \notin Early
    BY <1>2 DEF Run, StartRun, FetchMentions, FetchFails, Scan, MarkInitialized, NextPhase,
       EndRun, LeaveGroup, Crash, Restart, JobSteps, Early
  <2> QED
    BY <2>1, <2>2 DEF GoesOn, Early, JobSteps
<1>3. ASSUME NEW i \in todo, TakeOverdue(i)
      PROVE  GoesOn
  <2>1. todo' \subseteq todo /\ (phase' = phase \/ todo' = {})
    BY <1>3 DEF TakeOverdue, LeaveGroup
  <2>2. pc' \notin JobSteps \cup {"entry"} /\ pc' \notin Early
    BY <1>3 DEF TakeOverdue, LeaveGroup, JobSteps, Early
  <2> QED
    BY <2>1, <2>2 DEF GoesOn, Early, JobSteps
<1>4. CASE Entry \/ ReadHistory \/ ReadLatestConfig \/ RecheckHistory
  <2>1. pc \in Early \ {"guard"}
    BY <1>4 DEF Entry, ReadHistory, ReadLatestConfig, RecheckHistory, Early
  <2>2. PICK v \in {"proceed", "needs_manual", "recalled", "ignored", "dry_run"},
             step \in {"history", "latest", "recheck", "claim"} : Decide(v, step)
    BY <1>4 DEF Entry, ReadHistory, ReadLatestConfig, RecheckHistory, EntryVerdict,
       HistoryVerdicts, LookupVerdicts, Composed
  <2>3. CASE v = "proceed"
    <3>1. pc' = step /\ UNCHANGED <<cur, phase, todo>>
      BY <2>2, <2>3 DEF Decide, runVars, jobVars
    <3> QED
      BY <2>1, <3>1 DEF GoesOn, Early, JobSteps
  <2>4. CASE v # "proceed"
    BY <2>2, <2>4, FinishLists DEF Decide
  <2> QED
    BY <2>3, <2>4
<1>5. CASE Claim
  <2>1. CASE pc' = "guard" /\ UNCHANGED <<runVars, cur>>
    <3>1. pc = "claim" /\ pc' = "guard" /\ cur' = cur /\ todo' = todo /\ phase' = phase
      BY <1>5, <2>1 DEF Claim, runVars
    <3> QED
      BY <3>1 DEF GoesOn, JobSteps, Early
  <2>2. CASE LeaveGroup
    BY <2>2 DEF LeaveGroup, GoesOn, JobSteps, Early
  <2> QED
    BY <1>5, <2>1, <2>2, FinishLists DEF Claim
<1>6. CASE Guard
  <2>1. CASE pc' = "call" /\ UNCHANGED <<runVars, cur>>
    BY <1>6, <2>1 DEF Guard, runVars, GoesOn, JobSteps, Early
  <2> QED
    BY <1>6, <2>1, FinishLists DEF Guard
<1>7. CASE CallSucceeds \/ CallFails \/ StoreFails
  <2>1. CASE \E s : Finish(cur.msg, s)
    BY <2>1, FinishLists
  <2>2. CASE LeaveGroup
    BY <2>2 DEF LeaveGroup, GoesOn, JobSteps, Early
  <2> QED
    BY <1>7, <2>1, <2>2, CallMoves, StoreFailsMoves
<1>8. ASSUME NEW m \in windows, ServeWindow(m)
      PROVE  GoesOn \/ (pc' = "next" /\ phase' = "followups")
  <2>1. LeaveGroup => GoesOn
    BY DEF LeaveGroup, GoesOn, JobSteps, Early
  <2> QED
    BY <1>8, <2>1, ServeWindowMoves
<1> QED
  BY <1>1, <1>2, <1>3, <1>4, <1>5, <1>6, <1>7, <1>8 DEF Next, Process

LEMMA ListDistinctStep ==
  ASSUME ListDistinct, Next \/ UNCHANGED vars
  PROVE  ListDistinct'
<1>1. CASE GoesOn
  <2>1. CASE todo' = {}
    BY <2>1 DEF ListDistinct
  <2>2. CASE phase' = phase
    BY <1>1, <2>2 DEF GoesOn, ListDistinct
  <2> QED
    BY <1>1, <2>1, <2>2 DEF GoesOn
<1>2. CASE TakeSnapshot
  <2> DEFINE entry(m) ==
        [msg |-> m, uncertain |-> IsUncertain(recs[m]),
         overdue |-> recs[m].since >= Window, withdrawn |-> FALSE, own |-> FALSE]
  <2>1. pc' = "next" /\ \A i \in todo' : \E m \in Msg : i = entry(m)
    BY <1>2 DEF TakeSnapshot
  <2>2. \A m \in Msg : entry(m).msg = m
    OBVIOUS
  <2> HIDE DEF entry
  <2>3. \A i, j \in todo' : i.msg = j.msg => i = j
    BY <2>1, <2>2
  <2> QED
    BY <2>1, <2>3 DEF ListDistinct, JobSteps
<1>3. CASE NextPhase /\ phase = "recover"
  BY <1>3 DEF NextPhase, ListDistinct
<1>4. ASSUME NEW i \in todo, TakeRecoverable(i)
      PROVE  ListDistinct'
  <2>1. phase = "recover" /\ todo' = todo \ {i} /\ cur' = i
    BY <1>4 DEF TakeRecoverable
  <2> QED
    BY <1>4, <2>1 DEF ListDistinct
<1>5. ASSUME NEW i \in todo, TakeMention(i)
      PROVE  ListDistinct'
  BY <1>5 DEF TakeMention, ListDistinct
<1>6. CASE phase' = "followups"
  BY <1>6 DEF ListDistinct
<1> QED
  BY <1>1, <1>2, <1>3, <1>4, <1>5, <1>6, ListMoves

LEMMA ListsStep ==
  ASSUME Flight < Lease, TypeOK, RequestsOnTime, RequestedKept, RequestInv,
         Next \/ UNCHANGED vars
  PROVE  JobUnrequested' /\ ListUnrequested'
<1>a. JobUnrequested /\ ListUnrequested /\ ListDistinct /\ LeasesHeld
  BY DEF RequestInv
<1>1. CASE Guard
  <2>1. pc = "guard" /\ GoesOn
    <3>1. CASE pc' = "call" /\ UNCHANGED <<runVars, cur>>
      BY <1>1, <3>1 DEF Guard, runVars, GoesOn, JobSteps, Early
    <3> QED
      BY <1>1, <3>1, FinishLists DEF Guard
  <2>2. \A w \in wire' : w \in wire \/ w.msg = cur.msg
    BY <1>1 DEF Guard
  <2>3. pc' \notin Early
    BY <1>1, FinishEndsJob DEF Guard, Early, JobSteps
  <2>4. JobUnrequested'
    BY <2>3 DEF JobUnrequested
  <2>5. phase' = "recover" => \A i \in todo' : i \in todo /\ phase = "recover"
    BY <2>1 DEF GoesOn
  <2>6. ListUnrequested'
    BY <1>a, <2>1, <2>2, <2>5 DEF ListUnrequested, ListDistinct, JobSteps
  <2> QED
    BY <2>4, <2>6
<1>2. ASSUME ~Guard
      PROVE  JobUnrequested' /\ ListUnrequested'
  <2>0. \A w \in wire' : \E v \in wire : w.msg = v.msg
    BY <1>2, GuardRequests
  <2>1. CASE GoesOn
    <3>1. pc' \in Early => pc \in Early /\ cur' = cur
      BY <2>1 DEF GoesOn, Early, JobSteps
    <3>2. JobUnrequested'
      BY <1>a, <2>0, <3>1 DEF JobUnrequested
    <3>3. phase' = "recover" => \A i \in todo' : i \in todo /\ phase = "recover"
      BY <2>1 DEF GoesOn
    <3>4. ListUnrequested'
      BY <1>a, <2>0, <3>3 DEF ListUnrequested
    <3> QED
      BY <3>2, <3>4
  <2>2. CASE TakeSnapshot
    <3>1. pc' = "next" /\ wire' = wire
      BY <2>2 DEF TakeSnapshot, platformVars
    <3>2. \A i \in todo' : i.msg \in Msg /\ Recoverable(recs[i.msg])
      BY <2>2 DEF TakeSnapshot
    <3>3. \A i \in todo' : \A w \in wire : w.msg # i.msg
      BY <1>a, <3>2, TakenUnrequested
    <3> QED
      BY <3>1, <3>3 DEF JobUnrequested, ListUnrequested, Early
  <2>3. CASE NextPhase /\ phase = "recover"
    <3>1. phase' = "mentions" /\ pc' = "next"
      BY <2>3 DEF NextPhase
    <3> QED
      BY <3>1 DEF JobUnrequested, ListUnrequested, Early
  <2>4. ASSUME NEW i \in todo, TakeRecoverable(i)
        PROVE  JobUnrequested' /\ ListUnrequested'
    <3>1. phase = "recover" /\ phase' = phase /\ todo' = todo \ {i} /\ cur' = i
      BY <2>4 DEF TakeRecoverable
    <3>2. wire' = wire
      BY <2>4 DEF TakeRecoverable, Outside, platformVars
    <3> QED
      BY <1>a, <2>4, <3>1, <3>2 DEF JobUnrequested, ListUnrequested
  <2>5. ASSUME NEW i \in todo, TakeMention(i)
        PROVE  JobUnrequested' /\ ListUnrequested'
    <3>1. phase' # "recover" /\ wire' = wire /\ i \in Item /\ i.msg \in Msg
      BY <2>5 DEF TakeMention, Outside, platformVars, TypeOK, RunTypeOK, Item
    <3>2. CASE recs[i.msg].status = "absent" \/ Recoverable(recs[i.msg])
      <4>1. \A w \in wire : w.msg # i.msg
        BY <1>a, <3>1, <3>2, TakenUnrequested
      <4>2. pc' \in Early => cur'.msg = i.msg
        BY <2>5, <3>1 DEF TakeMention, Early, Item
      <4> QED
        BY <3>1, <4>1, <4>2 DEF JobUnrequested, ListUnrequested
    <3>3. CASE ~(recs[i.msg].status = "absent" \/ Recoverable(recs[i.msg]))
      <4>1. pc' = pc /\ pc = "next"
        BY <2>5, <3>3 DEF TakeMention
      <4> QED
        BY <3>1, <4>1 DEF JobUnrequested, ListUnrequested, Early
    <3> QED
      BY <3>2, <3>3
  <2>6. CASE pc' = "next" /\ phase' = "followups"
    BY <2>6 DEF JobUnrequested, ListUnrequested, Early
  <2> QED
    BY <2>1, <2>2, <2>3, <2>4, <2>5, <2>6, ListMoves
<1> QED
  BY <1>1, <1>2

(* A claimed record holds a whole lease until its request has left. *)
LEMMA FreshLeaseStep ==
  ASSUME TypeOK, FreshLease, Next \/ UNCHANGED vars
  PROVE  FreshLease'
<1> SUFFICES ASSUME pc' = "guard"
             PROVE  recs'[cur'.msg].status = "sending" /\ recs'[cur'.msg].lease = Lease
  BY DEF FreshLease
<1>1. CASE Claim
  <2>1. recs' \in Trimmed([recs EXCEPT ![cur.msg] = Claimed(recs[cur.msg])]) /\ cur' = cur
    BY <1>1, FinishEndsJob DEF Claim, LeaveGroup, JobSteps
  <2>2. pc \in JobSteps
    BY <1>1 DEF Claim, JobSteps
  <2>3. cur.msg \in Msg
    BY <2>2, JobTyped
  <2> DEFINE x == [recs EXCEPT ![cur.msg] = Claimed(recs[cur.msg])]
  <2>4. x[cur.msg] = Claimed(recs[cur.msg]) /\ recs' \in Trimmed(x)
    BY <2>1, <2>3 DEF TypeOK, StoreTypeOK
  <2>5. Claimed(recs[cur.msg]).status = "sending" /\ Claimed(recs[cur.msg]).lease = Lease
    BY DEF Claimed
  <2> HIDE DEF x
  <2>6. recs'[cur.msg] = x[cur.msg]
    BY <2>3, <2>4, <2>5, TrimSpares DEF Unfinished
  <2> QED
    BY <2>1, <2>4, <2>5, <2>6
<1>2. CASE ~Claim
  <2>1. pc = "guard" /\ UNCHANGED <<recs, cur>>
    <3>1. CASE Platform \/ Settings \/ UNCHANGED vars
      BY <3>1 DEF Platform, Settings, Post, Recall, Accept, Drop, Tick, BeginSave,
         PublishSave, PersistSave, FailSave, StopSave, ChangeAnswer, storeVars, jobVars, vars
    <3>2. ~(Run \/ Crash \/ Restart)
      BY DEF Run, StartRun, FetchMentions, FetchFails, Scan, MarkInitialized, TakeSnapshot,
         NextPhase, EndRun, LeaveGroup, Crash, Restart
    <3>3. ~(\E i \in todo : TakeRecoverable(i) \/ TakeOverdue(i) \/ TakeMention(i))
      BY DEF TakeRecoverable, TakeOverdue, TakeMention, LeaveGroup
    <3>4. ~(Entry \/ ReadHistory \/ ReadLatestConfig \/ RecheckHistory)
      BY FinishEndsJob DEF Entry, ReadHistory, ReadLatestConfig, RecheckHistory, Decide, JobSteps
    <3>5. ~(Guard \/ CallSucceeds \/ CallFails)
      BY CallMoves, FinishEndsJob DEF Guard, JobSteps
    <3>6. ~(StoreFails \/ \E m \in windows : ServeWindow(m))
      BY StoreFailsMoves, ServeWindowMoves, FinishEndsJob DEF LeaveGroup, JobSteps
    <3> QED
      BY <1>2, <3>1, <3>2, <3>3, <3>4, <3>5, <3>6 DEF Next, Process
  <2> QED
    BY <2>1 DEF FreshLease
<1> QED
  BY <1>1, <1>2

(***************************************************************************)
(* Two requests for one message are never outstanding together, not even   *)
(* after a crash and a restart, if the lease outlasts a request and no     *)
(* record is evicted while its request is undecided (the lease that        *)
(* claimReply writes and recoverableReplies waits for).                    *)
(***************************************************************************)
THEOREM AttemptsApart ==
  ASSUME Flight < Lease
  PROVE  Spec /\ []RequestedKept => []OneRequestPerMessage
<1>1. Init => RequestInv
  BY DEF Init, RequestInv, OneRequestPerMessage, LeasesHeld, JobUnrequested, ListUnrequested,
     ListDistinct, FreshLease, Early
<1>2. TypeOK /\ TypeOK' /\ DeliveryInv /\ RequestedKept /\ RequestInv /\ [Next]_vars
        => RequestInv'
  <2>1. DeliveryInv => RequestsOnTime
    BY DEF DeliveryInv
  <2>2. RequestInv => ListDistinct /\ FreshLease
    BY DEF RequestInv
  <2> QED
    BY <2>1, <2>2, RequestsStep, ListsStep, ListDistinctStep, FreshLeaseStep DEF RequestInv
<1>3. RequestInv => OneRequestPerMessage
  BY DEF RequestInv
<1> QED
  BY <1>1, <1>2, <1>3, DeliveryInit, DeliveryStep, TypeCorrect, PTL DEF Spec
-----------------------------------------------------------------------------
(* While every record fits into the outbox, none is evicted.                *)

(* The records the next state has: none that is there now is missing. *)
NoneEvicted == \A m \in Msg : recs[m].status # "absent" => recs'[m].status # "absent"

LEMMA ChangeDropsNone ==
  ASSUME Cardinality(Msg) <= Retention, TypeOK, NEW h \in Msg, NEW r, r.status # "absent",
         recs' \in Trimmed([recs EXCEPT ![h] = r])
  PROVE  NoneEvicted
<1> DEFINE x == [recs EXCEPT ![h] = r]
<1>1. \A m \in Msg : x[m] = recs[m] \/ x[m] = r
  BY DEF TypeOK, StoreTypeOK
<1>2. \A m \in Msg : recs'[m] = x[m]
  BY TrimDropsNone
<1> QED
  BY <1>1, <1>2 DEF NoneEvicted

LEMMA FinishDropsNone ==
  ASSUME Cardinality(Msg) <= Retention, TypeOK, NEW h \in Msg, NEW s \in Status, Finish(h, s)
  PROVE  NoneEvicted
<1>1. WithStatus(recs[h], s).status # "absent"
  BY DEF WithStatus, Status, Unfinished, Terminal
<1>2. CASE recs' \in Trimmed([recs EXCEPT ![h] = WithStatus(recs[h], s)])
  BY <1>1, <1>2, ChangeDropsNone
<1>3. CASE recs' = recs
  BY <1>3 DEF NoneEvicted
<1> QED
  BY <1>2, <1>3 DEF Finish

LEMMA StepDropsNone ==
  ASSUME Cardinality(Msg) <= Retention, TypeOK, Next \/ UNCHANGED vars
  PROVE  NoneEvicted
<1>1. CASE recs' = recs
  BY <1>1 DEF NoneEvicted
<1>2. CASE Tick
  BY <1>2 DEF Tick, AgedRecord, NoneEvicted
<1>3. ASSUME NEW c \in Configs, BeginSave(c)
      PROVE  NoneEvicted
  BY <1>3 DEF BeginSave, HandOver, WithStatus, NoneEvicted
<1>4. CASE Scan
  <2> DEFINE x == [n \in Msg |-> IF \E i \in fetched : i.msg = n
                                THEN MarkedIgnored(recs[n]) ELSE recs[n]]
  <2>1. recs' = recs \/ recs' \in Trimmed(x)
    BY <1>4 DEF Scan
  <2>2. \A m \in Msg : recs[m].status # "absent" => x[m] = recs[m]
    BY DEF MarkedIgnored
  <2> HIDE DEF x
  <2>3. recs' \in Trimmed(x) => \A m \in Msg : recs'[m] = x[m]
    BY TrimDropsNone
  <2> QED
    BY <2>1, <2>2, <2>3 DEF NoneEvicted
<1>5. ASSUME NEW i \in todo, TakeRecoverable(i) \/ TakeOverdue(i) \/ TakeMention(i)
      PROVE  NoneEvicted
  <2>1. i.msg \in Msg
    BY DEF TypeOK, RunTypeOK, Item
  <2>2. PICK r \in {WithStatus(recs[i.msg], "needs_manual"), NewRecord} :
          recs' = recs \/ recs' \in Trimmed([recs EXCEPT ![i.msg] = r])
    BY <1>5 DEF TakeRecoverable, TakeOverdue, TakeMention
  <2>3. r.status # "absent"
    BY DEF WithStatus, NewRecord
  <2>4. recs' \in Trimmed([recs EXCEPT ![i.msg] = r]) => NoneEvicted
    BY <2>1, <2>3, ChangeDropsNone
  <2> QED
    BY <1>1, <2>2, <2>4
<1>6. CASE Entry \/ ReadHistory \/ ReadLatestConfig \/ RecheckHistory
  <2>1. pc \in JobSteps \cup {"entry"}
    BY <1>6 DEF Entry, ReadHistory, ReadLatestConfig, RecheckHistory, JobSteps
  <2>2. PICK v \in {"proceed", "needs_manual", "recalled", "ignored", "dry_run"},
             step \in {"history", "latest", "recheck", "claim"} : Decide(v, step)
    BY <1>6 DEF Entry, ReadHistory, ReadLatestConfig, RecheckHistory, EntryVerdict,
       HistoryVerdicts, LookupVerdicts, Composed
  <2>3. v # "proceed" => Settled(v) \in Status
    BY DEF Settled, Status, Terminal
  <2> QED
    BY <1>1, <2>1, <2>2, <2>3, JobTyped, FinishDropsNone DEF Decide
<1>7. CASE Claim
  <2>1. pc \in JobSteps
    BY <1>7 DEF Claim, JobSteps
  <2>2. cur.msg \in Msg
    BY <2>1, JobTyped
  <2>3. ClaimVerdict # "proceed" => Settled(ClaimVerdict) \in Status
    BY DEF ClaimVerdict, Settled, Status, Terminal
  <2>4. Claimed(recs[cur.msg]).status # "absent"
    BY DEF Claimed
  <2>5. recs' \in Trimmed([recs EXCEPT ![cur.msg] = Claimed(recs[cur.msg])]) => NoneEvicted
    BY <2>2, <2>4, ChangeDropsNone
  <2>6. ClaimVerdict # "proceed" /\ Finish(cur.msg, Settled(ClaimVerdict)) => NoneEvicted
    BY <2>2, <2>3, FinishDropsNone
  <2> QED
    BY <1>1, <1>7, <2>5, <2>6 DEF Claim
<1>8. CASE Guard
  <2>1. pc \in JobSteps
    BY <1>8 DEF Guard, JobSteps
  <2>2. GuardVerdict # "proceed" => Settled(GuardVerdict) \in Status
    BY DEF GuardVerdict, Settled, Status, Terminal
  <2> QED
    BY <1>1, <1>8, <2>1, <2>2, JobTyped, FinishDropsNone DEF Guard
<1>9. CASE (CallSucceeds \/ CallFails \/ StoreFails) /\ recs' # recs
  <2>1. pc \in JobSteps
    BY <1>9, CallMoves, StoreFailsMoves DEF JobSteps
  <2>2. PICK s \in {"sent", "sending", "needs_manual"} : Finish(cur.msg, s)
    BY <1>9, CallMoves, StoreFailsMoves
  <2>3. s \in Status
    BY DEF Status, Unfinished, Terminal
  <2> QED
    BY <2>1, <2>2, <2>3, JobTyped, FinishDropsNone
<1>10. recs' = recs \/ Tick \/ (\E c \in Configs : BeginSave(c)) \/ Scan \/ Process
       \/ StoreFails
  BY DEF Next, Platform, Post, Recall, Accept, Drop, Settings, PublishSave, PersistSave,
     FailSave, StopSave, ChangeAnswer, Run, StartRun, FetchMentions, FetchFails,
     MarkInitialized, TakeSnapshot, NextPhase, EndRun, Crash, Restart, storeVars, vars
<1> QED
  BY <1>1, <1>2, <1>3, <1>4, <1>5, <1>6, <1>7, <1>8, <1>9, <1>10, ServeWindowMoves
  DEF Process

(***************************************************************************)
(* Two requests for one message are never outstanding together, without a  *)
(* condition on the behaviour, as long as the outbox has room for every    *)
(* message (TERMINAL_REPLY_RETENTION records).                             *)
(***************************************************************************)
THEOREM AttemptsApartUntilFull ==
  ASSUME Flight < Lease, Cardinality(Msg) <= Retention
  PROVE  Spec => []OneRequestPerMessage
<1>1. Init => RequestedKept /\ FreshLease
  BY DEF Init, RequestedKept, FreshLease
<1>2. TypeOK /\ RequestedKept /\ FreshLease /\ [Next]_vars => RequestedKept' /\ FreshLease'
  <2> SUFFICES ASSUME TypeOK, RequestedKept, FreshLease, Next \/ UNCHANGED vars
               PROVE  RequestedKept' /\ FreshLease'
    OBVIOUS
  <2>1. \A w \in wire : w.msg \in Msg
    BY DEF TypeOK, PlatformTypeOK, Request
  <2>2. CASE Guard
    <3>1. pc = "guard" /\ pc \in JobSteps
      BY <2>2 DEF Guard, JobSteps
    <3>2. cur.msg \in Msg /\ recs[cur.msg].status # "absent"
      BY <3>1, JobTyped DEF FreshLease
    <3>3. \A w \in wire' : w \in wire \/ w.msg = cur.msg
      BY <2>2 DEF Guard
    <3> QED
      BY <2>1, <3>2, <3>3, StepDropsNone, FreshLeaseStep DEF NoneEvicted, RequestedKept
  <2>3. CASE ~Guard
    BY <2>1, <2>3, GuardRequests, StepDropsNone, FreshLeaseStep DEF NoneEvicted, RequestedKept
  <2> QED
    BY <2>2, <2>3
<1> QED
  BY <1>1, <1>2, AttemptsApart, TypeCorrect, PTL DEF Spec
=============================================================================
