---------------------------- MODULE AttemptProofs ----------------------------
(***************************************************************************)
(* The records of the worker, for every number of messages, groups and     *)
(* faults.  Retries are bounded (RetriesBounded); a trim never drops a     *)
(* record that is unfinished or counted (ProtectedStay); the hourly limit  *)
(* is kept (WithinHourlyLimit); and the records implement what ReplyPromise*)
(* says of each message (PromiseKept).                                     *)
(***************************************************************************)
EXTENDS DeliveryProofs

(* A change of a record that makes no attempt: none is counted and none is *)
(* reopened.                                                               *)
Milder(r, t) ==
  /\ t.attempts <= r.attempts
  /\ t.status \in Unfinished => r.status \in Unfinished \/ t.attempts = 0

LEMMA MilderChanges ==
  ASSUME NEW r \in Record
  PROVE  /\ Milder(r, r)
         /\ Milder(r, Absent)
         /\ Milder(r, NewRecord)
         /\ Milder(r, AgedRecord(r))
         /\ Milder(r, MarkedIgnored(r))
         /\ \A s \in Terminal : Milder(r, WithStatus(r, s))
         /\ r.status \in Unfinished => \A s \in Status : Milder(r, WithStatus(r, s))
<1>1. r.attempts \in Nat
  BY DEF Record
<1>2. Absent.attempts = 0 /\ Absent.status \notin Unfinished
  BY DEF Absent, Unfinished
<1>3. NewRecord.attempts = 0
  BY DEF NewRecord
<1>4. AgedRecord(r).attempts = r.attempts /\ AgedRecord(r).status = r.status
  BY DEF AgedRecord
<1>5. \A s : WithStatus(r, s).attempts = r.attempts /\ WithStatus(r, s).status = s
  BY DEF WithStatus
<1>6. \A s \in Terminal : s \notin Unfinished
  BY DEF Terminal, Unfinished
<1>7. WithStatus(NewRecord, "ignored").attempts = 0
      /\ WithStatus(NewRecord, "ignored").status = "ignored"
  BY DEF WithStatus, NewRecord
<1>8. Milder(r, MarkedIgnored(r))
  BY <1>1, <1>7 DEF MarkedIgnored, Milder, Unfinished
<1> QED
  BY <1>1, <1>2, <1>3, <1>4, <1>5, <1>6, <1>8 DEF Milder

(* Trimming after such a change is such a change. *)
LEMMA MilderTrim ==
  ASSUME NEW r \in [Msg -> Record], NEW x \in [Msg -> Record], NEW t \in Trimmed(x),
         \A m \in Msg : Milder(r[m], x[m])
  PROVE  \A m \in Msg : Milder(r[m], t[m])
BY TrimKeepsOrDrops, MilderChanges

(* A step that makes no attempt and does not let go of an attempted record. *)
LEMMA MilderKeepsInv ==
  ASSUME TypeOK, TypeOK', AttemptsInv,
         faults' = faults \/ faults' = faults + 1,
         \A m \in Msg : Milder(recs[m], recs'[m]),
         \A m \in Msg : InFlight(m) /\ ~InFlight(m)' =>
           \/ recs'[m].status \notin Unfinished
           \/ recs'[m].attempts < MaxAttempts
           \/ faults' = faults + 1
  PROVE  AttemptsInv'
<1> SUFFICES ASSUME NEW m \in Msg
             PROVE  /\ recs'[m].attempts <= MaxAttempts + faults'
                    /\ recs'[m].status \in Unfinished /\ ~InFlight(m)' =>
                         recs'[m].attempts < MaxAttempts + faults'
  BY DEF AttemptsInv
<1>1. recs[m].attempts \in Nat /\ recs'[m].attempts \in Nat /\ faults \in Nat
      /\ MaxAttempts \in Nat \ {0}
  BY WorkerAssumption DEF TypeOK, StoreTypeOK, JobTypeOK, Record
<1>2. Milder(recs[m], recs'[m])
  OBVIOUS
<1>3. recs'[m].attempts <= MaxAttempts + faults'
  BY <1>1, <1>2 DEF Milder, AttemptsInv
<1>4. ASSUME recs'[m].status \in Unfinished, ~InFlight(m)'
      PROVE  recs'[m].attempts < MaxAttempts + faults'
  <2>1. CASE recs'[m].attempts = 0
    BY <1>1, <2>1
  <2>2. CASE recs[m].status \in Unfinished /\ ~InFlight(m)
    BY <1>1, <1>2, <2>2 DEF Milder, AttemptsInv
  <2>3. CASE InFlight(m)
    BY <1>1, <1>2, <1>4, <2>3 DEF Milder, AttemptsInv
  <2> QED
    BY <1>2, <1>4, <2>1, <2>2, <2>3 DEF Milder
<1> QED
  BY <1>3, <1>4

(* Closing a record counts no attempt; keeping it open is left to records  *)
(* with attempts to spare.                                                 *)
LEMMA FinishAttempts ==
  ASSUME TypeOK, TypeOK', AttemptsInv, faults' = faults \/ faults' = faults + 1,
         pc \in JobSteps \cup {"entry"},
         NEW s \in Status, Finish(cur.msg, s),
         s \in Terminal \/ (s = "sending" /\ recs[cur.msg].attempts < MaxAttempts),
         s = "sent" => AllowedTransition(recs[cur.msg].status, s)
  PROVE  AttemptsInv'
<1> DEFINE c == cur.msg
<1>1. c \in Msg /\ recs[c] \in Record /\ recs \in [Msg -> Record]
  BY JobTyped DEF TypeOK, StoreTypeOK
<1>2. CASE AllowedTransition(recs[c].status, s)
  <2> DEFINE x == [recs EXCEPT ![c] = WithStatus(recs[c], s)]
  <2>1. recs' \in Trimmed(x)
    BY <1>2 DEF Finish
  <2>2. x \in [Msg -> Record]
    BY <1>1, RecordTypes
  <2>3. s = "sending" => recs[c].status \in Unfinished
    BY <1>2 DEF AllowedTransition, Unfinished
  <2>4. \A m \in Msg : Milder(recs[m], x[m])
    BY <1>1, <2>3, MilderChanges DEF Terminal, Status
  <2>5. \A m \in Msg : Milder(recs[m], recs'[m])
    BY <1>1, <2>1, <2>2, <2>4, MilderTrim
  <2>6. recs'[c] = WithStatus(recs[c], s) \/ recs'[c] = Absent
    <3>1. x[c] = WithStatus(recs[c], s)
      BY <1>1
    <3>2. recs'[c] = x[c] \/ recs'[c] = Absent
      BY <1>1, <2>1, TrimKeepsOrDrops
    <3> QED
      BY <3>1, <3>2
  <2>7. recs'[c].status \notin Unfinished \/ recs'[c].attempts < MaxAttempts
    BY <2>6 DEF WithStatus, Absent, Terminal, Unfinished
  <2>8. \A m \in Msg : InFlight(m) => m = c
    BY DEF InFlight
  <2> QED
    BY <2>5, <2>7, <2>8, MilderKeepsInv
<1>3. CASE ~AllowedTransition(recs[c].status, s)
  <2>1. recs' = recs
    BY <1>3 DEF Finish
  <2>2. recs[c].status \notin Unfinished
    BY <1>3 DEF AllowedTransition, Status, Unfinished, Terminal
  <2>3. \A m \in Msg : Milder(recs[m], recs'[m])
    BY <1>1, <2>1, MilderChanges
  <2>4. \A m \in Msg : InFlight(m) => m = c
    BY DEF InFlight
  <2> QED
    BY <2>1, <2>2, <2>3, <2>4, MilderKeepsInv
<1> QED
  BY <1>2, <1>3

LEMMA DecideAttempts ==
  ASSUME TypeOK, TypeOK', AttemptsInv, UNCHANGED faults,
         pc \in (JobSteps \ {"guard", "call"}) \cup {"entry"},
         NEW v \in {"proceed", "needs_manual", "recalled", "ignored", "dry_run"},
         NEW step \in JobSteps, Decide(v, step)
  PROVE  AttemptsInv'
<1>1. CASE v = "proceed"
  <2>1. recs' = recs
    BY <1>1 DEF Decide
  <2>2. \A m \in Msg : recs[m] \in Record /\ ~InFlight(m)
    BY DEF TypeOK, StoreTypeOK, InFlight
  <2> QED
    BY <2>1, <2>2, MilderChanges, MilderKeepsInv
<1>2. CASE v # "proceed"
  <2>1. Finish(cur.msg, Settled(v))
    BY <1>2 DEF Decide
  <2>2. Settled(v) \in Terminal \ {"sent"} /\ Settled(v) \in Status
    BY <1>2 DEF Settled, Terminal, Status
  <2> QED
    BY <2>1, <2>2, FinishAttempts
<1> QED
  BY <1>1, <1>2

(* The worker's own steps. *)
LEMMA ProcessAttempts ==
  ASSUME TypeOK, TypeOK', AttemptsInv, Process
  PROVE  AttemptsInv'
<1>a. \A m \in Msg : recs[m] \in Record
  BY DEF TypeOK, StoreTypeOK
<1>b. \A m \in Msg : pc \notin {"guard", "call"} => ~InFlight(m)
  BY DEF InFlight
<1>1. ASSUME NEW i \in todo, TakeRecoverable(i)
      PROVE  AttemptsInv'
  BY <1>1, <1>a, <1>b, MilderChanges, MilderKeepsInv DEF TakeRecoverable, Outside
<1>2. ASSUME NEW i \in todo, TakeOverdue(i)
      PROVE  AttemptsInv'
  <2>1. i.msg \in Msg /\ recs \in [Msg -> Record]
    BY DEF TypeOK, RunTypeOK, StoreTypeOK, Item
  <2>2. CASE AllowedTransition(recs[i.msg].status, "needs_manual")
    <3> DEFINE x == [recs EXCEPT ![i.msg] = WithStatus(recs[i.msg], "needs_manual")]
    <3>1. "needs_manual" \in Terminal /\ "needs_manual" \in Status
      BY DEF Terminal, Status
    <3>2. recs' \in Trimmed(x)
      BY <1>2, <2>2 DEF TakeOverdue
    <3>3. x \in [Msg -> Record] /\ \A m \in Msg : Milder(recs[m], x[m])
      BY <2>1, <3>1, RecordTypes, MilderChanges
    <3>4. \A m \in Msg : Milder(recs[m], recs'[m])
      BY <2>1, <3>2, <3>3, MilderTrim
    <3> QED
      BY <1>2, <1>b, <3>4, MilderKeepsInv DEF TakeOverdue, Outside
  <2>3. CASE ~AllowedTransition(recs[i.msg].status, "needs_manual")
    BY <1>2, <1>a, <1>b, <2>3, MilderChanges, MilderKeepsInv DEF TakeOverdue, Outside
  <2> QED
    BY <2>2, <2>3
<1>3. ASSUME NEW i \in todo, TakeMention(i)
      PROVE  AttemptsInv'
  <2>1. i.msg \in Msg /\ recs \in [Msg -> Record]
    BY DEF TypeOK, RunTypeOK, StoreTypeOK, Item
  <2> DEFINE x == [recs EXCEPT ![i.msg] = NewRecord]
  <2>2. recs' \in Trimmed(x) \/ recs' = recs
    BY <1>3 DEF TakeMention
  <2>3. x \in [Msg -> Record] /\ \A m \in Msg : Milder(recs[m], x[m])
    BY <2>1, RecordTypes, MilderChanges
  <2>4. \A m \in Msg : Milder(recs[m], recs'[m])
    BY <2>1, <2>2, <2>3, <1>a, MilderTrim, MilderChanges
  <2> QED
    BY <1>3, <1>b, <2>4, MilderKeepsInv DEF TakeMention, Outside
<1>4. ASSUME Entry
      PROVE  AttemptsInv'
  <2>1. EntryVerdict \in {"proceed", "needs_manual", "recalled", "ignored", "dry_run"}
    BY DEF EntryVerdict
  <2> QED
    BY <1>4, <2>1, DecideAttempts DEF Entry, Outside, JobSteps
<1>5. ASSUME ReadHistory
      PROVE  AttemptsInv'
  <2>1. HistoryVerdicts \subseteq {"proceed", "needs_manual", "recalled", "ignored", "dry_run"}
    BY DEF HistoryVerdicts, LookupVerdicts, Composed
  <2> QED
    BY <1>5, <2>1, DecideAttempts DEF ReadHistory, Outside, JobSteps
<1>6. ASSUME ReadLatestConfig
      PROVE  AttemptsInv'
  <2>1. PICK v \in {"ignored", "needs_manual", "dry_run", "proceed"} : Decide(v, "recheck")
    BY <1>6 DEF ReadLatestConfig
  <2> QED
    BY <1>6, <2>1, DecideAttempts DEF ReadLatestConfig, Outside, JobSteps
<1>7. ASSUME RecheckHistory
      PROVE  AttemptsInv'
  <2>1. LookupVerdicts("proceed") \subseteq {"proceed", "needs_manual", "recalled"}
    BY DEF LookupVerdicts
  <2> QED
    BY <1>7, <2>1, DecideAttempts DEF RecheckHistory, Outside, JobSteps
<1>8. ASSUME Claim
      PROVE  AttemptsInv'
  <2>1. pc = "claim" /\ pc \in JobSteps \cup {"entry"} /\ UNCHANGED faults
    BY <1>8 DEF Claim, Outside, JobSteps
  <2>2. cur.msg \in Msg /\ recs \in [Msg -> Record] /\ recs[cur.msg] \in Record
    BY <2>1, JobTyped DEF TypeOK, StoreTypeOK
  <2>3. CASE ClaimVerdict = "proceed" /\ AllowedTransition(recs[cur.msg].status, "sending")
    <3> DEFINE x == [recs EXCEPT ![cur.msg] = Claimed(recs[cur.msg])]
    <3>1. recs' \in Trimmed(x) /\ pc' = "guard" /\ cur' = cur
      BY <1>8, <2>3 DEF Claim
    <3>2. recs[cur.msg].status \in Unfinished
      BY <2>3 DEF AllowedTransition, Unfinished
    <3>3. recs[cur.msg].attempts < MaxAttempts + faults
      BY <2>1, <2>2, <3>2 DEF AttemptsInv, InFlight
    <3>4. ASSUME NEW m \in Msg, m # cur.msg
          PROVE  /\ recs'[m].attempts <= MaxAttempts + faults'
                 /\ recs'[m].status \in Unfinished =>
                      recs'[m].attempts < MaxAttempts + faults'
      <4>1. recs'[m] = recs[m] \/ recs'[m] = Absent
        <5>1. x[m] = recs[m]
          BY <2>2, <3>4
        <5>2. recs'[m] = x[m] \/ recs'[m] = Absent
          BY <3>1, TrimKeepsOrDrops
        <5> QED
          BY <5>1, <5>2
      <4>2. MaxAttempts \in Nat \ {0} /\ faults \in Nat
        BY WorkerAssumption DEF TypeOK, JobTypeOK
      <4> QED
        BY <2>1, <4>1, <4>2 DEF AttemptsInv, InFlight, Absent
    <3>5. InFlight(cur.msg)'
      BY <3>1 DEF InFlight
    <3>6. recs'[cur.msg].attempts <= MaxAttempts + faults'
      <4>1. x[cur.msg] = Claimed(recs[cur.msg])
        BY <2>2
      <4>2. recs'[cur.msg] = Claimed(recs[cur.msg]) \/ recs'[cur.msg] = Absent
        BY <2>2, <3>1, <4>1, TrimKeepsOrDrops
      <4>3. MaxAttempts \in Nat \ {0} /\ faults \in Nat /\ recs[cur.msg].attempts \in Nat
        BY <2>2, WorkerAssumption DEF TypeOK, JobTypeOK, Record
      <4> QED
        BY <2>1, <3>3, <4>2, <4>3 DEF Claimed, Absent
    <3> QED
      BY <3>1, <3>4, <3>5, <3>6 DEF AttemptsInv
  <2>4. CASE ClaimVerdict = "proceed" /\ ~AllowedTransition(recs[cur.msg].status, "sending")
    BY <1>8, <1>a, <1>b, <2>1, <2>4, MilderChanges, MilderKeepsInv DEF Claim
  <2>5. CASE ClaimVerdict # "proceed"
    <3>1. Settled(ClaimVerdict) \in Terminal \ {"sent"} /\ Settled(ClaimVerdict) \in Status
      BY <2>5 DEF ClaimVerdict, Settled, Terminal, Status
    <3>2. Finish(cur.msg, Settled(ClaimVerdict))
      BY <1>8, <2>5 DEF Claim
    <3> QED
      BY <2>1, <3>1, <3>2, FinishAttempts
  <2> QED
    BY <2>3, <2>4, <2>5
<1>9. ASSUME Guard
      PROVE  AttemptsInv'
  <2>1. pc = "guard" /\ pc \in JobSteps \cup {"entry"} /\ UNCHANGED faults
    BY <1>9 DEF Guard, JobSteps
  <2>2. CASE GuardVerdict = "proceed"
    <3>1. recs' = recs /\ \A m \in Msg : InFlight(m) => InFlight(m)'
      BY <1>9, <2>2 DEF Guard, InFlight
    <3> QED
      BY <1>a, <2>1, <3>1, MilderChanges, MilderKeepsInv
  <2>3. CASE GuardVerdict # "proceed"
    <3>1. Settled(GuardVerdict) \in Terminal \ {"sent"} /\ Settled(GuardVerdict) \in Status
      BY <2>3 DEF GuardVerdict, Settled, Terminal, Status
    <3>2. Finish(cur.msg, Settled(GuardVerdict))
      BY <1>9, <2>3 DEF Guard
    <3> QED
      BY <2>1, <3>1, <3>2, FinishAttempts
  <2> QED
    BY <2>2, <2>3
<1>10. ASSUME CallSucceeds
       PROVE  AttemptsInv'
  <2>1. Finish(cur.msg, "sent") /\ "sent" \in Terminal /\ "sent" \in Status
    BY <1>10 DEF CallSucceeds, Finish, Status, Terminal
  <2>2. pc \in JobSteps \cup {"entry"} /\ UNCHANGED faults
        /\ AllowedTransition(recs[cur.msg].status, "sent")
    BY <1>10 DEF CallSucceeds, JobSteps
  <2> QED
    BY <2>1, <2>2, FinishAttempts
<1>11. ASSUME CallFails
       PROVE  AttemptsInv'
  <2>1. pc = "call" /\ pc \in JobSteps \cup {"entry"} /\ UNCHANGED faults
    BY <1>11 DEF CallFails, Outside, JobSteps
  <2>2. recs[cur.msg].attempts \in Nat /\ MaxAttempts \in Nat
    BY <2>1, JobTyped, WorkerAssumption DEF Record
  <2>3. PICK s \in {"needs_manual", "sending"} :
          /\ Finish(cur.msg, s)
          /\ s = "sending" => recs[cur.msg].attempts < MaxAttempts
    BY <1>11, <2>2 DEF CallFails, RetryLater, AttemptsExhausted
  <2>4. s \in Status /\ (s \in Terminal \/ s = "sending") /\ s # "sent"
    BY DEF Status, Terminal, Unfinished
  <2> QED
    BY <2>1, <2>3, <2>4, FinishAttempts
<1>12. ASSUME NEW m \in windows, ServeWindow(m)
       PROVE  AttemptsInv'
  <2>1. recs' = recs /\ pc = "next" /\ UNCHANGED faults
    BY <1>12 DEF ServeWindow
  <2> QED
    BY <1>a, <1>b, <2>1, MilderChanges, MilderKeepsInv
<1> QED
  BY <1>1, <1>2, <1>3, <1>4, <1>5, <1>6, <1>7, <1>8, <1>9, <1>10, <1>11, <1>12 DEF Process

(* A failed write is a fault: it pays for the attempt that its record keeps. *)
LEMMA StoreFailsAttempts ==
  ASSUME TypeOK, TypeOK', AttemptsInv, StoreFails
  PROVE  AttemptsInv'
<1>1. faults' = faults + 1
  BY DEF StoreFails
<1>2. CASE recs' = recs
  BY <1>1, <1>2, MilderChanges, MilderKeepsInv DEF TypeOK, StoreTypeOK
<1>3. CASE pc = "guard" /\ RetryLater(cur.msg)
  <2>1. pc \in JobSteps \cup {"entry"}
    BY <1>3 DEF JobSteps
  <2>2. recs[cur.msg].attempts \in Nat /\ MaxAttempts \in Nat
    BY <2>1, JobTyped, WorkerAssumption DEF Record
  <2>3. PICK s \in {"needs_manual", "sending"} :
          /\ Finish(cur.msg, s)
          /\ s = "sending" => recs[cur.msg].attempts < MaxAttempts
    BY <1>3, <2>2 DEF RetryLater, AttemptsExhausted
  <2>4. s \in Status /\ (s \in Terminal \/ s = "sending") /\ s # "sent"
    BY DEF Status, Terminal, Unfinished
  <2> QED
    BY <1>1, <2>1, <2>3, <2>4, FinishAttempts
<1> QED
  BY <1>2, <1>3 DEF StoreFails

(* The steps of the platform, the settings and the run. *)
LEMMA OthersAttempts ==
  ASSUME TypeOK, TypeOK', AttemptsInv,
         Platform \/ Settings \/ Run \/ Crash \/ Restart
  PROVE  AttemptsInv'
<1>a. \A m \in Msg : recs[m] \in Record
  BY DEF TypeOK, StoreTypeOK
<1>b. \A m \in Msg : pc \notin {"guard", "call"} => ~InFlight(m)
  BY DEF InFlight
<1>c. pc' = pc /\ cur' = cur => \A m \in Msg : InFlight(m) => InFlight(m)'
  BY DEF InFlight
<1>1. CASE Platform
  <2>1. ASSUME Tick
        PROVE  AttemptsInv'
    <3>1. \A m \in Msg : recs'[m] = AgedRecord(recs[m])
      BY <2>1 DEF Tick
    <3>2. \A m \in Msg : Milder(recs[m], recs'[m])
      BY <1>a, <3>1, MilderChanges
    <3> QED
      BY <2>1, <1>c, <3>2, MilderKeepsInv DEF Tick, runVars
  <2>2. ASSUME ~Tick
        PROVE  AttemptsInv'
    <3>1. recs' = recs /\ pc' = pc /\ cur' = cur /\ faults' = faults
      BY <1>1, <2>2 DEF Platform, Post, Recall, Accept, Drop, storeVars, jobVars
    <3> QED
      BY <1>a, <1>c, <3>1, MilderChanges, MilderKeepsInv
  <2> QED
    BY <2>1, <2>2
<1>2. CASE Settings
  <2>1. pc' = pc /\ cur' = cur /\ faults' = faults
    BY <1>2 DEF Settings, BeginSave, PublishSave, PersistSave, FailSave, StopSave,
       ChangeAnswer, jobVars
  <2>2. ASSUME NEW m \in Msg
        PROVE  recs'[m] = recs[m] \/ recs'[m] = WithStatus(recs[m], "needs_manual")
    BY <1>2 DEF Settings, BeginSave, HandOver, PublishSave, PersistSave, FailSave,
       StopSave, ChangeAnswer, storeVars
  <2>3. "needs_manual" \in Terminal
    BY DEF Terminal
  <2>4. \A m \in Msg : Milder(recs[m], recs'[m])
    BY <1>a, <2>2, <2>3, MilderChanges
  <2> QED
    BY <1>c, <2>1, <2>4, MilderKeepsInv
<1>3. CASE Run
  <2>1. pc \notin {"guard", "call"} /\ faults' = faults
    BY <1>3 DEF Run, StartRun, FetchMentions, FetchFails, Scan, MarkInitialized,
       TakeSnapshot, NextPhase, EndRun
  <2>2. \A m \in Msg : Milder(recs[m], recs'[m])
    <3>1. CASE Scan
      <4> DEFINE x == [m \in Msg |-> IF \E i \in fetched : i.msg = m
                                    THEN MarkedIgnored(recs[m]) ELSE recs[m]]
      <4>1. recs' = recs \/ recs' \in Trimmed(x)
        BY <3>1 DEF Scan
      <4>2. \A r \in Record : MarkedIgnored(r) \in Record
        BY RecordTypes DEF MarkedIgnored, Status, Terminal
      <4>3. x \in [Msg -> Record] /\ \A m \in Msg : Milder(recs[m], x[m])
        BY <1>a, <4>2, MilderChanges
      <4>4. recs \in [Msg -> Record]
        BY DEF TypeOK, StoreTypeOK
      <4> QED
        BY <1>a, <4>1, <4>3, <4>4, MilderTrim, MilderChanges
    <3>2. CASE ~Scan
      <4>1. recs' = recs
        BY <1>3, <3>2 DEF Run, StartRun, FetchMentions, FetchFails, MarkInitialized,
           TakeSnapshot, NextPhase, EndRun, storeVars
      <4> QED
        BY <1>a, <4>1, MilderChanges
    <3> QED
      BY <3>1, <3>2
  <2> QED
    BY <1>b, <2>1, <2>2, MilderKeepsInv
<1>4. CASE Crash
  <2>1. recs' = recs /\ faults' = faults + 1
    BY <1>4 DEF Crash, storeVars
  <2> QED
    BY <1>a, <2>1, MilderChanges, MilderKeepsInv
<1>5. CASE Restart
  <2>1. recs' = recs /\ faults' = faults /\ pc = "down"
    BY <1>5 DEF Restart, storeVars
  <2> QED
    BY <1>a, <1>b, <2>1, MilderChanges, MilderKeepsInv
<1> QED
  BY <1>1, <1>2, <1>3, <1>4, <1>5

LEMMA AttemptsInit == Init => AttemptsInv
BY WorkerAssumption DEF Init, AttemptsInv, Absent, Unfinished

LEMMA AttemptsStep == TypeOK /\ TypeOK' /\ AttemptsInv /\ [Next]_vars => AttemptsInv'
<1> SUFFICES ASSUME TypeOK, TypeOK', AttemptsInv, [Next]_vars PROVE AttemptsInv'
  OBVIOUS
<1>1. CASE UNCHANGED vars
  <2>1. UNCHANGED <<recs, pc, cur, faults>>
    BY <1>1 DEF vars, storeVars, jobVars
  <2> QED
    BY <2>1 DEF AttemptsInv, InFlight
<1>2. CASE Next
  BY <1>2, ProcessAttempts, StoreFailsAttempts, OthersAttempts DEF Next
<1> QED
  BY <1>1, <1>2

(***************************************************************************)
(* The attempts of a record never exceed MaxAttempts by more than the      *)
(* faults: every attempt beyond is one that a crash, or a failed write,    *)
(* kept the worker from closing (processRecord's catch clause, setStatus). *)
(***************************************************************************)
THEOREM RetriesBounded == Spec => []AttemptsBounded
<1>1. AttemptsInv => AttemptsBounded
  BY DEF AttemptsInv, AttemptsBounded
<1> QED
  BY <1>1, AttemptsInit, AttemptsStep, TypeCorrect, PTL DEF Spec
-----------------------------------------------------------------------------
(* What a trim spares.                                                      *)

Spared(m) ==
  \/ recs[m].status = "sent" /\ Reserves(recs[m])
  \/ recs[m].status \in Unfinished /\ ~InHand(m)

(* A trim after a change of the record in hand. *)
LEMMA ChangeSpares ==
  ASSUME TypeOK, NEW h \in Msg, NEW r, NEW m \in Msg, Spared(m),
         recs' \in Trimmed([recs EXCEPT ![h] = r]),
         m = h => r.status \in Unfinished \/ (r.status = "sent" /\ Reserves(r))
  PROVE  recs'[m].status # "absent"
<1> DEFINE x == [recs EXCEPT ![h] = r]
<1>1. x[h] = r /\ (m # h => x[m] = recs[m])
  BY DEF TypeOK, StoreTypeOK
<1>2. x[m].status \in Unfinished \/ (x[m].status = "sent" /\ Reserves(x[m]))
  BY <1>1 DEF Spared
<1>3. recs'[m] = x[m]
  BY <1>2, TrimSpares
<1> QED
  BY <1>2, <1>3 DEF Unfinished

LEMMA FinishSpares ==
  ASSUME TypeOK, NEW h \in Msg, NEW s \in Status, Finish(h, s), InHand(h),
         NEW m \in Msg, Spared(m)
  PROVE  recs'[m].status # "absent"
<1>1. CASE AllowedTransition(recs[h].status, s)
  <2> DEFINE r == WithStatus(recs[h], s)
  <2>1. recs' \in Trimmed([recs EXCEPT ![h] = r])
    BY <1>1 DEF Finish
  <2>2. m = h => s = "sent"
    BY <1>1 DEF Spared, AllowedTransition
  <2>3. s = "sent" => r.status = "sent" /\ Reserves(r)
    BY OutboxAssumption DEF WithStatus, Reserves
  <2> QED
    BY <2>1, <2>2, <2>3, ChangeSpares
<1>2. CASE recs' = recs
  BY <1>2 DEF Spared, Unfinished
<1> QED
  BY <1>1, <1>2 DEF Finish

LEMMA DecideSpares ==
  ASSUME TypeOK, pc \in JobSteps \cup {"entry"},
         NEW v \in Status \cup {"proceed"}, NEW step, Decide(v, step), NEW m \in Msg, Spared(m)
  PROVE  recs'[m].status # "absent"
<1>1. InHand(cur.msg) /\ cur.msg \in Msg
  BY JobTyped, WorkerAssumption DEF InHand
<1> QED
  BY <1>1, FinishSpares, SettledType DEF Decide, Spared, Unfinished

(***************************************************************************)
(* Whatever record the worker writes, trimming removes no send the hourly  *)
(* limit counts and no unfinished record but the one being closed          *)
(* (trimReplies, called by every update of the state document).            *)
(***************************************************************************)
THEOREM ProtectedStay == Spec => ProtectedNeverEvicted
<1>1. ASSUME TypeOK, Next, NEW m \in Msg, Spared(m)
      PROVE  recs'[m].status # "absent"
  <2>0. recs[m].status # "absent"
    BY <1>1 DEF Spared, Unfinished
  <2>1. CASE recs' = recs
    BY <2>0, <2>1
  <2>2. CASE Tick
    BY <2>0, <2>2 DEF Tick, AgedRecord
  <2>3. ASSUME NEW c \in Configs, BeginSave(c)
        PROVE  recs'[m].status # "absent"
    BY <2>0, <2>3 DEF BeginSave, HandOver, WithStatus
  <2>4. CASE Scan
    <3> DEFINE x == [n \in Msg |-> IF \E i \in fetched : i.msg = n
                                  THEN MarkedIgnored(recs[n]) ELSE recs[n]]
    <3>1. recs' = recs \/ recs' \in Trimmed(x)
      BY <2>4 DEF Scan
    <3>2. x[m] = recs[m]
      BY <2>0 DEF MarkedIgnored
    <3>3. recs[m].status \in Unfinished \/ Reserves(recs[m])
      BY <1>1 DEF Spared
    <3> QED
      BY <2>0, <3>1, <3>2, <3>3, TrimSpares
  <2>5. ASSUME NEW i \in todo, TakeRecoverable(i) \/ TakeOverdue(i) \/ TakeMention(i)
        PROVE  recs'[m].status # "absent"
    <3>1. i.msg \in Msg /\ (i.overdue => InHand(i.msg))
      BY <1>1 DEF TypeOK, RunTypeOK, Item, InHand
    <3>2. CASE TakeOverdue(i) /\ recs' # recs
      <4>1. /\ AllowedTransition(recs[i.msg].status, "needs_manual")
            /\ recs' \in Trimmed([recs EXCEPT ![i.msg] = WithStatus(recs[i.msg], "needs_manual")])
        BY <3>2 DEF TakeOverdue
      <4>2. i.msg # m
        BY <1>1, <3>1, <3>2, <4>1 DEF Spared, AllowedTransition, TakeOverdue
      <4> QED
        BY <1>1, <3>1, <4>1, <4>2, ChangeSpares
    <3>3. CASE TakeMention(i) /\ recs' # recs
      <4>1. recs[i.msg].status = "absent" /\ recs' \in Trimmed([recs EXCEPT ![i.msg] = NewRecord])
        BY <3>3 DEF TakeMention
      <4> QED
        BY <1>1, <2>0, <3>1, <4>1, ChangeSpares
    <3> QED
      BY <2>1, <2>5, <3>2, <3>3 DEF TakeRecoverable
  <2>6. CASE Claim
    <3>1. pc = "claim" /\ pc \in JobSteps
      BY <2>6 DEF Claim, JobSteps
    <3>2. InHand(cur.msg) /\ cur.msg \in Msg
      BY <1>1, <3>1, JobTyped, WorkerAssumption DEF InHand
    <3>3. ClaimVerdict # "proceed" => ClaimVerdict \in Status
      BY DEF ClaimVerdict, Status, Terminal
    <3>4. CASE ClaimVerdict # "proceed"
      BY <1>1, <2>6, <3>2, <3>3, <3>4, FinishSpares, SettledType DEF Claim
    <3>5. CASE recs' \in Trimmed([recs EXCEPT ![cur.msg] = Claimed(recs[cur.msg])])
      BY <1>1, <3>2, <3>5, ChangeSpares DEF Claimed, Unfinished
    <3> QED
      BY <2>1, <2>6, <3>4, <3>5 DEF Claim
  <2>7. CASE Guard
    <3>1. pc \in JobSteps
      BY <2>7 DEF Guard, JobSteps
    <3>2. InHand(cur.msg) /\ cur.msg \in Msg
      BY <1>1, <3>1, JobTyped, WorkerAssumption DEF InHand
    <3>3. GuardVerdict # "proceed" => GuardVerdict \in Status
      BY DEF GuardVerdict, Status, Terminal
    <3> QED
      BY <1>1, <2>1, <2>7, <3>2, <3>3, FinishSpares, SettledType DEF Guard
  <2>8. CASE (CallSucceeds \/ CallFails \/ StoreFails) /\ recs' # recs
    <3>1. pc \in JobSteps
      BY <2>8, CallMoves, StoreFailsMoves DEF JobSteps
    <3>2. InHand(cur.msg) /\ cur.msg \in Msg
      BY <1>1, <3>1, JobTyped, WorkerAssumption DEF InHand
    <3>3. {"sent", "sending", "needs_manual"} \subseteq Status
      BY DEF Status, Unfinished, Terminal
    <3>4. \E s \in {"sent", "sending", "needs_manual"} : Finish(cur.msg, s)
      BY <2>8, CallMoves, StoreFailsMoves
    <3> QED
      BY <1>1, <3>2, <3>3, <3>4, FinishSpares
  <2>9. CASE Entry \/ ReadHistory \/ ReadLatestConfig \/ RecheckHistory
    <3>1. pc \in JobSteps \cup {"entry"}
      BY <2>9 DEF Entry, ReadHistory, ReadLatestConfig, RecheckHistory, JobSteps
    <3>2. PICK v \in Status \cup {"proceed"}, step \in JobSteps : Decide(v, step)
      BY <2>9 DEF Entry, ReadHistory, ReadLatestConfig, RecheckHistory, EntryVerdict,
         HistoryVerdicts, LookupVerdicts, Composed, Status, Terminal, JobSteps
    <3> QED
      BY <1>1, <3>1, <3>2, DecideSpares
  <2>10. recs' = recs \/ Tick \/ (\E c \in Configs : BeginSave(c)) \/ Scan \/ Process
         \/ StoreFails
    BY <1>1 DEF Next, Platform, Post, Recall, Accept, Drop, Settings, PublishSave, PersistSave,
       FailSave, StopSave, ChangeAnswer, Run, StartRun, FetchMentions, FetchFails,
       MarkInitialized, TakeSnapshot, NextPhase, EndRun, Crash, Restart, storeVars
  <2> QED
    BY <2>1, <2>2, <2>3, <2>4, <2>5, <2>6, <2>7, <2>8, <2>9, <2>10, ServeWindowMoves
    DEF Process
<1>2. TypeOK /\ [Next]_vars =>
        [\A m \in Msg :
           \/ recs[m].status = "sent" /\ Reserves(recs[m])
           \/ recs[m].status \in Unfinished /\ ~InHand(m)
           => recs'[m].status # "absent"]_vars
  BY <1>1 DEF Spared
<1> QED
  BY <1>2, TypeCorrect, PTL DEF Spec, ProtectedNeverEvicted
-----------------------------------------------------------------------------
(* The hourly limit.                                                        *)

Counted == {m \in Msg : recs[m].status \in {"sent", "sending"} /\ recs[m].since <= Hour}

(***************************************************************************)
(* Closing a record as sent, or keeping it open, refreshes its timestamp:  *)
(* the record whose call the worker is about to make or awaits must be     *)
(* counted already.                                                        *)
(***************************************************************************)
BudgetInv ==
  /\ HourlyReservation
  /\ pc \in {"guard", "call"} =>
       /\ recs[cur.msg].status \notin {"pending", "sent"}
       /\ recs[cur.msg].status = "sending" => recs[cur.msg].since <= busy

LEMMA CountedBesides ==
  ASSUME NEW m \in Msg
  PROVE  /\ ReservedBesides(recs, m) = Cardinality(Counted \ {m})
         /\ IsFiniteSet(Counted)
<1>1. {n \in Msg \ {m} : Reserves(recs[n])} = Counted \ {m}
  BY DEF Counted, Reserves
<1>2. IsFiniteSet(Counted)
  BY OutboxAssumption, FS_Subset DEF Counted
<1> QED
  BY <1>1, <1>2 DEF ReservedBesides

(* A step that lets no record be counted that was not. *)
Shrinks == \A m \in Msg : Reserves(recs'[m]) => Reserves(recs[m])

LEMMA ShrinkingKeepsLimit ==
  ASSUME TypeOK, HourlyReservation, Shrinks
  PROVE  HourlyReservation'
<1> DEFINE now == {m \in Msg : recs[m].status \in {"sent", "sending"} /\ recs[m].since <= Hour}
<1> DEFINE then == {m \in Msg : recs'[m].status \in {"sent", "sending"} /\ recs'[m].since <= Hour}
<1>1. then \subseteq now
  BY DEF Shrinks, Reserves
<1>2. IsFiniteSet(now) /\ IsFiniteSet(then) /\ Cardinality(then) <= Cardinality(now)
  <2>1. IsFiniteSet(now)
    BY OutboxAssumption, FS_Subset
  <2> QED
    BY <1>1, <2>1, FS_Subset
<1>3. Cardinality(then) \in Nat /\ Cardinality(now) \in Nat
  BY <1>2, FS_CardinalityType
<1>4. PICK c \in Configs : Cardinality(now) <= c.limit
  BY DEF HourlyReservation
<1>5. c.limit \in Nat
  BY WorkerAssumption DEF Config
<1>6. Cardinality(then) <= c.limit
  BY <1>2, <1>3, <1>4, <1>5
<1> QED
  BY <1>6 DEF HourlyReservation

(* The changes of a record that do not let it be counted. *)
LEMMA Uncounted ==
  ASSUME NEW r \in Record
  PROVE  /\ ~Reserves(Absent) /\ ~Reserves(NewRecord)
         /\ Reserves(AgedRecord(r)) => Reserves(r)
         /\ Reserves(MarkedIgnored(r)) => Reserves(r)
         /\ \A s : s \notin {"sent", "sending"} => ~Reserves(WithStatus(r, s))
<1>1. r.since \in 0..Window
  BY DEF Record
<1>2. Older(r.since) <= Hour => r.since <= Hour
  BY <1>1, OutboxAssumption DEF Older
<1>3. Reserves(AgedRecord(r)) => Reserves(r)
  BY <1>2 DEF Reserves, AgedRecord
<1> QED
  BY <1>3 DEF Reserves, Absent, NewRecord, MarkedIgnored, WithStatus

LEMMA TrimShrinks ==
  ASSUME TypeOK, NEW x, recs' \in Trimmed(x),
         \A m \in Msg : Reserves(x[m]) => Reserves(recs[m])
  PROVE  Shrinks
BY TrimKeepsOrDrops DEF Shrinks, Reserves, Absent

LEMMA FinishShrinks ==
  ASSUME TypeOK, NEW m \in Msg, NEW s \in Status, Finish(m, s),
         s \in {"sent", "sending"} /\ AllowedTransition(recs[m].status, s) => Reserves(recs[m])
  PROVE  Shrinks
<1>1. CASE AllowedTransition(recs[m].status, s)
  <2> DEFINE x == [recs EXCEPT ![m] = WithStatus(recs[m], s)]
  <2>1. recs' \in Trimmed(x) /\ recs[m] \in Record
    BY <1>1 DEF Finish, TypeOK, StoreTypeOK
  <2>2. \A n \in Msg : Reserves(x[n]) => Reserves(recs[n])
    BY <1>1, <2>1, Uncounted DEF TypeOK, StoreTypeOK
  <2> QED
    BY <2>1, <2>2, TrimShrinks
<1>2. CASE recs' = recs
  BY <1>2 DEF Shrinks
<1> QED
  BY <1>1, <1>2 DEF Finish

LEMMA DecideShrinks ==
  ASSUME TypeOK, pc \in JobSteps \cup {"entry"},
         NEW v \in {"proceed", "needs_manual", "recalled", "ignored", "dry_run"},
         NEW step, Decide(v, step)
  PROVE  Shrinks
<1>1. CASE v = "proceed"
  BY <1>1 DEF Decide, Shrinks
<1>2. CASE v # "proceed"
  <2>1. Settled(v) \in Status \ {"sent", "sending"}
    BY <1>2 DEF Settled, Status, Terminal
  <2> QED
    BY <1>2, <2>1, JobTyped, FinishShrinks DEF Decide
<1> QED
  BY <1>1, <1>2

(***************************************************************************)
(* Claiming counts one record more: fewer than the persisted limit were.   *)
(***************************************************************************)
LEMMA ClaimWithinLimit ==
  ASSUME TypeOK, HourlyReservation, Claim
  PROVE  HourlyReservation'
<1>1. pc \in JobSteps \cup {"entry"} /\ cur.msg \in Msg
  <2>1. pc \in JobSteps
    BY DEF Claim, JobSteps
  <2> QED
    BY <2>1, JobTyped
<1>2. CASE recs' \in Trimmed([recs EXCEPT ![cur.msg] = Claimed(recs[cur.msg])])
           /\ ClaimVerdict = "proceed"
  <2> DEFINE x == [recs EXCEPT ![cur.msg] = Claimed(recs[cur.msg])]
             then == {m \in Msg : recs'[m].status \in {"sent", "sending"} /\ recs'[m].since <= Hour}
             rest == Counted \ {cur.msg}
  <2>1. then \subseteq rest \cup {cur.msg}
    <3>1. \A m \in Msg \ {cur.msg} : x[m] = recs[m]
      BY DEF TypeOK, StoreTypeOK
    <3>2. \A m \in Msg \ {cur.msg} : recs'[m] = recs[m] \/ recs'[m] = Absent
      BY <1>2, <3>1, TrimKeepsOrDrops
    <3> QED
      BY <3>2 DEF Counted, Absent
  <2>2. IsFiniteSet(rest) /\ ReservedBesides(recs, cur.msg) = Cardinality(rest)
    BY <1>1, CountedBesides, FS_Subset
  <2>3. IsFiniteSet(rest \cup {cur.msg}) /\ Cardinality(rest \cup {cur.msg}) = Cardinality(rest) + 1
    BY <2>2, FS_AddElement
  <2>4. IsFiniteSet(then) /\ Cardinality(then) <= Cardinality(rest \cup {cur.msg})
    BY <2>1, <2>3, FS_Subset
  <2>5. Cardinality(rest) \in Nat /\ Cardinality(then) \in Nat
    BY <2>2, <2>4, FS_CardinalityType
  <2>6. stored \in Configs /\ stored.limit \in Nat
    BY WorkerAssumption DEF TypeOK, SettingsTypeOK, Config
  <2>7. ~(ReservedBesides(recs, cur.msg) >= stored.limit)
    BY <1>2 DEF ClaimVerdict
  <2>8. Cardinality(then) <= stored.limit
    BY <2>2, <2>3, <2>4, <2>5, <2>6, <2>7
  <2> QED
    BY <2>6, <2>8 DEF HourlyReservation
<1>3. CASE recs' = recs
  BY <1>3, ShrinkingKeepsLimit DEF Shrinks
<1>4. CASE ClaimVerdict # "proceed" /\ Finish(cur.msg, Settled(ClaimVerdict))
  <2>1. Settled(ClaimVerdict) \in Status \ {"sent", "sending"}
    BY <1>4 DEF ClaimVerdict, Settled, Status, Terminal
  <2> QED
    BY <1>1, <1>4, <2>1, FinishShrinks, ShrinkingKeepsLimit
<1> QED
  BY <1>2, <1>3, <1>4 DEF Claim

(* The record in flight is counted when its call returns. *)
LEMMA CallCounted ==
  ASSUME Stall <= Hour, TypeOK, JobOnTime, BudgetInv, pc = "call",
         recs[cur.msg].status = "sending"
  PROVE  Reserves(recs[cur.msg])
<1>1. pc \in JobSteps /\ cur.msg \in Msg
  <2>1. pc \in JobSteps
    BY DEF JobSteps
  <2> QED
    BY <2>1, JobTyped
<1>2. recs[cur.msg].since \in Nat /\ busy \in Nat
  BY <1>1, OutboxAssumption DEF TypeOK, StoreTypeOK, JobTypeOK, Record
<1>3. recs[cur.msg].since <= busy /\ busy <= Stall
  BY <1>1 DEF BudgetInv, JobOnTime
<1>4. recs[cur.msg].since <= Hour
  BY <1>2, <1>3, OutboxAssumption, WorkerAssumption
<1> QED
  BY <1>4 DEF Reserves

LEMMA BudgetStep ==
  ASSUME Stall <= Hour, TypeOK, TypeOK', JobOnTime, BudgetInv, Next \/ UNCHANGED vars
  PROVE  BudgetInv'
<1>a. HourlyReservation
  BY DEF BudgetInv
<1>b. \A m \in Msg : recs[m] \in Record
  BY DEF TypeOK, StoreTypeOK
<1>c. CASE Shrinks /\ pc' \notin {"guard", "call"}
  BY <1>a, <1>c, ShrinkingKeepsLimit DEF BudgetInv
<1>d. CASE recs' = recs /\ pc' = pc /\ cur' = cur /\ busy' = busy
  <2>1. HourlyReservation'
    BY <1>a, <1>d, ShrinkingKeepsLimit DEF Shrinks
  <2> QED
    BY <1>d, <2>1 DEF BudgetInv
<1>1. CASE Tick
  <2>1. \A m \in Msg : recs'[m] = AgedRecord(recs[m])
    BY <1>1 DEF Tick
  <2>2. Shrinks
    BY <1>b, <2>1, Uncounted DEF Shrinks
  <2>3. ASSUME pc' \in {"guard", "call"}
        PROVE  /\ recs'[cur'.msg].status \notin {"pending", "sent"}
               /\ recs'[cur'.msg].status = "sending" => recs'[cur'.msg].since <= busy'
    <3>1. pc = "call" /\ cur' = cur /\ pc \in JobSteps /\ cur.msg \in Msg
      <4>1. pc = "call" /\ cur' = cur /\ pc \in JobSteps
        BY <1>1, <2>3 DEF Tick, JobSteps
      <4> QED
        BY <4>1, JobTyped
    <3>2. recs'[cur.msg] = AgedRecord(recs[cur.msg]) /\ busy' = busy + 1
      BY <1>1, <2>1, <3>1 DEF Tick
    <3>3. recs[cur.msg].since \in Nat /\ busy \in Nat
      BY <3>1, OutboxAssumption DEF TypeOK, StoreTypeOK, JobTypeOK, Record
    <3>4. /\ recs[cur.msg].status \notin {"pending", "sent"}
          /\ recs[cur.msg].status = "sending" => recs[cur.msg].since <= busy
      BY <3>1 DEF BudgetInv
    <3>5. recs'[cur.msg].status = recs[cur.msg].status
      BY <3>2 DEF AgedRecord
    <3>6. recs[cur.msg].status = "sending" => recs'[cur.msg].since = Older(recs[cur.msg].since)
      BY <3>2 DEF AgedRecord
    <3>7. Older(recs[cur.msg].since) <= recs[cur.msg].since + 1
          /\ Older(recs[cur.msg].since) \in Nat
      BY <3>3, OutboxAssumption DEF Older
    <3> QED
      BY <3>1, <3>2, <3>3, <3>4, <3>5, <3>6, <3>7
  <2> QED
    BY <1>a, <2>2, <2>3, ShrinkingKeepsLimit DEF BudgetInv
<1>2. CASE Settings
  <2>1. pc' = pc /\ cur' = cur /\ busy' = busy
    BY <1>2 DEF Settings, BeginSave, PublishSave, PersistSave, FailSave, StopSave,
       ChangeAnswer, jobVars
  <2>2. ASSUME NEW m \in Msg
        PROVE  recs'[m] = recs[m] \/ recs'[m] = WithStatus(recs[m], "needs_manual")
    BY <1>2 DEF Settings, BeginSave, HandOver, PublishSave, PersistSave, FailSave,
       StopSave, ChangeAnswer, storeVars
  <2>3. Shrinks
    BY <1>b, <2>2, Uncounted DEF Shrinks
  <2>4. ASSUME pc \in {"guard", "call"}
        PROVE  /\ recs'[cur.msg].status \notin {"pending", "sent"}
               /\ recs'[cur.msg].status = "sending" => recs'[cur.msg].since <= busy
    <3>1. pc \in JobSteps
      BY <2>4 DEF JobSteps
    <3>2. cur.msg \in Msg
      BY <3>1, JobTyped
    <3>3. WithStatus(recs[cur.msg], "needs_manual").status = "needs_manual"
      BY DEF WithStatus
    <3> QED
      BY <2>2, <2>4, <3>2, <3>3 DEF BudgetInv
  <2> QED
    BY <1>a, <2>1, <2>3, <2>4, ShrinkingKeepsLimit DEF BudgetInv
<1>3. CASE Scan
  <2> DEFINE x == [m \in Msg |-> IF \E i \in fetched : i.msg = m
                                THEN MarkedIgnored(recs[m]) ELSE recs[m]]
  <2>1. recs' = recs \/ recs' \in Trimmed(x)
    BY <1>3 DEF Scan
  <2>2. \A m \in Msg : Reserves(x[m]) => Reserves(recs[m])
    BY <1>b, Uncounted
  <2>3. Shrinks
    BY <2>1, <2>2, TrimShrinks DEF Shrinks
  <2> QED
    BY <1>3, <1>c, <2>3 DEF Scan
<1>4. ASSUME NEW i \in todo, TakeRecoverable(i) \/ TakeOverdue(i) \/ TakeMention(i)
      PROVE  BudgetInv'
  <2>1. i.msg \in Msg /\ recs \in [Msg -> Record]
    BY DEF TypeOK, RunTypeOK, StoreTypeOK, Item
  <2>2. pc' \notin {"guard", "call"}
    BY <1>4 DEF TakeRecoverable, TakeOverdue, TakeMention, LeaveGroup
  <2>3. PICK r \in {WithStatus(recs[i.msg], "needs_manual"), NewRecord} :
          recs' = recs \/ recs' \in Trimmed([recs EXCEPT ![i.msg] = r])
    BY <1>4 DEF TakeRecoverable, TakeOverdue, TakeMention
  <2>4. ~Reserves(r)
    BY <1>b, <2>1, Uncounted
  <2> DEFINE x == [recs EXCEPT ![i.msg] = r]
  <2>5. \A m \in Msg : Reserves(x[m]) => Reserves(recs[m])
    BY <2>1, <2>4
  <2> HIDE DEF x
  <2>6. recs' \in Trimmed(x) => Shrinks
    BY <2>5, TrimShrinks
  <2>7. recs' = recs => Shrinks
    BY DEF Shrinks
  <2>8. recs' \in Trimmed(x) \/ recs' = recs
    BY <2>3 DEF x
  <2> QED
    BY <1>c, <2>2, <2>6, <2>7, <2>8
<1>5. CASE Entry \/ ReadHistory \/ ReadLatestConfig \/ RecheckHistory
  <2>1. pc \in JobSteps \cup {"entry"}
    BY <1>5 DEF Entry, ReadHistory, ReadLatestConfig, RecheckHistory, JobSteps
  <2>2. PICK v \in {"proceed", "needs_manual", "recalled", "ignored", "dry_run"},
             step \in {"history", "latest", "recheck", "claim"} : Decide(v, step)
    BY <1>5 DEF Entry, ReadHistory, ReadLatestConfig, RecheckHistory, EntryVerdict,
       HistoryVerdicts, LookupVerdicts, Composed
  <2>3. Shrinks
    BY <2>1, <2>2, DecideShrinks
  <2>4. pc' \notin {"guard", "call"}
    BY <2>2, FinishEndsJob DEF Decide, JobSteps
  <2> QED
    BY <1>c, <2>3, <2>4
<1>6. CASE Claim
  <2>1. HourlyReservation'
    BY <1>6, <1>a, ClaimWithinLimit
  <2>2. ASSUME pc' \in {"guard", "call"}
        PROVE  /\ recs'[cur'.msg].status \notin {"pending", "sent"}
               /\ recs'[cur'.msg].status = "sending" => recs'[cur'.msg].since <= busy'
    <3>1. recs' \in Trimmed([recs EXCEPT ![cur.msg] = Claimed(recs[cur.msg])])
          /\ cur' = cur /\ busy' = busy
      BY <1>6, <2>2, FinishEndsJob DEF Claim, LeaveGroup, JobSteps
    <3>2. pc \in JobSteps
      BY <1>6 DEF Claim, JobSteps
    <3>3. cur.msg \in Msg /\ busy \in Nat
      BY <3>2, JobTyped DEF TypeOK, JobTypeOK
    <3> DEFINE x == [recs EXCEPT ![cur.msg] = Claimed(recs[cur.msg])]
    <3>a. x[cur.msg] = Claimed(recs[cur.msg])
      BY <3>3 DEF TypeOK, StoreTypeOK
    <3>b. recs' \in Trimmed(x)
      BY <3>1
    <3> HIDE DEF x
    <3>4. recs'[cur.msg] = Claimed(recs[cur.msg]) \/ recs'[cur.msg] = Absent
      BY <3>a, <3>b, <3>3, TrimKeepsOrDrops
    <3>5. Claimed(recs[cur.msg]).status = "sending" /\ Claimed(recs[cur.msg]).since = 0
          /\ Absent.status = "absent"
      BY DEF Claimed, Absent
    <3> QED
      BY <3>1, <3>3, <3>4, <3>5
  <2> QED
    BY <2>1, <2>2 DEF BudgetInv
<1>7. CASE Guard
  <2>1. pc = "guard" /\ pc \in JobSteps
    BY <1>7 DEF Guard, JobSteps
  <2>2. CASE GuardVerdict = "proceed"
    <3>1. UNCHANGED <<recs, cur, busy>>
      BY <1>7, <2>2 DEF Guard
    <3>2. HourlyReservation'
      BY <1>a, <3>1, ShrinkingKeepsLimit DEF Shrinks
    <3> QED
      BY <2>1, <3>1, <3>2 DEF BudgetInv
  <2>3. CASE GuardVerdict # "proceed"
    <3>1. Finish(cur.msg, Settled(GuardVerdict))
      BY <1>7, <2>3 DEF Guard
    <3>2. Settled(GuardVerdict) \in Status \ {"sent", "sending"}
      BY <2>3 DEF GuardVerdict, Settled, Status, Terminal
    <3>3. Shrinks
      BY <2>1, <3>1, <3>2, JobTyped, FinishShrinks
    <3>4. pc' \notin {"guard", "call"}
      BY <3>1, FinishEndsJob DEF JobSteps
    <3> QED
      BY <1>c, <3>3, <3>4
  <2> QED
    BY <2>2, <2>3
<1>8. CASE CallSucceeds \/ CallFails
  <2>1. pc = "call" /\ pc \in JobSteps
    BY <1>8, CallMoves DEF JobSteps
  <2>2. PICK s \in {"sent", "sending", "needs_manual"} : Finish(cur.msg, s)
    BY <1>8, CallMoves
  <2>3. s \in Status
    BY DEF Status, Unfinished, Terminal
  <2>4. recs[cur.msg].status \notin {"pending", "sent"}
    BY <2>1 DEF BudgetInv
  <2>5. s \in {"sent", "sending"} /\ AllowedTransition(recs[cur.msg].status, s)
          => Reserves(recs[cur.msg])
    BY <2>1, <2>4, CallCounted DEF AllowedTransition
  <2>6. Shrinks
    BY <2>1, <2>2, <2>3, <2>5, JobTyped, FinishShrinks
  <2>7. pc' \notin {"guard", "call"}
    BY <2>2, FinishEndsJob DEF JobSteps
  <2> QED
    BY <1>c, <2>6, <2>7
<1>9. CASE Platform /\ ~Tick
  BY <1>9, <1>d DEF Platform, Post, Recall, Accept, Drop, storeVars, jobVars
<1>10. CASE Run /\ ~Scan
  <2>1. recs' = recs
    BY <1>10 DEF Run, StartRun, FetchMentions, FetchFails, MarkInitialized, TakeSnapshot,
       NextPhase, EndRun, storeVars
  <2>2. pc' \notin {"guard", "call"}
    BY <1>10 DEF Run, StartRun, FetchMentions, FetchFails, MarkInitialized, TakeSnapshot,
       NextPhase, EndRun, LeaveGroup
  <2> QED
    BY <1>c, <2>1, <2>2 DEF Shrinks
<1>11. CASE Crash \/ Restart
  <2>1. recs' = recs /\ pc' \notin {"guard", "call"}
    BY <1>11 DEF Crash, Restart, storeVars
  <2> QED
    BY <1>c, <2>1 DEF Shrinks
<1>12. CASE UNCHANGED vars
  BY <1>12, <1>d DEF vars, storeVars, jobVars
<1>13. ASSUME NEW m \in windows, ServeWindow(m)
       PROVE  BudgetInv'
  <2>1. recs' = recs /\ pc' \notin {"guard", "call"}
    BY <1>13, ServeWindowMoves DEF LeaveGroup
  <2> QED
    BY <1>c, <2>1 DEF Shrinks
<1>14. CASE StoreFails
  <2>1. pc' \notin {"guard", "call"}
    BY <1>14, StoreFailsMoves, FinishEndsJob DEF LeaveGroup, JobSteps
  <2>2. CASE recs' = recs
    BY <1>c, <2>1, <2>2 DEF Shrinks
  <2>3. ASSUME pc = "guard", NEW s \in {"sending", "needs_manual"}, Finish(cur.msg, s)
        PROVE  Shrinks
    <3>1. pc \in JobSteps
      BY <2>3 DEF JobSteps
    <3>2. cur.msg \in Msg /\ s \in Status /\ recs[cur.msg].since \in Nat /\ busy \in Nat
      BY <3>1, JobTyped, OutboxAssumption DEF Status, Unfinished, Terminal, TypeOK,
         StoreTypeOK, JobTypeOK, Record
    <3>3. s = "sending" /\ AllowedTransition(recs[cur.msg].status, s)
            => recs[cur.msg].status = "sending"
      BY <2>3 DEF BudgetInv, AllowedTransition
    <3>4. recs[cur.msg].status = "sending" => recs[cur.msg].since <= Hour
      BY <2>3, <3>1, <3>2, OutboxAssumption, WorkerAssumption DEF BudgetInv, JobOnTime
    <3> QED
      BY <2>3, <3>2, <3>3, <3>4, FinishShrinks DEF Reserves
  <2> QED
    BY <1>14, <1>c, <2>1, <2>2, <2>3, StoreFailsMoves
<1> QED
  BY <1>1, <1>2, <1>3, <1>4, <1>5, <1>6, <1>7, <1>8, <1>9, <1>10, <1>11, <1>12, <1>13, <1>14
     DEF Next, Process

(***************************************************************************)
(* The records that reserve capacity in the last hour, sent or still being *)
(* sent, never outnumber the largest limit an operator can have set,       *)
(* however often an attempt is repeated, if no record's processing takes   *)
(* an hour (countReservedInLastHour, checked before a record is claimed).  *)
(* Replies whose records were handed to a human are not among them.        *)
(***************************************************************************)
THEOREM WithinHourlyLimit ==
  ASSUME Stall <= Hour
  PROVE  Spec => []HourlyReservation
<1>1. Init => BudgetInv
  <2>1. SUFFICES ASSUME Init PROVE BudgetInv
    OBVIOUS
  <2>2. {m \in Msg : recs[m].status \in {"sent", "sending"} /\ recs[m].since <= Hour} = {}
    BY <2>1 DEF Init, Absent
  <2>3. stored \in Configs /\ stored.limit \in Nat
    BY <2>1, WorkerAssumption DEF Init, Config
  <2>4. Cardinality({m \in Msg : recs[m].status \in {"sent", "sending"} /\ recs[m].since <= Hour}) = 0
    BY <2>2, FS_EmptySet
  <2>5. HourlyReservation
    <3>1. 0 <= stored.limit
      BY <2>3
    <3> QED
      BY <2>3, <2>4, <3>1 DEF HourlyReservation
  <2> QED
    BY <2>1, <2>5 DEF Init, BudgetInv
<1>2. TypeOK /\ TypeOK' /\ DeliveryInv /\ BudgetInv /\ [Next]_vars => BudgetInv'
  BY BudgetStep DEF DeliveryInv
<1>3. BudgetInv => HourlyReservation
  BY DEF BudgetInv
<1> QED
  BY <1>1, <1>2, <1>3, DeliveryInit, DeliveryStep, TypeCorrect, PTL DEF Spec
-----------------------------------------------------------------------------
(* How one step changes the records, when no trim drops one.                *)

(* The record of m is what it was; one that is absent may be any such. *)
Still(m) ==
  /\ recs'[m].status = recs[m].status
  /\ recs[m].status = "sending" => recs'[m].attempts = recs[m].attempts

(* A mention opens a record; a first scan writes one that is closed. *)
Opened(m) == recs[m].status = "absent" /\ recs'[m].status = "pending"

Skipped(m) == recs[m].status = "absent" /\ recs'[m].status = "ignored"

HandedOver(m) == recs[m].status \in Unfinished /\ recs'[m].status = "needs_manual"

(* The record in processing, certain not to have been sent, is closed. *)
Closed(m) ==
  /\ m = cur.msg /\ pc \in Early /\ ~cur.uncertain
  /\ recs[m].status \in Unfinished
  /\ recs'[m].status \in {"ignored", "recalled", "dry_run"}

ClaimedNow(m) ==
  /\ m = cur.msg /\ pc = "claim" /\ pc' = "guard" /\ cur' = cur
  /\ recs[m].status \in Unfinished
  /\ recs'[m].status = "sending" /\ recs'[m].attempts > 0

Confirmed(m) ==
  /\ m = cur.msg /\ pc = "call" /\ ack
  /\ recs[m].status = "sending" /\ recs'[m].status = "sent"

Moved(m) ==
  Still(m) \/ Opened(m) \/ HandedOver(m) \/ Closed(m) \/ ClaimedNow(m) \/ Confirmed(m)

NoGuard == pc # "guard" /\ pc' # "guard"

(* At most one record changes, the one in processing if its last guard      *)
(* stands before or after the step.                                         *)
OneMoves(h) ==
  /\ \A n \in Msg \ {h} : Still(n)
  /\ Moved(h)
  /\ NoGuard \/ (h = cur.msg /\ (pc' = "guard" => ClaimedNow(h)))

AttemptsCounted ==
  /\ \A m \in Msg : recs[m].status = "sending" => recs[m].attempts > 0
  /\ pc = "call" => recs[cur.msg].status \notin {"absent", "pending"}

LEMMA TrimStill ==
  ASSUME NoneEvicted, NEW x, recs' \in Trimmed(x), NEW m \in Msg, x[m] = recs[m]
  PROVE  Still(m)
<1>1. recs'[m] = recs[m] \/ recs'[m] = Absent
  BY TrimKeepsOrDrops
<1>2. recs'[m] = Absent => recs'[m].status = "absent" /\ recs[m].status = "absent"
  BY DEF Absent, NoneEvicted
<1> QED
  BY <1>1, <1>2 DEF Still

(* A trim after one record was written. *)
LEMMA ChangeMoves ==
  ASSUME TypeOK, NoneEvicted, NEW h \in Msg, NEW r,
         recs' \in Trimmed([recs EXCEPT ![h] = r])
  PROVE  /\ \A n \in Msg \ {h} : Still(n)
         /\ recs'[h] = r \/ (recs'[h].status = "absent" /\ recs[h].status = "absent")
<1> DEFINE x == [recs EXCEPT ![h] = r]
<1>1. x[h] = r /\ \A n \in Msg \ {h} : x[n] = recs[n]
  BY DEF TypeOK, StoreTypeOK
<1>2. recs' \in Trimmed(x)
  OBVIOUS
<1> HIDE DEF x
<1>3. \A n \in Msg \ {h} : Still(n)
  BY <1>1, <1>2, TrimStill
<1>4. recs'[h] = r \/ recs'[h] = Absent
  BY <1>1, <1>2, TrimKeepsOrDrops
<1>5. recs'[h] = Absent => recs'[h].status = "absent" /\ recs[h].status = "absent"
  BY DEF Absent, NoneEvicted
<1> QED
  BY <1>3, <1>4, <1>5

LEMMA FinishMoves ==
  ASSUME TypeOK, NoneEvicted, NEW h \in Msg, NEW s \in Status \ {"pending"}, Finish(h, s)
  PROVE  /\ \A n \in Msg \ {h} : Still(n)
         /\ \/ Still(h)
            \/ /\ recs[h].status \in Unfinished /\ recs'[h].status = s
               /\ s = "sent" => recs[h].status = "sending"
               /\ s = "sending" => recs[h].status = "pending"
         /\ pc' \notin JobSteps \cup {"entry"}
<1>1. CASE AllowedTransition(recs[h].status, s)
  <2>1. recs' \in Trimmed([recs EXCEPT ![h] = WithStatus(recs[h], s)])
    BY <1>1 DEF Finish
  <2>2. recs[h].status # "absent"
    BY <1>1 DEF AllowedTransition, Status, Unfinished, Terminal
  <2>3. (\A n \in Msg \ {h} : Still(n)) /\ recs'[h] = WithStatus(recs[h], s)
    BY <2>1, <2>2, ChangeMoves
  <2>4. recs'[h].status = s /\ recs'[h].attempts = recs[h].attempts
    BY <2>3 DEF WithStatus
  <2> QED
    BY <1>1, <2>3, <2>4, FinishEndsJob DEF AllowedTransition, Still, Unfinished
<1>2. CASE recs' = recs
  BY <1>2, FinishEndsJob DEF Still
<1> QED
  BY <1>1, <1>2 DEF Finish

(* The verdicts of the lookups and guards. *)
LEMMA SettledMoves ==
  ASSUME TypeOK, NoneEvicted, pc \in JobSteps \cup {"entry"}, pc \in Early,
         NEW v \in {"needs_manual", "recalled", "ignored", "dry_run"},
         Finish(cur.msg, Settled(v))
  PROVE  OneMoves(cur.msg) /\ cur.msg \in Msg
<1>1. cur.msg \in Msg
  BY JobTyped
<1>2. Settled(v) = "needs_manual"
      \/ (~cur.uncertain /\ Settled(v) \in {"recalled", "ignored", "dry_run"})
  BY DEF Settled
<1>3. Settled(v) \in Status \ {"pending", "sent", "sending"}
  BY <1>2 DEF Status, Terminal
<1>4. /\ \A n \in Msg \ {cur.msg} : Still(n)
      /\ \/ Still(cur.msg)
         \/ recs[cur.msg].status \in Unfinished /\ recs'[cur.msg].status = Settled(v)
      /\ pc' \notin JobSteps \cup {"entry"}
  BY <1>1, <1>3, FinishMoves
<1>5. Moved(cur.msg)
  BY <1>2, <1>4 DEF Moved, HandedOver, Closed
<1> QED
  BY <1>1, <1>4, <1>5 DEF OneMoves, JobSteps

(* The steps that change no record. *)
Unmoved == (\A m \in Msg : Still(m)) /\ (NoGuard \/ (pc' = pc /\ cur' = cur))

LEMMA StepMoves ==
  ASSUME TypeOK, NoneEvicted, AttemptsCounted, FreshLease, Next \/ UNCHANGED vars
  PROVE  \/ Unmoved
         \/ NoGuard /\ \A m \in Msg : Still(m) \/ HandedOver(m)
         \/ NoGuard /\ \A m \in Msg : Still(m) \/ Skipped(m)
         \/ \E h \in Msg : OneMoves(h)
<1>1. CASE Tick
  BY <1>1 DEF Tick, AgedRecord, Still, Unmoved, NoGuard
<1>2. ASSUME NEW c \in Configs, BeginSave(c)
      PROVE  NoGuard /\ \A m \in Msg : Still(m) \/ HandedOver(m)
  <2>1. \A m \in Msg : recs'[m] = recs[m]
                       \/ (recs[m].status \in Unfinished
                           /\ recs'[m] = WithStatus(recs[m], "needs_manual"))
    BY <1>2 DEF BeginSave, HandOver
  <2>2. \A r : WithStatus(r, "needs_manual").status = "needs_manual"
    BY DEF WithStatus
  <2>3. NoGuard
    BY <1>2 DEF BeginSave, NoGuard
  <2> QED
    BY <2>1, <2>2, <2>3 DEF Still, HandedOver
<1>3. CASE Scan
  <2> DEFINE x == [n \in Msg |-> IF \E i \in fetched : i.msg = n
                                THEN MarkedIgnored(recs[n]) ELSE recs[n]]
  <2>1. recs' = recs \/ recs' \in Trimmed(x)
    BY <1>3 DEF Scan
  <2>2. \A m \in Msg : x[m] = recs[m] \/ (recs[m].status = "absent" /\ x[m].status = "ignored")
    <3>1. \A r : \/ MarkedIgnored(r) = r
                 \/ r.status = "absent" /\ MarkedIgnored(r).status = "ignored"
      BY DEF MarkedIgnored, WithStatus
    <3>2. \A m \in Msg : x[m] = recs[m] \/ x[m] = MarkedIgnored(recs[m])
      OBVIOUS
    <3> HIDE DEF x
    <3> QED
      BY <3>1, <3>2
  <2> HIDE DEF x
  <2>3. ASSUME NEW m \in Msg, recs' \in Trimmed(x)
        PROVE  Still(m) \/ Skipped(m)
    <3>1. CASE x[m] = recs[m]
      BY <2>3, <3>1, TrimStill
    <3>2. CASE recs[m].status = "absent" /\ x[m].status = "ignored"
      <4>1. recs'[m] = x[m] \/ recs'[m] = Absent
        BY <2>3, TrimKeepsOrDrops
      <4> QED
        BY <3>2, <4>1 DEF Still, Skipped, Absent
    <3> QED
      BY <2>2, <3>1, <3>2
  <2>4. NoGuard
    BY <1>3 DEF Scan, NoGuard
  <2> QED
    BY <2>1, <2>3, <2>4 DEF Still
<1>4. ASSUME NEW i \in todo, TakeRecoverable(i) \/ TakeOverdue(i) \/ TakeMention(i)
      PROVE  Unmoved \/ \E h \in Msg : OneMoves(h)
  <2>1. i.msg \in Msg /\ NoGuard
    BY <1>4 DEF TypeOK, RunTypeOK, Item, TakeRecoverable, TakeOverdue, TakeMention,
       LeaveGroup, NoGuard
  <2>2. CASE recs' = recs
    BY <2>1, <2>2 DEF Unmoved, Still
  <2>3. CASE TakeOverdue(i) /\ recs' # recs
    <3>1. /\ AllowedTransition(recs[i.msg].status, "needs_manual")
          /\ recs' \in Trimmed([recs EXCEPT ![i.msg] = WithStatus(recs[i.msg], "needs_manual")])
      BY <2>3 DEF TakeOverdue
    <3>2. recs[i.msg].status \in Unfinished \cup {"needs_manual"}
      BY <3>1 DEF AllowedTransition, Unfinished
    <3>3. /\ \A n \in Msg \ {i.msg} : Still(n)
          /\ recs'[i.msg] = WithStatus(recs[i.msg], "needs_manual")
      BY <2>1, <3>1, <3>2, ChangeMoves DEF Unfinished
    <3>4. recs'[i.msg].status = "needs_manual"
      BY <3>3 DEF WithStatus
    <3>5. Moved(i.msg)
      BY <3>2, <3>4 DEF Moved, Still, HandedOver
    <3> QED
      BY <2>1, <3>3, <3>5 DEF OneMoves
  <2>4. CASE TakeMention(i) /\ recs' # recs
    <3>1. recs[i.msg].status = "absent" /\ recs' \in Trimmed([recs EXCEPT ![i.msg] = NewRecord])
      BY <2>4 DEF TakeMention
    <3>2. /\ \A n \in Msg \ {i.msg} : Still(n)
          /\ recs'[i.msg].status \in {"pending", "absent"}
      BY <2>1, <3>1, ChangeMoves DEF NewRecord
    <3>3. Moved(i.msg)
      BY <3>1, <3>2 DEF Moved, Still, Opened
    <3> QED
      BY <2>1, <3>2, <3>3 DEF OneMoves
  <2> QED
    BY <1>4, <2>2, <2>3, <2>4 DEF TakeRecoverable
<1>5. CASE Entry \/ ReadHistory \/ ReadLatestConfig \/ RecheckHistory
  <2>1. pc \in JobSteps \cup {"entry"} /\ pc \in Early /\ pc # "guard"
    BY <1>5 DEF Entry, ReadHistory, ReadLatestConfig, RecheckHistory, JobSteps, Early
  <2>2. PICK v \in {"proceed", "needs_manual", "recalled", "ignored", "dry_run"},
             step \in {"history", "latest", "recheck", "claim"} : Decide(v, step)
    BY <1>5 DEF Entry, ReadHistory, ReadLatestConfig, RecheckHistory, EntryVerdict,
       HistoryVerdicts, LookupVerdicts, Composed
  <2>3. CASE v = "proceed"
    BY <2>1, <2>2, <2>3 DEF Decide, Unmoved, NoGuard, Still
  <2>4. CASE v # "proceed"
    BY <2>1, <2>2, <2>4, SettledMoves DEF Decide
  <2> QED
    BY <2>3, <2>4
<1>6. CASE Claim
  <2>1. pc = "claim" /\ pc \in JobSteps \cup {"entry"} /\ pc \in Early
    BY <1>6 DEF Claim, JobSteps, Early
  <2>2. cur.msg \in Msg
    BY <2>1, JobTyped
  <2>3. CASE ClaimVerdict = "proceed" /\ AllowedTransition(recs[cur.msg].status, "sending")
    <3>1. /\ recs' \in Trimmed([recs EXCEPT ![cur.msg] = Claimed(recs[cur.msg])])
          /\ pc' = "guard" /\ cur' = cur
      BY <1>6, <2>3 DEF Claim
    <3>2. recs[cur.msg].status \in Unfinished
      BY <2>3 DEF AllowedTransition, Unfinished
    <3>3. /\ \A n \in Msg \ {cur.msg} : Still(n)
          /\ recs'[cur.msg] = Claimed(recs[cur.msg])
      BY <2>2, <3>1, <3>2, ChangeMoves DEF Unfinished
    <3>4. recs[cur.msg].attempts \in Nat
      BY <2>2 DEF TypeOK, StoreTypeOK, Record
    <3>5. recs'[cur.msg].status = "sending" /\ recs'[cur.msg].attempts > 0
      BY <3>3, <3>4 DEF Claimed
    <3>6. ClaimedNow(cur.msg)
      BY <2>1, <3>1, <3>2, <3>5 DEF ClaimedNow
    <3> QED
      BY <2>2, <3>3, <3>6 DEF OneMoves, Moved
  <2>4. CASE recs' = recs /\ LeaveGroup
    BY <2>1, <2>4 DEF LeaveGroup, Unmoved, NoGuard, Still
  <2>5. CASE ClaimVerdict # "proceed"
    <3>1. ClaimVerdict \in {"needs_manual", "recalled", "ignored", "dry_run"}
      BY <2>5 DEF ClaimVerdict
    <3> QED
      BY <1>6, <2>1, <2>5, <3>1, SettledMoves DEF Claim
  <2> QED
    BY <1>6, <2>3, <2>4, <2>5 DEF Claim
<1>7. CASE Guard
  <2>1. pc = "guard" /\ pc \in JobSteps \cup {"entry"} /\ pc \in Early
    BY <1>7 DEF Guard, JobSteps, Early
  <2>2. cur.msg \in Msg
    BY <2>1, JobTyped
  <2>3. CASE GuardVerdict = "proceed"
    <3>1. recs' = recs /\ pc' = "call"
      BY <1>7, <2>3 DEF Guard
    <3> QED
      BY <2>2, <3>1 DEF OneMoves, Moved, Still
  <2>4. CASE GuardVerdict # "proceed"
    <3>1. GuardVerdict \in {"needs_manual", "recalled", "ignored", "dry_run"}
      BY <2>4 DEF GuardVerdict
    <3> QED
      BY <1>7, <2>1, <2>4, <3>1, SettledMoves DEF Guard
  <2> QED
    BY <2>3, <2>4
<1>8. CASE CallSucceeds \/ CallFails
  <2>1. pc = "call" /\ pc \in JobSteps
    BY <1>8, CallMoves DEF JobSteps
  <2>2. cur.msg \in Msg
    BY <2>1, JobTyped
  <2>3. PICK s \in {"sent", "sending", "needs_manual"} :
          Finish(cur.msg, s) /\ (s = "sent" => ack)
    BY <1>8 DEF CallSucceeds, CallFails, RetryLater, Finish
  <2>4. s \in Status \ {"pending"}
    BY DEF Status, Unfinished, Terminal
  <2>5. /\ \A n \in Msg \ {cur.msg} : Still(n)
        /\ \/ Still(cur.msg)
           \/ /\ recs[cur.msg].status \in Unfinished /\ recs'[cur.msg].status = s
              /\ s = "sent" => recs[cur.msg].status = "sending"
              /\ s = "sending" => recs[cur.msg].status = "pending"
        /\ pc' \notin JobSteps \cup {"entry"}
    BY <2>2, <2>3, <2>4, FinishMoves
  <2>6. recs[cur.msg].status # "pending"
    BY <2>1 DEF AttemptsCounted
  <2>7. Moved(cur.msg)
    BY <2>1, <2>3, <2>5, <2>6 DEF Moved, HandedOver, Confirmed
  <2>8. NoGuard
    BY <2>1, <2>5 DEF NoGuard, JobSteps
  <2> QED
    BY <2>2, <2>5, <2>7, <2>8 DEF OneMoves
<1>9. CASE Crash \/ (StoreFails /\ recs' = recs)
  <2>1. recs' = recs /\ pc' # "guard"
    BY <1>9, StoreFailsMoves, FinishEndsJob DEF Crash, storeVars, LeaveGroup, JobSteps
  <2>2. CASE pc = "guard"
    <3>1. pc \in JobSteps
      BY <2>2 DEF JobSteps
    <3>2. cur.msg \in Msg
      BY <3>1, JobTyped
    <3> QED
      BY <2>1, <3>2 DEF OneMoves, Moved, Still
  <2>3. CASE pc # "guard"
    BY <2>1, <2>3 DEF Unmoved, NoGuard, Still
  <2> QED
    BY <2>2, <2>3
<1>10. CASE (Platform /\ ~Tick) \/ UNCHANGED vars
  BY <1>10 DEF Platform, Post, Recall, Accept, Drop, vars, storeVars, jobVars, Unmoved, Still
<1>11. CASE Settings /\ ~(\E c \in Configs : BeginSave(c))
  BY <1>11 DEF Settings, PublishSave, PersistSave, FailSave, StopSave, ChangeAnswer,
     storeVars, jobVars, Unmoved, Still
<1>12. CASE (Run /\ ~Scan) \/ Restart
  <2>1. recs' = recs
    BY <1>12 DEF Run, StartRun, FetchMentions, FetchFails, MarkInitialized, TakeSnapshot,
       NextPhase, EndRun, Restart, storeVars
  <2>2. NoGuard
    BY <1>12 DEF Run, StartRun, FetchMentions, FetchFails, MarkInitialized, TakeSnapshot,
       NextPhase, EndRun, LeaveGroup, Restart, NoGuard
  <2> QED
    BY <2>1, <2>2 DEF Unmoved, Still
<1>13. CASE StoreFails /\ recs' # recs
  <2>1. pc = "guard" /\ \E s \in {"sending", "needs_manual"} : Finish(cur.msg, s)
    BY <1>13, StoreFailsMoves
  <2>2. pc \in JobSteps
    BY <2>1 DEF JobSteps
  <2>3. cur.msg \in Msg /\ recs[cur.msg].status = "sending"
    BY <2>1, <2>2, JobTyped DEF FreshLease
  <2>4. PICK s \in {"sending", "needs_manual"} : Finish(cur.msg, s)
    BY <2>1
  <2>5. s \in Status \ {"pending"}
    BY DEF Status, Unfinished, Terminal
  <2>6. /\ \A n \in Msg \ {cur.msg} : Still(n)
        /\ \/ Still(cur.msg)
           \/ recs'[cur.msg].status = s /\ s # "sending"
        /\ pc' \notin JobSteps \cup {"entry"}
    BY <2>3, <2>4, <2>5, FinishMoves
  <2>7. Moved(cur.msg)
    BY <2>3, <2>6 DEF Moved, HandedOver, Unfinished
  <2> QED
    BY <2>3, <2>6, <2>7 DEF OneMoves, JobSteps
<1>14. ASSUME NEW m \in windows, ServeWindow(m)
       PROVE  Unmoved
  BY <1>14, ServeWindowMoves DEF LeaveGroup, Unmoved, NoGuard, Still
<1> QED
  BY <1>1, <1>2, <1>3, <1>4, <1>5, <1>6, <1>7, <1>8, <1>9, <1>10, <1>11, <1>12, <1>13, <1>14
     DEF Next, Process
-----------------------------------------------------------------------------
(* The invariant.                                                           *)

(* A reply said to be sent has appeared in the group. *)
AnswersKnown ==
  /\ \A a \in accepted : delivered[a.uuid] = 1
  /\ \A m \in Msg : recs[m].status = "sent" => delivered[m] = 1
  /\ pc = "call" /\ ack => delivered[cur.msg] = 1

(* While a request is undecided, its message is not declined. *)
RequestsOpen ==
  \A w \in wire : recs[w.msg].status \in {"sending", "sent", "needs_manual", "failed"}

(***************************************************************************)
(* What the worker takes for certain not to have been sent was not: no     *)
(* request was ever made for it (the flag uncertainSend of processRecord). *)
(***************************************************************************)
CertainOpen ==
  /\ pc \in Early \ {"guard"} /\ ~cur.uncertain => recs[cur.msg].status # "sending"
  /\ pc = "guard" /\ ~cur.uncertain => \A w \in wire : w.msg # cur.msg
  /\ phase = "recover" => \A i \in todo : ~i.uncertain => recs[i.msg].status # "sending"

PromiseInv ==
  AnswersKnown /\ RequestsOpen /\ AttemptsCounted /\ CertainOpen /\ ListDistinct /\ FreshLease

(* A reply that appeared does not disappear, and none appears twice. *)
LEMMA RepliesMove ==
  ASSUME TypeOK, DeliveryInv, Next \/ UNCHANGED vars
  PROVE  \/ delivered' = delivered /\ accepted' = accepted
         \/ Tick
         \/ \E w \in wire :
              /\ Accept(w) /\ delivered[w.msg] = 0
              /\ delivered' = [delivered EXCEPT ![w.msg] = 1]
              /\ accepted' = accepted \cup {[uuid |-> w.msg, age |-> 0]}
<1>1. ASSUME NEW w \in wire, Accept(w), delivered' # delivered \/ accepted' # accepted
      PROVE  /\ delivered[w.msg] = 0
             /\ delivered' = [delivered EXCEPT ![w.msg] = 1]
             /\ accepted' = accepted \cup {[uuid |-> w.msg, age |-> 0]}
  <2>1. ~Remembered(w.uuid) /\ w.msg \in Msg /\ w.uuid = w.msg
    BY <1>1 DEF Accept, TypeOK, PlatformTypeOK, Request, DeliveryInv, RequestsOnTime
  <2>2. delivered[w.msg] \in Nat /\ delivered[w.msg] <= 1 /\ delivered[w.msg] # 1
    BY <2>1, KeyStillRemembered DEF TypeOK, PlatformTypeOK, DeliveryInv, KeysRemembered
  <2> QED
    BY <1>1, <2>1, <2>2 DEF Accept
<1>2. CASE Platform /\ ~Tick /\ ~(\E w \in wire : Accept(w))
  BY <1>2 DEF Platform, Post, Recall, Drop
<1>3. CASE Settings \/ Run \/ Crash \/ Restart \/ UNCHANGED vars
  BY <1>3 DEF Settings, BeginSave, PublishSave, PersistSave, FailSave, StopSave,
     ChangeAnswer, Run, StartRun, FetchMentions, FetchFails, Scan, MarkInitialized,
     TakeSnapshot, NextPhase, EndRun, Crash, Restart, vars, platformVars
<1>4. CASE Process
  BY <1>4, ServeWindowMoves, CallMoves DEF Process, TakeRecoverable, TakeOverdue,
     TakeMention, Entry, ReadHistory, ReadLatestConfig, RecheckHistory, Claim, Guard, Outside,
     platformVars
<1>5. CASE StoreFails
  BY <1>5, StoreFailsMoves
<1> QED
  BY <1>1, <1>2, <1>3, <1>4, <1>5 DEF Next, Platform

LEMMA RepliesStay ==
  ASSUME TypeOK, DeliveryInv, Next \/ UNCHANGED vars, NEW m \in Msg, delivered[m] = 1
  PROVE  delivered'[m] = 1
<1>1. CASE Tick
  BY <1>1 DEF Tick
<1>2. CASE ~Tick
  BY <1>2, RepliesMove DEF TypeOK, PlatformTypeOK
<1> QED
  BY <1>1, <1>2

(* Which records a step moves, one by one. *)
LEMMA RecordMoves ==
  ASSUME TypeOK, NoneEvicted, AttemptsCounted, FreshLease, Next \/ UNCHANGED vars, NEW m \in Msg
  PROVE  Moved(m) \/ Skipped(m)
BY StepMoves DEF Unmoved, OneMoves, Moved

(* A call follows the last guard, and lasts while nothing but the platform  *)
(* and the operator takes a step. *)
LEMMA CallFollows ==
  ASSUME Next \/ UNCHANGED vars, pc' = "call"
  PROVE  \/ pc = "guard" /\ recs' = recs /\ cur' = cur /\ ack' = FALSE
         \/ pc = "call" /\ cur' = cur /\ (ack' = ack \/ \E w \in wire : Accept(w))
<1>1. CASE Platform
  BY <1>1 DEF Platform, Post, Recall, Accept, Drop, Tick, jobVars
<1>2. CASE Settings \/ UNCHANGED vars
  BY <1>2 DEF Settings, BeginSave, PublishSave, PersistSave, FailSave, StopSave,
     ChangeAnswer, vars, jobVars
<1>3. ~(Run \/ Crash \/ Restart)
  BY DEF Run, StartRun, FetchMentions, FetchFails, Scan, MarkInitialized, TakeSnapshot,
     NextPhase, EndRun, LeaveGroup, Crash, Restart
<1>4. CASE Process
  <2>1. ~(\E i \in todo : TakeRecoverable(i) \/ TakeOverdue(i) \/ TakeMention(i))
    BY DEF TakeRecoverable, TakeOverdue, TakeMention, LeaveGroup
  <2>2. ~(Entry \/ ReadHistory \/ ReadLatestConfig \/ RecheckHistory)
    BY FinishEndsJob DEF Entry, ReadHistory, ReadLatestConfig, RecheckHistory, Decide, JobSteps
  <2>3. ~Claim /\ ~CallSucceeds /\ ~CallFails
    BY CallMoves, FinishEndsJob DEF Claim, LeaveGroup, JobSteps
  <2>4. CASE Guard
    BY <2>4, FinishEndsJob DEF Guard, JobSteps
  <2>5. ~(\E m \in windows : ServeWindow(m))
    BY ServeWindowMoves DEF LeaveGroup
  <2> QED
    BY <1>4, <2>1, <2>2, <2>3, <2>4, <2>5 DEF Process
<1>5. ~StoreFails
  BY StoreFailsMoves, FinishEndsJob DEF LeaveGroup, JobSteps
<1> QED
  BY <1>1, <1>2, <1>3, <1>4, <1>5 DEF Next

(* The last guard follows the claim of an open record. *)
LEMMA GuardFollows ==
  ASSUME Next \/ UNCHANGED vars, pc # "guard", pc' = "guard"
  PROVE  Claim /\ AllowedTransition(recs[cur.msg].status, "sending")
<1>1. ~(Platform \/ Settings \/ UNCHANGED vars)
  BY DEF Platform, Settings, Post, Recall, Accept, Drop, Tick, BeginSave, PublishSave,
     PersistSave, FailSave, StopSave, ChangeAnswer, vars
<1>2. ~(Run \/ Crash \/ Restart)
  BY DEF Run, StartRun, FetchMentions, FetchFails, Scan, MarkInitialized, TakeSnapshot,
     NextPhase, EndRun, LeaveGroup, Crash, Restart
<1>3. ~(\E i \in todo : TakeRecoverable(i) \/ TakeOverdue(i) \/ TakeMention(i))
  BY DEF TakeRecoverable, TakeOverdue, TakeMention, LeaveGroup
<1>4. ~(Entry \/ ReadHistory \/ ReadLatestConfig \/ RecheckHistory)
  BY FinishEndsJob DEF Entry, ReadHistory, ReadLatestConfig, RecheckHistory, Decide, JobSteps
<1>5. ~Guard /\ ~CallSucceeds /\ ~CallFails
  BY CallMoves, FinishEndsJob DEF Guard, JobSteps
<1>6. CASE Claim
  BY <1>6, FinishEndsJob DEF Claim, LeaveGroup, JobSteps
<1>7. ~StoreFails /\ ~(\E m \in windows : ServeWindow(m))
  BY StoreFailsMoves, ServeWindowMoves, FinishEndsJob DEF LeaveGroup, JobSteps
<1> QED
  BY <1>1, <1>2, <1>3, <1>4, <1>5, <1>6, <1>7 DEF Next, Process

LEMMA AttemptsCountedStep ==
  ASSUME TypeOK, NoneEvicted, AttemptsCounted, FreshLease, Next \/ UNCHANGED vars
  PROVE  AttemptsCounted'
<1>1. ASSUME NEW m \in Msg, recs'[m].status = "sending"
      PROVE  recs'[m].attempts > 0
  BY <1>1, RecordMoves DEF Moved, Skipped, Still, Opened, HandedOver, Closed, ClaimedNow,
     Confirmed, AttemptsCounted
<1>2. ASSUME pc' = "call"
      PROVE  recs'[cur'.msg].status \notin {"absent", "pending"}
  <2>1. pc \in {"guard", "call"} /\ cur' = cur
    BY <1>2, CallFollows
  <2>2. pc \in JobSteps
    BY <2>1 DEF JobSteps
  <2>3. cur.msg \in Msg
    BY <2>2, JobTyped
  <2>4. recs[cur.msg].status \notin {"absent", "pending"}
    BY <2>1 DEF AttemptsCounted, FreshLease
  <2>5. Moved(cur.msg) \/ Skipped(cur.msg)
    BY <2>3, RecordMoves
  <2> QED
    BY <2>1, <2>4, <2>5 DEF Moved, Skipped, Still, Opened, HandedOver, Closed, ClaimedNow,
       Confirmed
<1> QED
  BY <1>1, <1>2 DEF AttemptsCounted

LEMMA AnswersKnownStep ==
  ASSUME TypeOK, NoneEvicted, DeliveryInv, AttemptsCounted, AnswersKnown, FreshLease,
         Next \/ UNCHANGED vars
  PROVE  AnswersKnown'
<1>1. ASSUME NEW a \in accepted'
      PROVE  delivered'[a.uuid] = 1
  <2>1. CASE Tick
    <3>1. PICK b \in accepted : a = [b EXCEPT !.age = Older(b.age)]
      BY <1>1, <2>1 DEF Tick
    <3>2. a.uuid = b.uuid
      BY <3>1 DEF TypeOK, PlatformTypeOK
    <3> QED
      BY <2>1, <3>2 DEF Tick, AnswersKnown
  <2>2. CASE accepted' = accepted /\ delivered' = delivered
    BY <1>1, <2>2 DEF AnswersKnown
  <2>3. ASSUME NEW w \in wire, delivered' = [delivered EXCEPT ![w.msg] = 1],
               accepted' = accepted \cup {[uuid |-> w.msg, age |-> 0]}
        PROVE  delivered'[a.uuid] = 1
    <3>1. w.msg \in Msg /\ delivered \in [Msg -> Nat]
          /\ \A b \in accepted : b.uuid \in Msg /\ delivered[b.uuid] = 1
      BY DEF TypeOK, PlatformTypeOK, Request, AnswersKnown
    <3>2. a \in accepted \/ a.uuid = w.msg
      BY <1>1, <2>3
    <3> QED
      BY <2>3, <3>1, <3>2
  <2> QED
    BY <2>1, <2>2, <2>3, RepliesMove
<1>2. ASSUME NEW m \in Msg, recs'[m].status = "sent"
      PROVE  delivered'[m] = 1
  <2>1. recs[m].status = "sent" \/ Confirmed(m)
    BY <1>2, RecordMoves DEF Moved, Skipped, Still, Opened, HandedOver, Closed, ClaimedNow
  <2>2. delivered[m] = 1
    BY <2>1 DEF Confirmed, AnswersKnown
  <2> QED
    BY <2>2, RepliesStay
<1>3. ASSUME pc' = "call", ack'
      PROVE  delivered'[cur'.msg] = 1
  <2>1. pc = "call" /\ cur' = cur /\ (ack' = ack \/ \E w \in wire : Accept(w))
    BY <1>3, CallFollows
  <2>2. pc \in JobSteps
    BY <2>1 DEF JobSteps
  <2>3. cur.msg \in Msg
    BY <2>2, JobTyped
  <2>4. CASE ack
    BY <2>1, <2>3, <2>4, RepliesStay DEF AnswersKnown
  <2>5. CASE ~ack
    <3>1. PICK w \in wire : Accept(w)
      BY <1>3, <2>1, <2>5
    <3>2. w.msg = cur.msg
      BY <1>3, <2>5, <3>1 DEF Accept
    <3>3. CASE Remembered(w.uuid)
      <4>1. delivered[w.msg] = 1
        BY <3>3 DEF Remembered, AnswersKnown, DeliveryInv, RequestsOnTime
      <4> QED
        BY <2>1, <2>3, <3>2, <4>1, RepliesStay
    <3>4. CASE ~Remembered(w.uuid)
      <4>1. delivered[w.msg] \in Nat /\ delivered[w.msg] <= 1 /\ delivered[w.msg] # 1
        BY <2>3, <3>2, <3>4, KeyStillRemembered DEF TypeOK, PlatformTypeOK, DeliveryInv,
           KeysRemembered
      <4> QED
        BY <2>1, <2>3, <3>1, <3>2, <3>4, <4>1 DEF Accept, TypeOK, PlatformTypeOK
    <3> QED
      BY <3>3, <3>4
  <2> QED
    BY <2>4, <2>5
<1> QED
  BY <1>1, <1>2, <1>3 DEF AnswersKnown

LEMMA RequestsOpenStep ==
  ASSUME TypeOK, NoneEvicted, PromiseInv, Next \/ UNCHANGED vars
  PROVE  RequestsOpen'
<1>a. AttemptsCounted /\ RequestsOpen /\ CertainOpen /\ FreshLease
  BY DEF PromiseInv
<1>1. CASE Guard /\ GuardVerdict = "proceed"
  <2>1. pc = "guard" /\ recs' = recs /\ \A w \in wire' : w \in wire \/ w.msg = cur.msg
    BY <1>1 DEF Guard
  <2> QED
    BY <1>a, <2>1 DEF RequestsOpen, FreshLease
<1>2. CASE ~(Guard /\ GuardVerdict = "proceed")
  <2>1. \A w \in wire' : \E v \in wire : w.msg = v.msg
    BY <1>2, GuardRequests DEF Guard
  <2>2. ASSUME NEW v \in wire
        PROVE  recs'[v.msg].status \in {"sending", "sent", "needs_manual", "failed"}
    <3>1. v.msg \in Msg /\ recs[v.msg].status \in {"sending", "sent", "needs_manual", "failed"}
      BY <1>a DEF TypeOK, PlatformTypeOK, Request, RequestsOpen
    <3>2. ~Closed(v.msg)
      BY <1>a, <3>1 DEF Closed, CertainOpen, Unfinished, Early
    <3>3. Moved(v.msg) \/ Skipped(v.msg)
      BY <1>a, <3>1, RecordMoves
    <3> QED
      BY <3>1, <3>2, <3>3 DEF Moved, Skipped, Still, Opened, HandedOver, ClaimedNow, Confirmed
  <2> QED
    BY <2>1, <2>2 DEF RequestsOpen
<1> QED
  BY <1>1, <1>2

LEMMA CertainOpenStep ==
  ASSUME TypeOK, NoneEvicted, PromiseInv, Next \/ UNCHANGED vars
  PROVE  CertainOpen'
<1>a. AttemptsCounted /\ RequestsOpen /\ CertainOpen /\ ListDistinct /\ FreshLease
  BY DEF PromiseInv
<1>b. ASSUME NEW m \in Msg, recs[m].status # "sending", ~ClaimedNow(m)
      PROVE  recs'[m].status # "sending"
  BY <1>a, <1>b, RecordMoves DEF Moved, Skipped, Still, Opened, HandedOver, Closed, Confirmed
<1>1. ASSUME NEW i \in todo, TakeRecoverable(i)
      PROVE  CertainOpen'
  <2>1. /\ phase = "recover" /\ phase' = phase /\ todo' = todo \ {i} /\ cur' = i
        /\ pc' = "entry" /\ recs' = recs
    BY <1>1 DEF TakeRecoverable
  <2> QED
    BY <1>a, <2>1 DEF CertainOpen
<1>2. ASSUME NEW i \in todo, TakeMention(i)
      PROVE  CertainOpen'
  <2>1. phase' # "recover" /\ pc' \in {"entry", "next"} /\ i \in Item /\ i.msg \in Msg
    BY <1>2 DEF TakeMention, TypeOK, RunTypeOK, Item
  <2>2. ASSUME pc' = "entry", ~cur'.uncertain
        PROVE  recs'[cur'.msg].status # "sending"
    <3>1. CASE recs[i.msg].status = "absent"
      <4>1. cur' = i /\ recs' \in Trimmed([recs EXCEPT ![i.msg] = NewRecord])
        BY <1>2, <2>2, <3>1 DEF TakeMention, Recoverable
      <4>2. recs'[i.msg] = NewRecord \/ recs'[i.msg].status = "absent"
        BY <2>1, <4>1, ChangeMoves
      <4> QED
        BY <4>1, <4>2 DEF NewRecord
    <3>2. CASE recs[i.msg].status # "absent"
      <4>1. cur' = [i EXCEPT !.uncertain = IsUncertain(recs[i.msg])] /\ recs' = recs
        BY <1>2, <2>2, <3>2 DEF TakeMention
      <4>2. cur'.msg = i.msg /\ cur'.uncertain = IsUncertain(recs[i.msg])
        BY <2>1, <4>1 DEF Item
      <4>3. ~IsUncertain(recs[i.msg])
        BY <2>2, <4>2
      <4> QED
        BY <1>a, <2>1, <4>1, <4>2, <4>3 DEF IsUncertain, AttemptsCounted
    <3> QED
      BY <3>1, <3>2
  <2> QED
    BY <2>1, <2>2 DEF CertainOpen, Early
<1>3. CASE TakeSnapshot
  <2> DEFINE entry(m) ==
        [msg |-> m, uncertain |-> IsUncertain(recs[m]),
         overdue |-> recs[m].since >= Window, withdrawn |-> FALSE, own |-> FALSE]
  <2>1. pc' = "next" /\ recs' = recs /\ \A i \in todo' : \E m \in Msg : i = entry(m)
    BY <1>3 DEF TakeSnapshot, storeVars
  <2>2. \A m \in Msg : entry(m).msg = m /\ entry(m).uncertain = IsUncertain(recs[m])
    OBVIOUS
  <2> HIDE DEF entry
  <2>3. ASSUME NEW i \in todo', ~i.uncertain
        PROVE  recs[i.msg].status # "sending"
    <3>1. PICK m \in Msg : i = entry(m)
      BY <2>1
    <3>2. i.msg = m /\ ~IsUncertain(recs[m])
      BY <2>2, <2>3, <3>1
    <3> QED
      BY <1>a, <3>2 DEF IsUncertain, AttemptsCounted
  <2> QED
    BY <2>1, <2>3 DEF CertainOpen, Early
<1>4. CASE NextPhase /\ phase = "recover"
  BY <1>4 DEF NextPhase, CertainOpen, Early
<1>5. CASE GoesOn
  <2>1. ASSUME pc' \in Early \ {"guard"}, ~cur'.uncertain
        PROVE  recs'[cur'.msg].status # "sending"
    <3>1. pc \in Early \ {"guard"} /\ pc \in JobSteps \cup {"entry"} /\ cur' = cur
      BY <1>5, <2>1 DEF GoesOn, Early, JobSteps
    <3>2. cur.msg \in Msg
      BY <3>1, JobTyped
    <3>3. recs[cur.msg].status # "sending" /\ ~ClaimedNow(cur.msg)
      BY <1>a, <2>1, <3>1 DEF CertainOpen, ClaimedNow, Early
    <3> QED
      BY <1>b, <3>1, <3>2, <3>3
  <2>2. ASSUME pc' = "guard", ~cur'.uncertain
        PROVE  \A w \in wire' : w.msg # cur'.msg
    <3>1. pc \in {"claim", "guard"} /\ cur' = cur
      BY <1>5, <2>2 DEF GoesOn, JobSteps
    <3>2. ~Guard
      BY <2>2, FinishEndsJob DEF Guard, JobSteps
    <3>3. \A w \in wire' : \E v \in wire : w.msg = v.msg
      BY <3>2, GuardRequests
    <3>4. CASE pc = "guard"
      BY <1>a, <2>2, <3>1, <3>3, <3>4 DEF CertainOpen
    <3>5. CASE pc = "claim"
      <4>1. recs[cur.msg].status # "sending"
        BY <1>a, <2>2, <3>1, <3>5 DEF CertainOpen, Early
      <4>2. recs[cur.msg].status = "pending"
        BY <2>2, <3>5, <4>1, GuardFollows DEF AllowedTransition
      <4> QED
        BY <1>a, <3>1, <3>3, <4>2 DEF RequestsOpen
    <3> QED
      BY <3>1, <3>4, <3>5
  <2>3. ASSUME phase' = "recover", NEW i \in todo', ~i.uncertain
        PROVE  recs'[i.msg].status # "sending"
    <3>1. phase = "recover" /\ i \in todo /\ i.msg \in Msg
      BY <1>5, <2>3 DEF GoesOn, TypeOK, RunTypeOK, Item
    <3>2. recs[i.msg].status # "sending" /\ ~ClaimedNow(i.msg)
      BY <1>a, <2>3, <3>1 DEF CertainOpen, ListDistinct, ClaimedNow, JobSteps
    <3> QED
      BY <1>b, <3>1, <3>2
  <2> QED
    BY <2>1, <2>2, <2>3 DEF CertainOpen
<1>6. CASE pc' = "next" /\ phase' = "followups"
  BY <1>6 DEF CertainOpen, Early
<1> QED
  BY <1>1, <1>2, <1>3, <1>4, <1>5, <1>6, ListMoves

LEMMA PromiseInitial == Init => PromiseInv
BY DEF Init, PromiseInv, AnswersKnown, RequestsOpen, AttemptsCounted, CertainOpen, ListDistinct,
   FreshLease, Absent, Early

LEMMA PromiseStep ==
  ASSUME TypeOK, DeliveryInv, PromiseInv, NoneEvicted, Next \/ UNCHANGED vars
  PROVE  PromiseInv'
<1>1. AnswersKnown /\ AttemptsCounted /\ ListDistinct /\ FreshLease
  BY DEF PromiseInv
<1>2. AnswersKnown' /\ AttemptsCounted' /\ ListDistinct' /\ FreshLease'
  BY <1>1, AnswersKnownStep, AttemptsCountedStep, ListDistinctStep, FreshLeaseStep
<1>3. RequestsOpen' /\ CertainOpen'
  BY RequestsOpenStep, CertainOpenStep
<1> QED
  BY <1>2, <1>3 DEF PromiseInv
-----------------------------------------------------------------------------
(* The verdicts.                                                            *)

LEMMA VerdictStays ==
  ASSUME NEW m, Still(m), NoGuard \/ (pc' = pc /\ cur' = cur)
  PROVE  Verdict(m)' = Verdict(m)
BY DEF Still, NoGuard, Verdict

(* The verdict on the one message whose record moves. *)
LEMMA VerdictMoves ==
  ASSUME PromiseInv, NEW h \in Msg, OneMoves(h)
  PROVE  \/ Verdict(h)' = Verdict(h)
         \/ Verdict(h) = "open" /\ Verdict(h)' \in {"attempted", "declined"}
         \/ Verdict(h) \in {"open", "attempted"} /\ Verdict(h)' = "manual"
         \/ Verdict(h) = "attempted" /\ Verdict(h)' = "sent" /\ delivered[h] = 1
<1>a. CertainOpen /\ AnswersKnown
  BY DEF PromiseInv
<1>1. CASE Still(h) /\ ~ClaimedNow(h)
  BY <1>1 DEF OneMoves, NoGuard, Still, Verdict
<1>2. CASE Opened(h)
  BY <1>2 DEF Opened, Verdict
<1>3. CASE HandedOver(h)
  BY <1>3 DEF HandedOver, Unfinished, Verdict
<1>4. CASE Closed(h)
  BY <1>a, <1>4 DEF Closed, Unfinished, CertainOpen, Verdict
<1>5. CASE ClaimedNow(h)
  BY <1>a, <1>5 DEF ClaimedNow, Unfinished, CertainOpen, Early, Verdict
<1>6. CASE Confirmed(h)
  BY <1>a, <1>6 DEF Confirmed, AnswersKnown, Verdict
<1> QED
  BY <1>1, <1>2, <1>3, <1>4, <1>5, <1>6 DEF OneMoves, Moved

(* The verdicts on the others stay what they are. *)
LEMMA OtherVerdicts ==
  ASSUME NEW h, OneMoves(h), NEW n \in Msg \ {h}
  PROVE  Verdict(n)' = Verdict(n)
BY DEF OneMoves, NoGuard, ClaimedNow, Still, Verdict

(* A reply appears only for a message that was attempted. *)
LEMMA DeliveredAttempted ==
  ASSUME TypeOK, PromiseInv, NEW w \in wire, delivered[w.msg] = 0
  PROVE  w.msg \in Msg /\ Verdict(w.msg) \in {"attempted", "manual"}
<1>1. w.msg \in Msg
  BY DEF TypeOK, PlatformTypeOK, Request
<1>2. recs[w.msg].status \in {"sending", "needs_manual", "failed"}
  BY <1>1 DEF PromiseInv, RequestsOpen, AnswersKnown
<1>3. ~(pc = "guard" /\ cur.msg = w.msg /\ ~cur.uncertain)
  BY DEF PromiseInv, CertainOpen
<1> QED
  BY <1>1, <1>2, <1>3 DEF Verdict

(* A step that delivers no reply. *)
LEMMA QuietPromise ==
  ASSUME TypeOK, PromiseInv, NoneEvicted, Next \/ UNCHANGED vars, delivered' = delivered
  PROVE  [Promise!Next]_(Promise!promiseVars)
<1> DEFINE O == [m \in Msg |-> Verdict(m)]
           P == [m \in Msg |-> Verdict(m)']
<1>1. CASE \A m \in Msg : Verdict(m)' = Verdict(m)
  BY <1>1 DEF Promise!promiseVars
<1>2. ASSUME \A m \in Msg : \/ Verdict(m)' = Verdict(m)
                            \/ Verdict(m) \in {"open", "attempted"} /\ Verdict(m)' = "manual"
      PROVE  Promise!HandOver
  <2> DEFINE S == {m \in Msg : Verdict(m)' # Verdict(m)}
  <2>1. S \in SUBSET {m \in Msg : O[m] \in {"open", "attempted"}}
    BY <1>2
  <2>2. P = [m \in Msg |-> IF m \in S THEN "manual" ELSE O[m]]
    BY <1>2
  <2> QED
    BY <2>1, <2>2 DEF Promise!HandOver
<1>3. ASSUME \A m \in Msg : \/ Verdict(m)' = Verdict(m)
                            \/ Verdict(m) = "open" /\ Verdict(m)' = "declined"
      PROVE  Promise!Decline
  <2> DEFINE S == {m \in Msg : Verdict(m)' # Verdict(m)}
  <2>1. S \in SUBSET {m \in Msg : O[m] = "open"}
    BY <1>3
  <2>2. P = [m \in Msg |-> IF m \in S THEN "declined" ELSE O[m]]
    BY <1>3
  <2> QED
    BY <2>1, <2>2 DEF Promise!Decline
<1>4. ASSUME NEW h \in Msg, \A n \in Msg \ {h} : Verdict(n)' = Verdict(n),
             Verdict(h) = "open" /\ Verdict(h)' = "attempted"
      PROVE  Promise!Attempt(h)
  <2>1. P = [O EXCEPT ![h] = "attempted"]
    BY <1>4
  <2> QED
    BY <1>4, <2>1 DEF Promise!Attempt, Promise!Become
<1>5. ASSUME NEW h \in Msg, \A n \in Msg \ {h} : Verdict(n)' = Verdict(n), delivered[h] = 1,
             Verdict(h) = "attempted" /\ Verdict(h)' = "sent"
      PROVE  Promise!Confirm(h)
  <2>1. P = [O EXCEPT ![h] = "sent"]
    BY <1>5
  <2> QED
    BY <1>5, <2>1 DEF Promise!Confirm, Promise!Become
<1>6. CASE Unmoved
  BY <1>1, <1>6, VerdictStays DEF Unmoved
<1>7. CASE NoGuard /\ \A m \in Msg : Still(m) \/ HandedOver(m)
  <2>1. ASSUME NEW m \in Msg, HandedOver(m)
        PROVE  Verdict(m) \in {"open", "attempted"} /\ Verdict(m)' = "manual"
    BY <2>1 DEF HandedOver, Unfinished, Verdict
  <2> QED
    BY <1>2, <1>7, <2>1, VerdictStays DEF Promise!Next
<1>8. CASE NoGuard /\ \A m \in Msg : Still(m) \/ Skipped(m)
  <2>1. ASSUME NEW m \in Msg, Skipped(m)
        PROVE  Verdict(m) = "open" /\ Verdict(m)' = "declined"
    BY <2>1 DEF Skipped, Verdict
  <2> QED
    BY <1>3, <1>8, <2>1, VerdictStays DEF Promise!Next
<1>9. ASSUME NEW h \in Msg, OneMoves(h)
      PROVE  [Promise!Next]_(Promise!promiseVars)
  <2>1. \A n \in Msg \ {h} : Verdict(n)' = Verdict(n)
    BY <1>9, OtherVerdicts
  <2>2. CASE Verdict(h)' = Verdict(h)
    BY <1>1, <2>1, <2>2
  <2>3. CASE Verdict(h) = "open" /\ Verdict(h)' = "attempted"
    BY <1>4, <2>1, <2>3 DEF Promise!Next
  <2>4. CASE Verdict(h) = "open" /\ Verdict(h)' = "declined"
    BY <1>3, <2>1, <2>4 DEF Promise!Next
  <2>5. CASE Verdict(h) \in {"open", "attempted"} /\ Verdict(h)' = "manual"
    BY <1>2, <2>1, <2>5 DEF Promise!Next
  <2>6. CASE Verdict(h) = "attempted" /\ Verdict(h)' = "sent" /\ delivered[h] = 1
    BY <1>5, <2>1, <2>6 DEF Promise!Next
  <2> QED
    BY <1>9, <2>2, <2>3, <2>4, <2>5, <2>6, VerdictMoves
<1> QED
  BY <1>6, <1>7, <1>8, <1>9, StepMoves DEF PromiseInv

LEMMA StepKeepsPromise ==
  ASSUME TypeOK, DeliveryInv, PromiseInv, NoneEvicted, Next \/ UNCHANGED vars
  PROVE  [Promise!Next]_(Promise!promiseVars)
<1>1. CASE delivered' = delivered
  BY <1>1, QuietPromise
<1>2. ASSUME NEW w \in wire, Accept(w), delivered[w.msg] = 0,
             delivered' = [delivered EXCEPT ![w.msg] = 1]
      PROVE  Promise!Deliver(w.msg) /\ w.msg \in Msg
  <2>1. w.msg \in Msg /\ Verdict(w.msg) \in {"attempted", "manual"}
    BY <1>2, DeliveredAttempted
  <2>2. \A m \in Msg : Verdict(m)' = Verdict(m)
    BY <1>2 DEF Accept, storeVars, Verdict
  <2> QED
    BY <1>2, <2>1, <2>2 DEF Promise!Deliver
<1>3. Tick => delivered' = delivered
  BY DEF Tick
<1> QED
  BY <1>1, <1>2, <1>3, RepliesMove DEF Promise!Next

(***************************************************************************)
(* As long as no record is evicted, the worker keeps its promise for each  *)
(* message: the verdict on it is never taken back, "sent" is only said     *)
(* when its reply appeared, and it is only declined while no request for   *)
(* it was made (KeepsPromise: the worker implements ReplyPromise).         *)
(***************************************************************************)
THEOREM PromiseKept == Spec /\ [][NoneEvicted]_vars => KeepsPromise
<1>1. Init => Promise!Init /\ PromiseInv
  <2>1. ASSUME Init, NEW m \in Msg
        PROVE  Verdict(m) = "open" /\ delivered[m] = 0
    BY <2>1 DEF Init, Absent, Verdict
  <2>2. Init => delivered = [m \in Msg |-> 0]
    BY DEF Init
  <2> QED
    BY <2>1, <2>2, PromiseInitial DEF Promise!Init
<1>2. UNCHANGED vars => NoneEvicted
  BY DEF vars, storeVars, NoneEvicted
<1>3. TypeOK /\ DeliveryInv /\ PromiseInv /\ [NoneEvicted]_vars /\ [Next]_vars
        => PromiseInv' /\ [Promise!Next]_(Promise!promiseVars)
  <2> SUFFICES ASSUME TypeOK, DeliveryInv, PromiseInv, [NoneEvicted]_vars, [Next]_vars
               PROVE  PromiseInv' /\ [Promise!Next]_(Promise!promiseVars)
    OBVIOUS
  <2>1. NoneEvicted /\ (Next \/ UNCHANGED vars)
    BY <1>2
  <2>2. PromiseInv'
    BY <2>1, PromiseStep
  <2>3. [Promise!Next]_(Promise!promiseVars)
    BY <2>1, StepKeepsPromise
  <2> QED
    BY <2>2, <2>3
<1> QED
  BY <1>1, <1>3, DeliveryInit, DeliveryStep, TypeCorrect, PTL
     DEF Spec, KeepsPromise, Promise!Spec

(***************************************************************************)
(* While there are no more messages than the worker retains records of, it *)
(* implements ReplyPromise outright (KeepsPromise; the 5 000 records of    *)
(* TERMINAL_REPLY_RETENTION).                                              *)
(***************************************************************************)
THEOREM PromiseKeptUntilFull ==
  ASSUME Cardinality(Msg) <= Retention
  PROVE  Spec => KeepsPromise
<1>1. TypeOK /\ [Next]_vars => [NoneEvicted]_vars
  BY StepDropsNone
<1> QED
  BY <1>1, PromiseKept, TypeCorrect, PTL DEF Spec
=============================================================================
