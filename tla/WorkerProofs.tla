---------------------------- MODULE WorkerProofs ----------------------------
(***************************************************************************)
(* What holds of the worker for any number of messages, groups, settings   *)
(* and faults, and for any time bounds that satisfy WorkerAssumption.      *)
(***************************************************************************)
EXTENDS Worker, FiniteSetTheorems, TLAPS

-----------------------------------------------------------------------------
(* The operations on the outbox.                                            *)

(***************************************************************************)
(* A new record, and every way of writing one, yields a record             *)
(* (createReplyRecord, setStatus).                                         *)
(***************************************************************************)
LEMMA RecordTypes ==
  /\ Absent \in Record
  /\ NewRecord \in Record
  /\ \A r \in Record : Claimed(r) \in Record
  /\ \A r \in Record : \A s \in Status : WithStatus(r, s) \in Record
<1>1. Absent \in Record /\ NewRecord \in Record
  BY OutboxAssumption DEF Absent, NewRecord, Record, Status, Unfinished, Terminal
<1>2. \A r \in Record : Claimed(r) \in Record
  BY OutboxAssumption DEF Claimed, Record, Status, Unfinished, Terminal
<1>3. ASSUME NEW r \in Record, NEW s \in Status
      PROVE  WithStatus(r, s) \in Record
  <2>1. (IF s = "sending" THEN r.lease ELSE 0) \in 0..Lease
    BY OutboxAssumption DEF Record
  <2> QED
    BY <2>1, OutboxAssumption DEF WithStatus, Record
<1> QED
  BY <1>1, <1>2, <1>3

(* One tick ages a record without leaving its type. *)
LEMMA AgedRecordType ==
  ASSUME NEW r \in Record
  PROVE  AgedRecord(r) \in Record
<1>1. Older(r.since) \in 0..Window
  BY OutboxAssumption DEF Older, Record
<1>2. (IF r.lease > 0 THEN r.lease - 1 ELSE 0) \in 0..Lease
  BY OutboxAssumption DEF Record
<1> QED
  BY <1>1, <1>2, OutboxAssumption DEF AgedRecord, Record

(***************************************************************************)
(* A trim leaves every record as it is or drops it (trimReplies).          *)
(***************************************************************************)
LEMMA TrimKeepsOrDrops ==
  ASSUME NEW r, NEW t \in Trimmed(r)
  PROVE  /\ t = [m \in Msg |-> t[m]]
         /\ \A m \in Msg : t[m] = r[m] \/ t[m] = Absent
BY DEF Trimmed, Without

(***************************************************************************)
(* Neither an unfinished record nor one the hourly limit counts is dropped *)
(* (trimReplies).                                                          *)
(***************************************************************************)
LEMMA TrimSpares ==
  ASSUME NEW x, NEW t \in Trimmed(x), NEW m \in Msg,
         x[m].status \in Unfinished \/ Reserves(x[m])
  PROVE  t[m] = x[m]
<1>1. m \notin Evictable(x)
  BY DEF Evictable, Unfinished, Terminal
<1>2. PICK S \in SUBSET Evictable(x) : t = Without(x, S)
  BY DEF Trimmed, EvictionSets
<1> QED
  BY <1>1, <1>2 DEF Without

(***************************************************************************)
(* A trim drops a record only to bring the terminal ones down to           *)
(* Retention (trimReplies).                                                *)
(***************************************************************************)
LEMMA TrimDropsNone ==
  ASSUME Cardinality(Msg) <= Retention, NEW x, NEW t \in Trimmed(x), NEW m \in Msg
  PROVE  t[m] = x[m]
<1> DEFINE E == Evictable(x)
           P == ProtectedTerminal(x)
<1>1. PICK S \in SUBSET E : /\ t = Without(x, S)
                            /\ S # {} => Cardinality(E \ S) = Capacity(x)
  BY DEF Trimmed, EvictionSets
<1>2. E \subseteq Msg /\ P \subseteq Msg /\ E \cap P = {}
  BY DEF Evictable, ProtectedTerminal
<1> HIDE DEF E, P
<1>3. IsFiniteSet(E) /\ IsFiniteSet(P) /\ IsFiniteSet(E \cup P) /\ IsFiniteSet(Msg)
      /\ Cardinality(E \cup P) <= Cardinality(Msg)
  <2>1. IsFiniteSet(Msg) /\ E \cup P \subseteq Msg
    BY <1>2, OutboxAssumption
  <2> QED
    BY <1>2, <2>1, FS_Subset
<1>4. Cardinality(E \cup P) = Cardinality(E) + Cardinality(P)
  <2>1. Cardinality(E \cap P) = 0
    BY <1>2, FS_EmptySet
  <2>2. Cardinality(E \cup P) = Cardinality(E) + Cardinality(P) - Cardinality(E \cap P)
    BY <1>3, FS_Union
  <2>3. Cardinality(E) \in Nat /\ Cardinality(P) \in Nat
    BY <1>3, FS_CardinalityType
  <2> QED
    BY <2>1, <2>2, <2>3
<1>5. Cardinality(E) \in Nat /\ Cardinality(P) \in Nat /\ Cardinality(Msg) \in Nat
      /\ Cardinality(E \cup P) \in Nat
  BY <1>3, FS_CardinalityType
<1>6. Capacity(x) >= Cardinality(E)
  <2>1. Capacity(x) = IF Cardinality(P) < Retention THEN Retention - Cardinality(P) ELSE 0
    BY DEF Capacity, P
  <2> QED
    BY <1>3, <1>4, <1>5, <2>1, OutboxAssumption
<1>7. S = {}
  <2> SUFFICES ASSUME NEW n \in S PROVE FALSE
    OBVIOUS
  <2>1. Cardinality(E \ S) = Capacity(x) /\ n \in E
    BY <1>1
  <2>2. IsFiniteSet(E \ S) /\ E \ S # E
    BY <1>3, <2>1, FS_Subset
  <2>3. Cardinality(E \ S) < Cardinality(E)
    <3>1. Cardinality(E \ S) <= Cardinality(E) /\ Cardinality(E \ S) \in Nat
      BY <1>3, <2>2, FS_Subset, FS_CardinalityType
    <3>2. Cardinality(E \ S) = Cardinality(E) => E \ S = E
      BY <1>3, FS_Subset
    <3> QED
      BY <1>5, <2>2, <3>1, <3>2
  <2>4. Cardinality(E \ S) \in Nat
    BY <2>2, FS_CardinalityType
  <2> QED
    BY <1>5, <1>6, <2>1, <2>3, <2>4
<1> QED
  BY <1>1, <1>7 DEF Without

LEMMA TrimmedType ==
  ASSUME NEW r \in [Msg -> Record], NEW t \in Trimmed(r)
  PROVE  t \in [Msg -> Record]
BY TrimKeepsOrDrops, RecordTypes

(* Counting what others reserve gives a number: the outbox is finite. *)
LEMMA ReservedBesidesType ==
  ASSUME NEW r, NEW m
  PROVE  ReservedBesides(r, m) \in Nat
<1>1. {n \in Msg \ {m} : Reserves(r[n])} \subseteq Msg
  OBVIOUS
<1>2. IsFiniteSet({n \in Msg \ {m} : Reserves(r[n])})
  BY <1>1, OutboxAssumption, FS_Subset
<1> QED
  BY <1>2, FS_CardinalityType DEF ReservedBesides

-----------------------------------------------------------------------------
(* Type correctness.                                                        *)

(* Each part of the type invariant depends on its own variables alone. *)
LEMMA TypeFrames ==
  /\ PlatformTypeOK /\ UNCHANGED platformVars => PlatformTypeOK'
  /\ SettingsTypeOK /\ UNCHANGED settingVars => SettingsTypeOK'
  /\ StoreTypeOK /\ UNCHANGED storeVars => StoreTypeOK'
  /\ RunTypeOK /\ UNCHANGED <<pc, runVars>> => RunTypeOK'
  /\ JobTypeOK /\ UNCHANGED <<pc, jobVars, faults>> => JobTypeOK'
<1>1. PlatformTypeOK /\ UNCHANGED platformVars => PlatformTypeOK'
  BY DEF PlatformTypeOK, platformVars
<1>2. SettingsTypeOK /\ UNCHANGED settingVars => SettingsTypeOK'
  BY DEF SettingsTypeOK, settingVars
<1>3. StoreTypeOK /\ UNCHANGED storeVars => StoreTypeOK'
  BY DEF StoreTypeOK, storeVars, followUpVars
<1>4. RunTypeOK /\ UNCHANGED <<pc, runVars>> => RunTypeOK'
  BY DEF RunTypeOK, runVars
<1>5. JobTypeOK /\ UNCHANGED <<pc, jobVars, faults>> => JobTypeOK'
  BY DEF JobTypeOK, jobVars
<1> QED
  BY <1>1, <1>2, <1>3, <1>4, <1>5

LEMMA InitType == Init => TypeOK
<1> SUFFICES ASSUME Init PROVE TypeOK
  OBVIOUS
<1>1. PlatformTypeOK
  BY OutboxAssumption DEF Init, PlatformTypeOK
<1>2. SettingsTypeOK
  BY DEF Init, SettingsTypeOK
<1>3. StoreTypeOK
  BY RecordTypes DEF Init, StoreTypeOK
<1>4. RunTypeOK
  BY DEF Init, RunTypeOK, PC
<1>5. JobTypeOK
  BY DEF Init, JobTypeOK, JobSteps
<1> QED
  BY <1>1, <1>2, <1>3, <1>4, <1>5 DEF TypeOK

LEMMA PlatformType ==
  ASSUME TypeOK, Platform
  PROVE  TypeOK'
<1> USE DEF TypeOK
<1>1. ASSUME NEW m \in Msg, Post(m)
      PROVE  TypeOK'
  <2>1. Posted \subseteq Msg /\ IsFiniteSet(Posted)
    BY OutboxAssumption, FS_Subset DEF Posted
  <2>2. Cardinality(Posted) + 1 \in Nat
    BY <2>1, FS_CardinalityType
  <2>3. PlatformTypeOK'
    BY <1>1, <2>2 DEF Post, PlatformTypeOK
  <2> QED
    BY <1>1, <2>3, TypeFrames DEF Post, storeVars, settingVars, runVars, jobVars
<1>2. ASSUME NEW m \in Msg, Recall(m)
      PROVE  TypeOK'
  <2>1. PlatformTypeOK'
    BY <1>2 DEF Recall, PlatformTypeOK
  <2> QED
    BY <1>2, <2>1, TypeFrames DEF Recall
<1>3. ASSUME NEW w \in wire, Accept(w)
      PROVE  TypeOK'
  <2>0. w \in Request
    BY DEF PlatformTypeOK
  <2>1. wire' \subseteq Request
    BY <1>3 DEF Accept, PlatformTypeOK
  <2>2. accepted' \subseteq [uuid : Msg, age : 0..Window]
    BY <1>3, <2>0, OutboxAssumption DEF Accept, PlatformTypeOK, Request
  <2>3. delivered' \in [Msg -> Nat]
    BY <1>3, <2>0 DEF Accept, PlatformTypeOK, Request
  <2>4. ack' \in BOOLEAN
    BY <1>3 DEF Accept
  <2>5. PlatformTypeOK'
    BY <1>3, <2>1, <2>2, <2>3 DEF Accept, PlatformTypeOK
  <2>6. JobTypeOK'
    BY <1>3, <2>4 DEF Accept, JobTypeOK
  <2> QED
    BY <1>3, <2>5, <2>6, TypeFrames DEF Accept
<1>4. ASSUME NEW w \in wire, Drop(w)
      PROVE  TypeOK'
  <2>1. PlatformTypeOK'
    BY <1>4 DEF Drop, PlatformTypeOK
  <2> QED
    BY <1>4, <2>1, TypeFrames DEF Drop
<1>5. ASSUME Tick
      PROVE  TypeOK'
  <2>1. \A n \in 0..Window : Older(n) \in 0..Window
    BY OutboxAssumption DEF Older
  <2>2. age' \in [Msg -> 0..Window]
    BY <1>5, <2>1, OutboxAssumption DEF Tick, PlatformTypeOK
  <2>3. wire' \subseteq Request
    BY <1>5, <2>1 DEF Tick, PlatformTypeOK, Request
  <2>4. accepted' \subseteq [uuid : Msg, age : 0..Window]
    BY <1>5, <2>1 DEF Tick, PlatformTypeOK
  <2>5. PlatformTypeOK'
    BY <1>5, <2>2, <2>3, <2>4 DEF Tick, PlatformTypeOK
  <2>6. StoreTypeOK'
    BY <1>5, AgedRecordType DEF Tick, StoreTypeOK, followUpVars
  <2>7. JobTypeOK'
    BY <1>5 DEF Tick, JobTypeOK
  <2> QED
    BY <1>5, <2>5, <2>6, <2>7, TypeFrames DEF Tick
<1> QED
  BY <1>1, <1>2, <1>3, <1>4, <1>5 DEF Platform

LEMMA SettingsType ==
  ASSUME TypeOK, Settings
  PROVE  TypeOK'
<1> USE DEF TypeOK
<1>1. ASSUME NEW c \in Configs, BeginSave(c)
      PROVE  TypeOK'
  <2>1. SettingsTypeOK'
    BY <1>1 DEF BeginSave, SettingsTypeOK
  <2>2. \A r \in Record : WithStatus(r, "needs_manual") \in Record
    BY RecordTypes DEF Status, Terminal
  <2>3. StoreTypeOK'
    BY <1>1, <2>2 DEF BeginSave, HandOver, StoreTypeOK, Posted, followUpVars
  <2> QED
    BY <1>1, <2>1, <2>3, TypeFrames DEF BeginSave
<1>2. ASSUME PublishSave
      PROVE  TypeOK'
  <2>1. SettingsTypeOK'
    BY <1>2 DEF PublishSave, SettingsTypeOK
  <2> QED
    BY <1>2, <2>1, TypeFrames DEF PublishSave
<1>3. ASSUME PersistSave
      PROVE  TypeOK'
  <2>1. SettingsTypeOK'
    BY <1>3 DEF PersistSave, SettingsTypeOK
  <2> QED
    BY <1>3, <2>1, TypeFrames DEF PersistSave
<1>4. ASSUME FailSave
      PROVE  TypeOK'
  <2>1. SettingsTypeOK'
    BY <1>4 DEF FailSave, SettingsTypeOK
  <2> QED
    BY <1>4, <2>1, TypeFrames DEF FailSave
<1>5. ASSUME StopSave
      PROVE  TypeOK'
  <2>1. SettingsTypeOK'
    BY <1>5 DEF StopSave, SettingsTypeOK
  <2> QED
    BY <1>5, <2>1, TypeFrames DEF StopSave
<1>6. ASSUME NEW a \in Answers \cup {None}, ChangeAnswer(a)
      PROVE  TypeOK'
  <2>1. SettingsTypeOK'
    BY <1>6 DEF ChangeAnswer, SettingsTypeOK
  <2> QED
    BY <1>6, <2>1, TypeFrames DEF ChangeAnswer
<1> QED
  BY <1>1, <1>2, <1>3, <1>4, <1>5, <1>6 DEF Settings

(* The two ways a step gives up the record or the group in processing. *)
LEMMA LeaveGroupType ==
  ASSUME TypeOK, LeaveGroup, faults' \in Nat, pc \notin {"down", "idle"}
  PROVE  RunTypeOK' /\ JobTypeOK'
<1>1. RunTypeOK'
  BY DEF LeaveGroup, TypeOK, RunTypeOK, PC
<1>2. JobTypeOK'
  BY DEF LeaveGroup, NoJob, TypeOK, JobTypeOK, JobSteps
<1> QED
  BY <1>1, <1>2

LEMMA BackToLoopType ==
  ASSUME TypeOK, BackToLoop, faults' \in Nat, pc \notin {"down", "idle", "group"}
  PROVE  RunTypeOK' /\ JobTypeOK'
<1>1. RunTypeOK'
  BY DEF BackToLoop, runVars, TypeOK, RunTypeOK, PC
<1>2. JobTypeOK'
  BY DEF BackToLoop, NoJob, TypeOK, JobTypeOK, JobSteps
<1> QED
  BY <1>1, <1>2

LEMMA RunType ==
  ASSUME TypeOK, Run
  PROVE  TypeOK'
<1> USE DEF TypeOK
<1>1. ASSUME StartRun
      PROVE  TypeOK'
  <2>1. RunTypeOK'
    BY <1>1, WorkerAssumption DEF StartRun, RunTypeOK, SettingsTypeOK, PC, Posted, Config
  <2>2. JobTypeOK'
    BY <1>1 DEF StartRun, JobTypeOK, jobVars, JobSteps
  <2> QED
    BY <1>1, <2>1, <2>2, TypeFrames DEF StartRun
<1>2. ASSUME NEW g \in Group, FetchMentions(g)
      PROVE  TypeOK'
  <2>1. fetched' \subseteq Item
    <3>1. \A m \in Msg : (m \in recalled) \in BOOLEAN /\ (m \in Own) \in BOOLEAN
      OBVIOUS
    <3>2. \A m \in Msg, b, c \in BOOLEAN :
            [msg |-> m, uncertain |-> FALSE, overdue |-> FALSE, withdrawn |-> b,
             own |-> c] \in Item
      BY DEF Item
    <3>3. {n \in scope \cap Mentions : GroupOf[n] = g} \subseteq Msg
      BY DEF RunTypeOK
    <3> QED
      BY <1>2, <3>1, <3>2, <3>3 DEF FetchMentions
  <2>2. RunTypeOK'
    BY <1>2, <2>1 DEF FetchMentions, RunTypeOK, PC
  <2>3. JobTypeOK'
    BY <1>2 DEF FetchMentions, JobTypeOK, jobVars, JobSteps
  <2> QED
    BY <1>2, <2>2, <2>3, TypeFrames DEF FetchMentions
<1>3. ASSUME NEW g \in Group, FetchFails(g)
      PROVE  TypeOK'
  <2>1. RunTypeOK'
    BY <1>3 DEF FetchFails, RunTypeOK
  <2> QED
    BY <1>3, <2>1, TypeFrames DEF FetchFails
<1>4. ASSUME Scan
      PROVE  TypeOK'
  <2>1. \A r \in Record : MarkedIgnored(r) \in Record
    BY RecordTypes DEF MarkedIgnored, Status, Terminal
  <2>2. [m \in Msg |-> IF \E i \in fetched : i.msg = m THEN MarkedIgnored(recs[m])
                       ELSE recs[m]] \in [Msg -> Record]
    BY <2>1 DEF StoreTypeOK
  <2>3. recs' \in [Msg -> Record]
    BY <1>4, <2>2, TrimmedType DEF Scan, StoreTypeOK
  <2>4. StoreTypeOK'
    BY <1>4, <2>3 DEF Scan, StoreTypeOK, followUpVars
  <2>5. RunTypeOK'
    BY <1>4 DEF Scan, RunTypeOK, runVars, PC
  <2>6. JobTypeOK'
    BY <1>4 DEF Scan, JobTypeOK, jobVars, JobSteps
  <2> QED
    BY <1>4, <2>4, <2>5, <2>6, TypeFrames DEF Scan
<1>5. ASSUME MarkInitialized
      PROVE  TypeOK'
  <2>1. StoreTypeOK'
    BY <1>5 DEF MarkInitialized, StoreTypeOK, RunTypeOK, followUpVars
  <2>2. RunTypeOK' /\ JobTypeOK'
    <3>1. CASE cfg.mark
      BY <1>5, <3>1, LeaveGroupType DEF MarkInitialized, JobTypeOK
    <3>2. CASE ~cfg.mark
      BY <1>5, <3>2 DEF MarkInitialized, RunTypeOK, JobTypeOK, runVars, jobVars, PC, JobSteps
    <3> QED
      BY <3>1, <3>2
  <2> QED
    BY <1>5, <2>1, <2>2, TypeFrames DEF MarkInitialized
<1>6. ASSUME TakeSnapshot
      PROVE  TypeOK'
  <2>1. todo' \subseteq Item
    <3>1. \A m \in Msg : IsUncertain(recs[m]) \in BOOLEAN
                         /\ (recs[m].since >= Window) \in BOOLEAN
      BY DEF IsUncertain
    <3>2. \A m \in Msg, b, c \in BOOLEAN :
            [msg |-> m, uncertain |-> b, overdue |-> c, withdrawn |-> FALSE,
             own |-> FALSE] \in Item
      BY DEF Item
    <3> QED
      BY <1>6, <3>1, <3>2 DEF TakeSnapshot
  <2>2. RunTypeOK'
    BY <1>6, <2>1 DEF TakeSnapshot, RunTypeOK, PC
  <2>3. JobTypeOK'
    BY <1>6 DEF TakeSnapshot, JobTypeOK, jobVars, JobSteps
  <2> QED
    BY <1>6, <2>2, <2>3, TypeFrames DEF TakeSnapshot
<1>7. ASSUME NextPhase
      PROVE  TypeOK'
  <2>1. RunTypeOK' /\ JobTypeOK'
    <3>1. CASE phase = "recover"
      BY <1>7, <3>1 DEF NextPhase, RunTypeOK, JobTypeOK, jobVars
    <3>2. CASE phase = "mentions"
      <4>1. windows' \subseteq Msg
        BY <1>7, <3>2 DEF NextPhase, NewestBySender, OpenWindows
      <4> QED
        BY <1>7, <3>2, <4>1 DEF NextPhase, RunTypeOK, JobTypeOK, jobVars
    <3>3. CASE phase = "followups"
      BY <1>7, <3>3, LeaveGroupType DEF NextPhase, JobTypeOK
    <3> QED
      BY <1>7, <3>1, <3>2, <3>3 DEF NextPhase
  <2> QED
    BY <1>7, <2>1, TypeFrames DEF NextPhase
<1>8. ASSUME EndRun
      PROVE  TypeOK'
  <2>1. RunTypeOK'
    BY <1>8 DEF EndRun, RunTypeOK, PC
  <2>2. JobTypeOK'
    BY <1>8 DEF EndRun, JobTypeOK, jobVars, JobSteps
  <2> QED
    BY <1>8, <2>1, <2>2, TypeFrames DEF EndRun
<1> QED
  BY <1>1, <1>2, <1>3, <1>4, <1>5, <1>6, <1>7, <1>8 DEF Run

-----------------------------------------------------------------------------
(* The processing of a record.                                              *)

(* The record in processing is one of the messages, its group a group. *)
LEMMA JobTyped ==
  ASSUME TypeOK, pc \in JobSteps \cup {"entry"}
  PROVE  /\ cur \in Item /\ cur.msg \in Msg
         /\ recs[cur.msg] \in Record
         /\ pc \notin {"down", "idle", "group"}
BY DEF TypeOK, JobTypeOK, StoreTypeOK, Item, JobSteps

LEMMA FinishType ==
  ASSUME TypeOK, NEW m \in Msg, NEW s \in Status, Finish(m, s), faults' \in Nat,
         pc \notin {"down", "idle", "group"}
  PROVE  recs' \in [Msg -> Record] /\ RunTypeOK' /\ JobTypeOK'
<1>1. CASE AllowedTransition(recs[m].status, s)
  <2>1. [recs EXCEPT ![m] = WithStatus(recs[m], s)] \in [Msg -> Record]
    BY RecordTypes DEF TypeOK, StoreTypeOK
  <2>2. recs' \in Trimmed([recs EXCEPT ![m] = WithStatus(recs[m], s)]) /\ BackToLoop
    BY <1>1 DEF Finish
  <2> QED
    BY <2>1, <2>2, TrimmedType, BackToLoopType
<1>2. CASE ~AllowedTransition(recs[m].status, s)
  <2>1. UNCHANGED recs /\ LeaveGroup
    BY <1>2 DEF Finish
  <2> QED
    BY <2>1, LeaveGroupType DEF TypeOK, StoreTypeOK
<1> QED
  BY <1>1, <1>2

LEMMA SettledType ==
  ASSUME NEW s \in Status
  PROVE  Settled(s) \in Status
BY DEF Settled, Status, Terminal

LEMMA DecideType ==
  ASSUME TypeOK, pc \in JobSteps \cup {"entry"}, UNCHANGED faults,
         NEW v \in Status \cup {"proceed"}, NEW step \in JobSteps, Decide(v, step)
  PROVE  recs' \in [Msg -> Record] /\ RunTypeOK' /\ JobTypeOK'
<1>1. CASE v = "proceed"
  <2>1. pc' = step /\ UNCHANGED <<recs, runVars, jobVars>>
    BY <1>1 DEF Decide
  <2>2. RunTypeOK'
    BY <2>1, JobTyped DEF TypeOK, RunTypeOK, runVars, PC
  <2>3. JobTypeOK'
    BY <2>1, JobTyped DEF TypeOK, JobTypeOK, jobVars
  <2> QED
    BY <2>1, <2>2, <2>3 DEF TypeOK, StoreTypeOK
<1>2. CASE v # "proceed"
  BY <1>2, JobTyped, FinishType, SettledType DEF Decide, TypeOK, JobTypeOK
<1> QED
  BY <1>1, <1>2

LEMMA RetryType ==
  ASSUME TypeOK, pc \in JobSteps \cup {"entry"}, faults' \in Nat, RetryLater(cur.msg)
  PROVE  recs' \in [Msg -> Record] /\ RunTypeOK' /\ JobTypeOK'
<1>1. PICK s \in {"needs_manual", "sending"} : Finish(cur.msg, s)
  BY DEF RetryLater
<1>2. s \in Status
  BY DEF Status, Unfinished, Terminal
<1> QED
  BY <1>1, <1>2, JobTyped, FinishType

LEMMA ProcessType ==
  ASSUME TypeOK, Process
  PROVE  TypeOK'
<1> DEFINE Parts == recs' \in [Msg -> Record] /\ RunTypeOK' /\ JobTypeOK'
<1>a. ASSUME Parts,
             UNCHANGED <<platformVars, settingVars, initialized, historical, followUpVars>>
      PROVE  TypeOK'
  <2>1. StoreTypeOK'
    BY <1>a DEF TypeOK, StoreTypeOK, followUpVars
  <2> QED
    BY <1>a, <2>1, TypeFrames DEF TypeOK
<1>b. "proceed" \notin Status /\ {"needs_manual", "recalled", "ignored", "dry_run"} \subseteq Status
  BY DEF Status, Unfinished, Terminal
<1>1. ASSUME NEW i \in todo, TakeRecoverable(i)
      PROVE  TypeOK'
  <2>1. RunTypeOK' /\ JobTypeOK'
    BY <1>1 DEF TakeRecoverable, Outside, TypeOK, RunTypeOK, JobTypeOK, PC, JobSteps
  <2> QED
    BY <1>1, <2>1, <1>a DEF TakeRecoverable, Outside, TypeOK, StoreTypeOK
<1>2. ASSUME NEW i \in todo, TakeOverdue(i)
      PROVE  TypeOK'
  <2>1. i.msg \in Msg
    BY DEF TypeOK, RunTypeOK, Item
  <2>2. CASE AllowedTransition(recs[i.msg].status, "needs_manual")
    <3>1. [recs EXCEPT ![i.msg] = WithStatus(recs[i.msg], "needs_manual")] \in [Msg -> Record]
      BY <2>1, <1>b, RecordTypes DEF TypeOK, StoreTypeOK
    <3>2. recs' \in [Msg -> Record]
      BY <1>2, <2>2, <3>1, TrimmedType DEF TakeOverdue
    <3>3. RunTypeOK' /\ JobTypeOK'
      BY <1>2, <2>2 DEF TakeOverdue, Outside, TypeOK, RunTypeOK, JobTypeOK, jobVars
    <3> QED
      BY <1>2, <3>2, <3>3, <1>a DEF TakeOverdue, Outside
  <2>3. CASE ~AllowedTransition(recs[i.msg].status, "needs_manual")
    <3>1. RunTypeOK' /\ JobTypeOK'
      BY <1>2, <2>3, LeaveGroupType DEF TakeOverdue, Outside, TypeOK, JobTypeOK
    <3> QED
      BY <1>2, <2>3, <3>1, <1>a DEF TakeOverdue, Outside, TypeOK, StoreTypeOK
  <2> QED
    BY <2>2, <2>3
<1>3. ASSUME NEW i \in todo, TakeMention(i)
      PROVE  TypeOK'
  <2>1. i \in Item /\ i.msg \in Msg
    BY DEF TypeOK, RunTypeOK, Item
  <2>2. recs' \in [Msg -> Record]
    <3>1. [recs EXCEPT ![i.msg] = NewRecord] \in [Msg -> Record]
      BY RecordTypes DEF TypeOK, StoreTypeOK
    <3> QED
      BY <1>3, <3>1, TrimmedType DEF TakeMention, TypeOK, StoreTypeOK
  <2>3. RunTypeOK'
    BY <1>3 DEF TakeMention, TypeOK, RunTypeOK, PC
  <2>4. [i EXCEPT !.uncertain = IsUncertain(recs[i.msg])] \in Item
    <3>1. IsUncertain(recs[i.msg]) \in BOOLEAN
      BY DEF IsUncertain
    <3>2. \A b \in BOOLEAN : [i EXCEPT !.uncertain = b] \in Item
      BY <2>1 DEF Item
    <3> QED
      BY <3>1, <3>2
  <2>5. JobTypeOK'
    BY <1>3, <2>1, <2>4 DEF TakeMention, Outside, TypeOK, JobTypeOK, JobSteps
  <2> QED
    BY <1>3, <2>2, <2>3, <2>5, <1>a DEF TakeMention, Outside
<1>4. ASSUME Entry
      PROVE  TypeOK'
  <2>1. EntryVerdict \in Status \cup {"proceed"}
    BY <1>b DEF EntryVerdict
  <2>2. Parts
    BY <1>4, <2>1, DecideType DEF Entry, Outside, JobSteps
  <2> QED
    BY <1>4, <2>2, <1>a DEF Entry, Outside
<1>5. ASSUME ReadHistory
      PROVE  TypeOK'
  <2>1. HistoryVerdicts \subseteq Status \cup {"proceed"}
    BY <1>b DEF HistoryVerdicts, LookupVerdicts, Composed
  <2>2. Parts
    BY <1>5, <2>1, DecideType DEF ReadHistory, Outside, JobSteps
  <2> QED
    BY <1>5, <2>2, <1>a DEF ReadHistory, Outside
<1>6. ASSUME ReadLatestConfig
      PROVE  TypeOK'
  <2>1. PICK v \in {"ignored", "needs_manual", "dry_run", "proceed"} : Decide(v, "recheck")
    BY <1>6 DEF ReadLatestConfig
  <2>2. Parts
    BY <1>6, <2>1, <1>b, DecideType DEF ReadLatestConfig, Outside, JobSteps
  <2> QED
    BY <1>6, <2>2, <1>a DEF ReadLatestConfig, Outside
<1>7. ASSUME RecheckHistory
      PROVE  TypeOK'
  <2>1. LookupVerdicts("proceed") \subseteq Status \cup {"proceed"}
    BY <1>b DEF LookupVerdicts
  <2>2. Parts
    BY <1>7, <2>1, DecideType DEF RecheckHistory, Outside, JobSteps
  <2> QED
    BY <1>7, <2>2, <1>a DEF RecheckHistory, Outside
<1>8. ASSUME Claim
      PROVE  TypeOK'
  <2>1. pc = "claim" /\ pc \in JobSteps \cup {"entry"} /\ UNCHANGED faults
    BY <1>8 DEF Claim, Outside, JobSteps
  <2>2. CASE ClaimVerdict = "proceed" /\ AllowedTransition(recs[cur.msg].status, "sending")
    <3>1. [recs EXCEPT ![cur.msg] = Claimed(recs[cur.msg])] \in [Msg -> Record]
      BY <2>1, JobTyped, RecordTypes DEF TypeOK, StoreTypeOK
    <3>2. recs' \in [Msg -> Record]
      BY <1>8, <2>2, <3>1, TrimmedType DEF Claim
    <3>3. RunTypeOK'
      BY <1>8, <2>1, <2>2 DEF Claim, TypeOK, RunTypeOK, runVars, PC, JobSteps
    <3>4. text' \in Answers \cup {None}
      BY <1>8, <2>2 DEF Claim, TypeOK, SettingsTypeOK
    <3>5. reserved' \in Nat
      BY <1>8, <2>2, ReservedBesidesType DEF Claim
    <3>6. JobTypeOK'
      BY <1>8, <2>1, <2>2, <3>4, <3>5 DEF Claim, TypeOK, JobTypeOK
    <3> QED
      BY <1>8, <3>2, <3>3, <3>6, <1>a DEF Claim, Outside
  <2>3. CASE ClaimVerdict = "proceed" /\ ~AllowedTransition(recs[cur.msg].status, "sending")
    <3>1. RunTypeOK' /\ JobTypeOK'
      BY <1>8, <2>1, <2>3, LeaveGroupType DEF Claim, TypeOK, JobTypeOK
    <3> QED
      BY <1>8, <2>3, <3>1, <1>a DEF Claim, Outside, TypeOK, StoreTypeOK
  <2>4. CASE ClaimVerdict # "proceed"
    <3>1. ClaimVerdict \in Status
      BY <2>4, <1>b DEF ClaimVerdict
    <3>2. Finish(cur.msg, Settled(ClaimVerdict))
      BY <1>8, <2>4 DEF Claim
    <3>3. Parts
      BY <2>1, <3>1, <3>2, JobTyped, FinishType, SettledType DEF TypeOK, JobTypeOK
    <3> QED
      BY <1>8, <3>3, <1>a DEF Claim, Outside
  <2> QED
    BY <2>2, <2>3, <2>4
<1>9. ASSUME Guard
      PROVE  TypeOK'
  <2>1. pc = "guard" /\ pc \in JobSteps \cup {"entry"} /\ UNCHANGED faults
    BY <1>9 DEF Guard, JobSteps
  <2>2. CASE GuardVerdict = "proceed"
    <3>1. [msg |-> cur.msg, attempt |-> recs[cur.msg].attempts,
           uuid |-> Uuid(cur.msg, recs[cur.msg].attempts), age |-> 0] \in Request
      BY <2>1, JobTyped, OutboxAssumption DEF Request, Uuid, Record
    <3>2. PlatformTypeOK'
      BY <1>9, <2>2, <3>1 DEF Guard, TypeOK, PlatformTypeOK
    <3>3. RunTypeOK'
      BY <1>9, <2>1, <2>2 DEF Guard, TypeOK, RunTypeOK, runVars, PC, JobSteps
    <3>4. JobTypeOK'
      BY <1>9, <2>1, <2>2 DEF Guard, TypeOK, JobTypeOK
    <3>5. StoreTypeOK'
      BY <1>9, <2>2 DEF Guard, TypeOK, StoreTypeOK, followUpVars
    <3> QED
      BY <1>9, <3>2, <3>3, <3>4, <3>5, TypeFrames DEF Guard, TypeOK
  <2>3. CASE GuardVerdict # "proceed"
    <3>1. GuardVerdict \in Status
      BY <2>3, <1>b DEF GuardVerdict
    <3>2. Finish(cur.msg, Settled(GuardVerdict))
      BY <1>9, <2>3 DEF Guard
    <3>3. Parts
      BY <2>1, <3>1, <3>2, JobTyped, FinishType, SettledType DEF TypeOK, JobTypeOK
    <3>4. UNCHANGED <<platformVars, settingVars, initialized, historical, followUpVars>>
      BY <1>9, <2>3 DEF Guard, platformVars
    <3> QED
      BY <3>3, <3>4, <1>a
  <2> QED
    BY <2>2, <2>3
<1>10. ASSUME CallSucceeds
       PROVE  TypeOK'
  <2>1. pc = "call" /\ pc \in JobSteps \cup {"entry"} /\ UNCHANGED faults
    BY <1>10 DEF CallSucceeds, JobSteps
  <2>2. Finish(cur.msg, "sent") /\ "sent" \in Status
    BY <1>10 DEF CallSucceeds, Finish, Status, Terminal
  <2>3. Parts
    BY <2>1, <2>2, JobTyped, FinishType DEF TypeOK, JobTypeOK
  <2>4. Cardinality(Posted) \in Nat
    BY OutboxAssumption, FS_Subset, FS_CardinalityType DEF Posted
  <2>5. StoreTypeOK'
    BY <1>10, <2>3, <2>4 DEF CallSucceeds, TypeOK, StoreTypeOK
  <2> QED
    BY <1>10, <2>3, <2>5, TypeFrames DEF CallSucceeds, TypeOK
<1>11. ASSUME CallFails
       PROVE  TypeOK'
  <2>1. pc = "call" /\ pc \in JobSteps \cup {"entry"} /\ UNCHANGED faults
    BY <1>11 DEF CallFails, Outside, JobSteps
  <2>2. Parts
    BY <1>11, <2>1, RetryType DEF CallFails, TypeOK, JobTypeOK
  <2> QED
    BY <1>11, <2>2, <1>a DEF CallFails, Outside
<1>12. ASSUME NEW m \in windows, ServeWindow(m)
       PROVE  TypeOK'
  <2>1. m \in Msg /\ pc = "next"
    BY <1>12 DEF ServeWindow, TypeOK, RunTypeOK
  <2>2. RunTypeOK' /\ JobTypeOK'
    <3>1. \A n \in Msg : [msg |-> n, uncertain |-> FALSE, overdue |-> FALSE,
                         withdrawn |-> FALSE, own |-> FALSE] \in Item
      BY DEF Item
    <3>2. HumanAfter(m) \subseteq Msg
      BY DEF HumanAfter, PageAfter, Posted
    <3>3. CASE LeaveGroup
      BY <1>12, <2>1, <3>3, LeaveGroupType DEF ServeWindow, TypeOK, JobTypeOK
    <3>4. CASE ~LeaveGroup
      <4>1. todo' \subseteq Item /\ windows' \subseteq Msg
        BY <1>12, <3>1, <3>2, <3>4 DEF ServeWindow, TypeOK, RunTypeOK
      <4>2. UNCHANGED <<pc, cfg, scope, groupsLeft, group, fetched, phase, jobVars>>
        BY <1>12, <3>4 DEF ServeWindow
      <4> QED
        BY <1>12, <4>1, <4>2 DEF ServeWindow, TypeOK, RunTypeOK, JobTypeOK, jobVars
    <3> QED
      BY <3>3, <3>4
  <2>3. closed' \subseteq Msg
    BY <1>12, <2>1 DEF ServeWindow, TypeOK, StoreTypeOK
  <2>4. StoreTypeOK'
    BY <1>12, <2>3 DEF ServeWindow, TypeOK, StoreTypeOK
  <2> QED
    BY <1>12, <2>2, <2>4, TypeFrames DEF ServeWindow, TypeOK
<1> QED
  BY <1>1, <1>2, <1>3, <1>4, <1>5, <1>6, <1>7, <1>8, <1>9, <1>10, <1>11, <1>12 DEF Process

LEMMA StoreFailsType ==
  ASSUME TypeOK, StoreFails
  PROVE  TypeOK'
<1>1. faults' \in Nat
  BY DEF StoreFails, TypeOK, JobTypeOK
<1>2. pc \notin {"down", "idle", "group"}
  BY DEF StoreFails, UsesStore
<1>3. recs' \in [Msg -> Record] /\ RunTypeOK' /\ JobTypeOK'
  <2>1. CASE UNCHANGED recs /\ LeaveGroup
    BY <1>1, <1>2, <2>1, LeaveGroupType DEF TypeOK, StoreTypeOK
  <2>2. CASE pc = "guard" /\ RetryLater(cur.msg)
    BY <1>1, <2>2, RetryType DEF JobSteps
  <2> QED
    BY <2>1, <2>2 DEF StoreFails
<1>4. StoreTypeOK'
  BY <1>3 DEF StoreFails, TypeOK, StoreTypeOK, followUpVars
<1> QED
  BY <1>3, <1>4, TypeFrames DEF StoreFails, TypeOK

LEMMA CrashRestartType ==
  ASSUME TypeOK, Crash \/ Restart
  PROVE  TypeOK'
<1> USE DEF TypeOK
<1>1. ASSUME Crash
      PROVE  TypeOK'
  <2>1. SettingsTypeOK' /\ StoreTypeOK'
    BY <1>1 DEF Crash, SettingsTypeOK, storeVars, followUpVars, StoreTypeOK
  <2>2. RunTypeOK'
    BY <1>1 DEF Crash, RunTypeOK, PC
  <2>3. faults' \in Nat
    BY <1>1 DEF Crash, JobTypeOK
  <2>4. JobTypeOK'
    BY <1>1, <2>3 DEF Crash, NoJob, JobTypeOK, JobSteps
  <2> QED
    BY <1>1, <2>1, <2>2, <2>4, TypeFrames DEF Crash
<1>2. ASSUME Restart
      PROVE  TypeOK'
  <2>1. SettingsTypeOK'
    BY <1>2 DEF Restart, SettingsTypeOK
  <2>2. RunTypeOK'
    BY <1>2 DEF Restart, RunTypeOK, runVars, PC
  <2>3. JobTypeOK'
    BY <1>2 DEF Restart, JobTypeOK, jobVars, JobSteps
  <2> QED
    BY <1>2, <2>1, <2>2, <2>3, TypeFrames DEF Restart
<1> QED
  BY <1>1, <1>2

LEMMA TypeStep == TypeOK /\ [Next]_vars => TypeOK'
<1> SUFFICES ASSUME TypeOK, [Next]_vars PROVE TypeOK'
  OBVIOUS
<1>1. CASE UNCHANGED vars
  BY <1>1, TypeFrames DEF vars, TypeOK
<1>2. CASE Next
  BY <1>2, PlatformType, SettingsType, RunType, ProcessType, StoreFailsType,
     CrashRestartType DEF Next
<1> QED
  BY <1>1, <1>2

(***************************************************************************)
(* The worker, the platform and the settings stay within their types.      *)
(***************************************************************************)
THEOREM TypeCorrect == Spec => []TypeOK
BY InitType, TypeStep, PTL DEF Spec
=============================================================================
