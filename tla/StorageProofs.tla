--------------------------- MODULE StorageProofs ---------------------------
(***************************************************************************)
(* The database keeps the promise of the stores (ImplementsStateStore) and *)
(* no copy of a record is merged into a less settled one (NoSendForgotten),*)
(* for any number of records and callers: StorageInv is inductive.         *)
(***************************************************************************)
EXTENDS Storage, SequenceTheorems, TLAPS

-----------------------------------------------------------------------------
(* Records, their merge and their updates.                                 *)

(* Records as stored: only what is absent says so.                         *)
Proper(recs) ==
  recs \in [Id -> Reply] /\ \A i \in Id : recs[i].status = "absent" => recs[i] = NoReply

LEMMA NoReplyType ==
  NoReply \in Reply /\ NoReply.status = "absent" /\ Proper(NoReplies)
BY StorageAssumption DEF NoReply, NoReplies, Reply, Proper

LEMMA SafetyType == \A r \in Reply : Safety(r) \in 0..4
BY DEF Safety

(* The merge of two records is a record, at least as settled as each of    *)
(* them (mergeReplyConflict).                                              *)
LEMMA ConflictMerged ==
  ASSUME NEW d \in Reply, NEW o \in Reply, d.status # "absent", o.status # "absent"
  PROVE  /\ MergeConflict(d, o) \in Reply
         /\ MergeConflict(d, o).status # "absent"
         /\ Safety(MergeConflict(d, o)) >= Safety(d)
         /\ Safety(MergeConflict(d, o)) >= Safety(o)
<1>1. Winner(d, o) \in {d, o}
  BY DEF Winner
<1>2. Safety(Winner(d, o)) >= Safety(d) /\ Safety(Winner(d, o)) >= Safety(o)
  BY SafetyType DEF Winner
<1>3. Safety(MergeConflict(d, o)) = Safety(Winner(d, o))
  BY DEF MergeConflict, Safety
<1>4. /\ Larger(d.attempts, o.attempts) \in 0..MaxAttempts
      /\ Larger(d.updated, o.updated) \in 0..Now
      /\ (d.task \/ o.task) \in BOOLEAN
  BY DEF Larger, Reply
<1>5. MergeConflict(d, o) \in Reply
  BY <1>1, <1>4 DEF MergeConflict, Reply
<1>6. MergeConflict(d, o).status # "absent"
  BY <1>1 DEF MergeConflict
<1> QED
  BY <1>2, <1>3, <1>5, <1>6

(* The same of all records (mergeReplyRecords).                            *)
LEMMA AllMerged ==
  ASSUME NEW document, Proper(document), NEW table, Proper(table)
  PROVE  /\ Proper(Merge(document, table))
         /\ \A i \in Id : /\ Safety(Merge(document, table)[i]) >= Safety(document[i])
                          /\ Safety(Merge(document, table)[i]) >= Safety(table[i])
<1> SUFFICES ASSUME NEW i \in Id
             PROVE  LET m == Merge(document, table)[i]
                    IN /\ m \in Reply /\ (m.status = "absent" => m = NoReply)
                       /\ Safety(m) >= Safety(document[i]) /\ Safety(m) >= Safety(table[i])
  BY DEF Proper, Merge
<1>1. document[i] \in Reply /\ table[i] \in Reply
  BY DEF Proper
<1>2. Safety(NoReply) = 0 /\ Safety(document[i]) \in Nat /\ Safety(table[i]) \in Nat
  BY <1>1, SafetyType DEF Safety, NoReply
<1>3. CASE document[i] = NoReply
  BY <1>1, <1>2, <1>3 DEF Merge, Proper
<1>4. CASE document[i] # NoReply /\ table[i] = NoReply
  BY <1>1, <1>2, <1>4 DEF Merge, Proper
<1>5. CASE document[i] # NoReply /\ table[i] # NoReply
  <2>1. document[i].status # "absent" /\ table[i].status # "absent"
    BY <1>5 DEF Proper
  <2>2. Merge(document, table)[i] = MergeConflict(document[i], table[i])
    BY <1>5 DEF Merge
  <2> QED
    BY <1>1, <2>1, <2>2, ConflictMerged
<1> QED
  BY <1>3, <1>4, <1>5

(* Writing what differs from the rows leaves the new records               *)
(* (syncOutboxUnlocked).                                                   *)
LEMMA SyncedToNext ==
  ASSUME NEW table, NEW next \in [Id -> Reply]
  PROVE  Synced(table, table, next) = next
BY DEF Synced

(* What an update puts in the place of a record is no less settled, unless *)
(* a settled record leaves.                                                *)
LEMMA SuccessorSettles ==
  ASSUME NEW r \in Reply, r.status = "absent" => r = NoReply, NEW t \in Successors(r)
  PROVE  /\ t \in Reply /\ (t.status = "absent" => t = NoReply)
         /\ Safety(t) >= Safety(r) \/ (r.status \in Settled /\ t = NoReply)
<1>1. CASE r.status = "absent"
  <2>1. t = New
    BY <1>1 DEF Successors, Settled, Unsettled
  <2>2. New \in Reply /\ Safety(New) = 1 /\ Safety(r) = 0
    BY <1>1, StorageAssumption DEF New, Reply, Unsettled, Safety
  <2> QED
    BY <2>1, <2>2 DEF New
<1>2. CASE r.status \in Settled
  BY <1>2, NoReplyType DEF Successors, Settled
<1>3. CASE r.status \in Unsettled
  <2>1. Safety(r) \in {1, 2} /\ r.status \notin Settled /\ r.status # "absent"
    BY <1>3 DEF Unsettled, Settled, Safety
  <2>2. Now \in 0..Now
    BY StorageAssumption
  <2>3. CASE t = [r EXCEPT !.status = "needs_manual", !.updated = Now]
    <3>1. t = [status |-> "needs_manual", attempts |-> r.attempts, updated |-> Now,
               task |-> r.task]
      BY <2>3 DEF Reply
    <3>2. t \in Reply
      BY <2>2, <3>1 DEF Reply, Settled
    <3> QED
      BY <2>1, <3>1, <3>2 DEF Safety
  <2>4. CASE r.attempts < MaxAttempts /\ t = Claim(r)
    <3>1. t = [status |-> "sending", attempts |-> r.attempts + 1, updated |-> Now,
               task |-> r.task]
      BY <2>4 DEF Reply, Claim
    <3>2. r.attempts + 1 \in 0..MaxAttempts
      BY <2>4, StorageAssumption DEF Reply
    <3>3. t \in Reply
      BY <2>2, <3>1, <3>2 DEF Reply, Unsettled
    <3> QED
      BY <2>1, <3>1, <3>3 DEF Safety
  <2>5. ASSUME NEW b \in BOOLEAN, t = [r EXCEPT !.status = "sent", !.task = b, !.updated = Now]
        PROVE  t \in Reply /\ t.status = "sent"
    <3>1. t = [status |-> "sent", attempts |-> r.attempts, updated |-> Now, task |-> b]
      BY <2>5 DEF Reply
    <3> QED
      BY <2>2, <3>1 DEF Reply, Settled
  <2>6. \/ t = [r EXCEPT !.status = "needs_manual", !.updated = Now]
        \/ r.attempts < MaxAttempts /\ t = Claim(r)
        \/ \E b \in BOOLEAN : t = [r EXCEPT !.status = "sent", !.task = b, !.updated = Now]
    BY <2>1 DEF Successors
  <2>7. ASSUME t \in Reply, t.status = "sent"
        PROVE  Safety(t) >= Safety(r) /\ t.status # "absent"
    BY <2>1, <2>7 DEF Safety
  <2> QED
    BY <2>3, <2>4, <2>5, <2>6, <2>7
<1> QED
  BY <1>1, <1>2, <1>3 DEF Reply

LEMMA UpdateSettles ==
  ASSUME NEW recs, Proper(recs), NEW next \in Updates(recs)
  PROVE  /\ Proper(next)
         /\ \A i \in Id : \/ Safety(next[i]) >= Safety(recs[i])
                          \/ recs[i].status \in Settled /\ next[i] = NoReply
<1> DEFINE places == UNION {{recs[i]} \cup Successors(recs[i]) : i \in Id}
<1>1. next \in [Id -> places] /\ \A i \in Id : next[i] \in {recs[i]} \cup Successors(recs[i])
  BY DEF Updates
<1>2. ASSUME NEW i \in Id
      PROVE  /\ next[i] \in Reply /\ (next[i].status = "absent" => next[i] = NoReply)
             /\ \/ Safety(next[i]) >= Safety(recs[i])
                \/ recs[i].status \in Settled /\ next[i] = NoReply
  <2>1. recs[i] \in Reply /\ (recs[i].status = "absent" => recs[i] = NoReply)
    BY DEF Proper
  <2>2. CASE next[i] = recs[i]
    BY <2>1, <2>2, SafetyType
  <2>3. CASE next[i] \in Successors(recs[i])
    BY <2>1, <2>3, SuccessorSettles
  <2> QED
    BY <1>1, <2>2, <2>3
<1>3. next \in [Id -> Reply]
  BY <1>1, <1>2
<1> QED
  BY <1>2, <1>3 DEF Proper

-----------------------------------------------------------------------------
(* Databases.                                                              *)

(* Without a state document there are no rows either.                      *)
Sound(d) ==
  /\ d \in Database /\ Proper(d.state.replies) /\ Proper(d.table)
  /\ ~d.state.present => d.table = NoReplies /\ d.state.replies = NoReplies

SoundFile(f) == f \in Files /\ Proper(f.state.replies)

(* The first read of the state leaves the rows as the only records, each   *)
(* at least as settled as the copies there were.                           *)
LEMMA StateRead ==
  ASSUME NEW d, Sound(d), NEW f, SoundFile(f)
  PROVE  LET e == ReadState(d, f)
         IN /\ Sound(e) /\ e.state.present /\ e.state.replies = NoReplies
            /\ e.config = d.config
            /\ \A i \in Id : /\ Safety(e.table[i]) >= Safety(d.state.replies[i])
                             /\ Safety(e.table[i]) >= Safety(d.table[i])
<1> DEFINE e == ReadState(d, f)
<1>1. /\ d.state.replies \in [Id -> Reply] /\ d.table \in [Id -> Reply]
      /\ NoReplies \in [Id -> Reply]
  BY NoReplyType DEF Sound, Proper
<1>2. \A i \in Id : Safety(NoReplies[i]) = 0
  BY DEF NoReplies, NoReply, Safety
<1>3. \A m \in BOOLEAN : Metadata(m) \in StateDocument
  BY <1>1 DEF Metadata, StateDocument
<1>4. CASE ~d.state.present
  <2> DEFINE valid == f.kind = "valid" /\ f.state.present
             recs == IF valid THEN f.state.replies ELSE NoReplies
             m == valid /\ f.state.meta
  <2>1. Proper(recs) /\ recs \in [Id -> Reply]
    BY NoReplyType DEF SoundFile, Proper
  <2>2. m \in BOOLEAN
    OBVIOUS
  <2>3. Synced(d.table, NoReplies, recs) = recs
    BY <1>4, <2>1, SyncedToNext DEF Sound
  <2>4. e = [d EXCEPT !.state = Metadata(m), !.table = recs,
                      !.imports = IF valid THEN @ \cup {"state"} ELSE @]
    BY <1>4, <2>3 DEF ReadState, InitializeState
  <2>5. /\ e.state = Metadata(m) /\ e.table = recs /\ e.config = d.config
        /\ e \in Database
    <3>1. (IF valid THEN d.imports \cup {"state"} ELSE d.imports) \in SUBSET {"state", "config"}
      BY DEF Sound, Database
    <3> QED
      BY <1>3, <2>1, <2>2, <2>4, <3>1 DEF Sound, Database
  <2>6. e.state.present /\ e.state.replies = NoReplies
    BY <2>5 DEF Metadata
  <2>7. d.table = NoReplies /\ d.state.replies = NoReplies
    BY <1>4 DEF Sound
  <2>8. \A i \in Id : Safety(recs[i]) \in Nat
    BY <2>1, SafetyType
  <2> QED
    BY <1>2, <2>1, <2>5, <2>6, <2>7, <2>8, NoReplyType DEF Sound
<1>5. CASE d.state.present /\ d.state.replies = NoReplies
  <2>1. e = d
    BY <1>5 DEF ReadState
  <2>2. \A i \in Id : Safety(d.table[i]) \in Nat
    BY <1>1, SafetyType
  <2> QED
    BY <1>2, <1>5, <2>1, <2>2
<1>6. CASE d.state.present /\ d.state.replies # NoReplies
  <2> DEFINE recs == Merge(d.state.replies, d.table)
  <2>1. /\ Proper(recs) /\ recs \in [Id -> Reply]
        /\ \A i \in Id : /\ Safety(recs[i]) >= Safety(d.state.replies[i])
                         /\ Safety(recs[i]) >= Safety(d.table[i])
    BY AllMerged DEF Sound, Proper
  <2>2. Synced(d.table, d.table, recs) = recs
    BY <2>1, SyncedToNext
  <2>3. d.state.meta \in BOOLEAN
    BY DEF Sound, Database, StateDocument
  <2>4. e = [d EXCEPT !.table = recs, !.state = Metadata(d.state.meta)]
    BY <1>6, <2>2 DEF ReadState
  <2>5. /\ e.state = Metadata(d.state.meta) /\ e.table = recs /\ e.config = d.config
        /\ e \in Database
    BY <1>3, <2>1, <2>3, <2>4 DEF Sound, Database
  <2>6. e.state.present /\ e.state.replies = NoReplies
    BY <2>5 DEF Metadata
  <2> QED
    BY <2>1, <2>5, <2>6, NoReplyType DEF Sound
<1> QED
  BY <1>4, <1>5, <1>6

(* An update replaces the records and the metadata.                        *)
LEMMA StateWritten ==
  ASSUME NEW d, Sound(d), NEW next, Proper(next), NEW m \in BOOLEAN
  PROVE  LET e == WriteState(d, d.table, next, m)
         IN /\ Sound(e) /\ e.state = Metadata(m) /\ e.table = next /\ e.config = d.config
<1> DEFINE e == WriteState(d, d.table, next, m)
<1>1. next \in [Id -> Reply] /\ NoReplies \in [Id -> Reply]
  BY NoReplyType DEF Proper
<1>2. Synced(d.table, d.table, next) = next
  BY <1>1, SyncedToNext
<1>3. Metadata(m) \in StateDocument
  BY <1>1 DEF Metadata, StateDocument
<1>4. /\ e \in Database /\ e.state = Metadata(m) /\ e.table = next /\ e.config = d.config
  BY <1>1, <1>2, <1>3 DEF WriteState, Sound, Database
<1>5. e.state.present /\ e.state.replies = NoReplies
  BY <1>4 DEF Metadata
<1> QED
  BY <1>4, <1>5, NoReplyType DEF Sound

(* Reading or writing the configuration touches no record.                 *)
LEMMA ConfigTouched ==
  ASSUME NEW d, Sound(d), NEW f, SoundFile(f), NEW v \in Setting
  PROVE  /\ LET e == ReadConfig(d, f)
            IN /\ Sound(e) /\ e.state = d.state /\ e.table = d.table
               /\ e.config.present /\ e.config.value \in Setting
               /\ d.config.present => e.config.value = d.config.value
         /\ LET e == [d EXCEPT !.config = Written(v)]
            IN /\ Sound(e) /\ e.state = d.state /\ e.table = d.table
               /\ e.config.present /\ e.config.value = v
<1>1. \A w \in Setting : Written(w) \in Document /\ Written(w).present /\ Written(w).value = w
  BY DEF Written, Document
<1>2. d.config.value \in Setting /\ f.config.value \in Setting /\ Default \in Setting
  BY StorageAssumption DEF Sound, SoundFile, Database, Files, Document
<1>3. ASSUME NEW w \in Setting, NEW imports \in SUBSET {"state", "config"}
      PROVE  LET e == [d EXCEPT !.config = Written(w), !.imports = imports]
             IN Sound(e) /\ e.state = d.state /\ e.table = d.table /\ e.config = Written(w)
  BY <1>1 DEF Sound, Database
<1>4. ASSUME NEW w \in Setting
      PROVE  LET e == [d EXCEPT !.config = Written(w)]
             IN Sound(e) /\ e.state = d.state /\ e.table = d.table /\ e.config = Written(w)
  BY <1>1 DEF Sound, Database
<1> DEFINE valid == f.kind = "valid" /\ f.config.present
<1>5. CASE d.config.present
  BY <1>1, <1>2, <1>4, <1>5 DEF ReadConfig
<1>6. CASE ~d.config.present
  <2> DEFINE w == IF valid THEN f.config.value ELSE Default
             imports == IF valid THEN d.imports \cup {"config"} ELSE d.imports
  <2>1. w \in Setting /\ imports \in SUBSET {"state", "config"}
    BY <1>2 DEF Sound, Database
  <2>2. ReadConfig(d, f) = [d EXCEPT !.config = Written(w), !.imports = imports]
    BY <1>6 DEF ReadConfig
  <2> HIDE DEF w, imports
  <2>3. LET e == ReadConfig(d, f)
        IN Sound(e) /\ e.state = d.state /\ e.table = d.table /\ e.config = Written(w)
    BY <1>3, <2>1, <2>2
  <2> QED
    BY <1>1, <1>4, <1>6, <2>1, <2>3
<1> QED
  BY <1>5, <1>6

-----------------------------------------------------------------------------
(* What readers of a database see.                                         *)

SeenState(d, f) == IF Readable(d, "read", f) THEN ReadState(d, f) ELSE d

SeenSettings(d, f) ==
  IF Readable(d, "readConfig", f) THEN ReadConfig(d, f).config.value ELSE Default

LEMMA StateSeen ==
  ASSUME NEW d, Sound(d), NEW f, SoundFile(f)
  PROVE  /\ Sound(SeenState(d, f)) /\ SeenState(d, f).state.meta \in BOOLEAN
         /\ SeenSettings(d, f) \in Setting
         /\ d.state.present /\ d.state.replies = NoReplies => SeenState(d, f) = d
         /\ d.config.present => SeenSettings(d, f) = d.config.value
<1>1. Sound(SeenState(d, f))
  BY StateRead DEF SeenState
<1>2. SeenState(d, f).state.meta \in BOOLEAN
  BY <1>1 DEF Sound, Database, StateDocument
<1>3. d.state.present /\ d.state.replies = NoReplies => SeenState(d, f) = d
  BY DEF SeenState, ReadState
<1>4. Default \in Setting
  BY StorageAssumption
<1>5. SeenSettings(d, f) \in Setting
  BY <1>4, ConfigTouched DEF SeenSettings
<1>6. d.config.present => SeenSettings(d, f) = d.config.value
  BY <1>4, ConfigTouched DEF SeenSettings, Readable
<1> QED
  BY <1>1, <1>2, <1>3, <1>5, <1>6

(* A change of the one document does not show in the other.                *)
LEMMA SameStateSeen ==
  ASSUME NEW d, Sound(d), NEW e, Sound(e), NEW f, SoundFile(f),
         e.state = d.state, e.table = d.table
  PROVE  /\ SeenState(e, f).table = SeenState(d, f).table
         /\ SeenState(e, f).state.meta = SeenState(d, f).state.meta
BY DEF SeenState, Readable, ReadState, InitializeState, Sound, Database

LEMMA SameSettingsSeen ==
  ASSUME NEW d, Sound(d), NEW e, Sound(e), NEW f, SoundFile(f), e.config = d.config
  PROVE  SeenSettings(e, f) = SeenSettings(d, f)
BY DEF SeenSettings, Readable, ReadConfig, Sound, Database

-----------------------------------------------------------------------------
(* The open transaction: what it has prepared is what one operation makes  *)
(* of the committed database.                                              *)

StateReadDone == Readable(db, "read", legacy) /\ txn.work = ReadState(db, legacy)

UpdateDone ==
  LET d == ReadState(db, legacy)
  IN /\ Readable(db, "read", legacy)
     /\ \E next \in Updates(d.table) :
          txn.work = WriteState(d, d.table, next, UpdatedMeta(d.table, next, d.state.meta))

ConfigReadDone == Readable(db, "readConfig", legacy) /\ txn.work = ReadConfig(db, legacy)

ConfigWriteDone == \E v \in Setting : txn.work = [db EXCEPT !.config = Written(v)]

TxnInv ==
  /\ ~txn.active => txn.work = db
  /\ txn.active => conn = "open" /\ queue # <<>>
  /\ txn.active /\ txn.stage = "mutator" => StateReadDone
  /\ txn.active /\ txn.stage = "end" =>
       StateReadDone \/ UpdateDone \/ ConfigReadDone \/ ConfigWriteDone

StorageInv == StorageTypeOK /\ Sound(db) /\ Sound(txn.work) /\ SoundFile(legacy) /\ TxnInv

LEMMA KeptProper == \A recs \in Kept : Proper(recs)
<1> SUFFICES ASSUME NEW recs \in Kept PROVE Proper(recs)
  OBVIOUS
<1>1. EarlyReplies \subseteq {r \in Reply : r.status # "absent"}
  BY StorageAssumption
<1>2. \A i \in Id : recs[i] \in EarlyReplies \cup {NoReply}
  BY DEF Kept
<1>3. recs \in [Id -> Reply]
  BY <1>1, NoReplyType DEF Kept
<1> QED
  BY <1>1, <1>2, <1>3 DEF Proper

LEMMA StorageInitial == Init => StorageInv
<1> SUFFICES ASSUME Init PROVE StorageInv
  OBVIOUS
<1>1. /\ Default \in Setting /\ NoReplies \in [Id -> Reply] /\ Proper(NoReplies)
      /\ \A recs \in Kept : Proper(recs) /\ recs \in [Id -> Reply]
  BY StorageAssumption, NoReplyType, KeptProper DEF Proper
<1>2. NoDocument \in Document /\ NoState \in StateDocument
  BY <1>1 DEF NoDocument, NoState, Document, StateDocument
<1>3. \A n \in 0..2 : Sound(EmptyDatabase(n))
  BY <1>1, <1>2 DEF EmptyDatabase, NoState, Sound, Database
<1>4. \A d \in EarlyDatabases : Sound(d)
  <2> SUFFICES ASSUME NEW document \in Kept, NEW rows \in Kept
               PROVE  LET d == [schema |-> 1, state |-> [present |-> TRUE, meta |-> FALSE,
                                                          replies |-> document],
                                table |-> rows,
                                config |-> [present |-> TRUE, current |-> FALSE, value |-> Default],
                                imports |-> {}]
                      IN Sound(d)
    BY DEF EarlyDatabases
  <2>1. [present |-> TRUE, meta |-> FALSE, replies |-> document] \in StateDocument
    BY <1>1 DEF StateDocument
  <2>2. [present |-> TRUE, current |-> FALSE, value |-> Default] \in Document
    BY <1>1 DEF Document
  <2> QED
    BY <1>1, <2>1, <2>2 DEF Sound, Database
<1>5. SoundFile(NoFiles)
  BY <1>1, <1>2 DEF NoFiles, NoState, SoundFile, Files
<1>6. \A f \in EarlyFiles : SoundFile(f)
  <2> SUFFICES ASSUME NEW k \in {"valid", "broken"}, NEW recs \in Kept, NEW v \in Setting
               PROVE  LET f == [kind |-> k, state |-> [present |-> TRUE, meta |-> TRUE,
                                                       replies |-> recs],
                                config |-> [present |-> TRUE, current |-> FALSE, value |-> v]]
                      IN SoundFile(f)
    BY DEF EarlyFiles
  <2>1. [present |-> TRUE, meta |-> TRUE, replies |-> recs] \in StateDocument
    BY <1>1 DEF StateDocument
  <2>2. [present |-> TRUE, current |-> FALSE, value |-> v] \in Document
    BY DEF Document
  <2> QED
    BY <1>1, <2>1, <2>2 DEF SoundFile, Files
<1>7. Sound(db) /\ SoundFile(legacy)
  BY <1>3, <1>4, <1>5, <1>6 DEF Init
<1>8. txn = [active |-> FALSE, work |-> db, stage |-> "end"]
  BY DEF Init, NoTransaction
<1>9. StorageTypeOK
  BY <1>7, <1>8 DEF Init, StorageTypeOK, Sound, SoundFile
<1> QED
  BY <1>7, <1>8, <1>9 DEF StorageInv, TxnInv

(* The end of an operation leaves a queue and calls of their types.        *)
LEMMA ReleasedTypes ==
  ASSUME StorageTypeOK, queue # <<>>, NEW ok \in BOOLEAN, Released(ok)
  PROVE  queue' \in Seq(Caller) /\ call' \in [Caller -> Operation \cup {"none"}]
<1>1. Tail(queue) \in Seq(Caller)
  BY HeadTailProperties DEF StorageTypeOK
<1> QED
  BY <1>1 DEF StorageTypeOK, Released

(* What a transaction begins with.                                         *)
LEMMA BeginStep ==
  ASSUME StorageInv, NEW op, NEW work, Sound(work), NEW stage \in {"mutator", "end"},
         Begin(op, work, stage),
         \/ op \in {"read", "update"} /\ work = ReadState(db, legacy)
         \/ op = "readConfig" /\ stage = "end" /\ work = ReadConfig(db, legacy)
         \/ /\ op = "writeConfig" /\ stage = "end"
            /\ \E v \in Setting : work = [db EXCEPT !.config = Written(v)]
  PROVE  StorageInv'
<1> USE DEF Begin
<1>1. StorageTypeOK' /\ Sound(db)' /\ Sound(txn.work)' /\ SoundFile(legacy)'
  BY DEF StorageInv, StorageTypeOK, Sound
<1>2. /\ txn'.active /\ txn'.work = work /\ txn'.stage = stage
      /\ conn' = "open" /\ queue' # <<>>
  BY DEF Running
<1>3. CASE op \in {"read", "update"} /\ work = ReadState(db, legacy)
  <2>1. StateReadDone'
    BY <1>2, <1>3 DEF StateReadDone, Readable
  <2> QED
    BY <1>1, <1>2, <2>1 DEF StorageInv, TxnInv
<1>4. CASE op = "readConfig" /\ stage = "end" /\ work = ReadConfig(db, legacy)
  <2>1. ConfigReadDone'
    BY <1>2, <1>4 DEF ConfigReadDone, Readable
  <2> QED
    BY <1>1, <1>2, <1>4, <2>1 DEF StorageInv, TxnInv
<1>5. CASE /\ op = "writeConfig" /\ stage = "end"
           /\ \E v \in Setting : work = [db EXCEPT !.config = Written(v)]
  <2>1. ConfigWriteDone'
    BY <1>2, <1>5 DEF ConfigWriteDone
  <2> QED
    BY <1>1, <1>2, <1>5, <2>1 DEF StorageInv, TxnInv
<1> QED
  BY <1>3, <1>4, <1>5

(* The transaction's record with another stage and view of the database.   *)
LEMMA TransactionMoved ==
  ASSUME NEW w \in Database, NEW stage \in {"mutator", "failed", "end"}, StorageTypeOK
  PROVE  LET t == [txn EXCEPT !.stage = stage, !.work = w]
         IN /\ t \in [active : BOOLEAN, work : Database, stage : {"mutator", "failed", "end"}]
            /\ t.active = txn.active /\ t.work = w /\ t.stage = stage
BY DEF StorageTypeOK

(* An update writes the records it was given, or fails after the document. *)
LEMMA MutateStep == StorageInv /\ Mutate => StorageInv'
<1> SUFFICES ASSUME StorageInv, Mutate PROVE StorageInv'
  OBVIOUS
<1> DEFINE d == txn.work
<1>1. /\ Sound(d) /\ Proper(d.table) /\ d.state.meta \in BOOLEAN
      /\ txn.active /\ txn.stage = "mutator"
      /\ StateReadDone /\ conn = "open" /\ queue # <<>> /\ StorageTypeOK
  <2>1. Sound(d) /\ txn.active /\ txn.stage = "mutator"
    BY DEF StorageInv, TxnInv, Mutate
  <2>2. Proper(d.table) /\ d.state.meta \in BOOLEAN
    BY <2>1 DEF Sound, Database, StateDocument
  <2> QED
    BY <2>1, <2>2 DEF StorageInv, TxnInv
<1>2. PICK next \in Updates(d.table) :
        LET m == UpdatedMeta(d.table, next, d.state.meta)
        IN \/ txn' = [txn EXCEPT !.stage = "end", !.work = WriteState(@, d.table, next, m)]
           \/ txn' = [txn EXCEPT !.stage = "failed", !.work = WriteState(@, d.table, d.table, m)]
  BY Zenon DEF Mutate
<1> DEFINE m == UpdatedMeta(d.table, next, d.state.meta)
<1>3. m \in BOOLEAN
  BY <1>1 DEF UpdatedMeta
<1>4. Proper(next)
  BY <1>1, <1>2, UpdateSettles
<1>5. Sound(WriteState(d, d.table, next, m)) /\ Sound(WriteState(d, d.table, d.table, m))
  BY <1>1, <1>3, <1>4, StateWritten
<1>6. /\ txn' \in [active : BOOLEAN, work : Database, stage : {"mutator", "failed", "end"}]
      /\ txn'.active = txn.active /\ Sound(txn'.work)
      /\ \/ txn'.stage = "end" /\ txn'.work = WriteState(d, d.table, next, m)
         \/ txn'.stage = "failed"
  <2>1. /\ WriteState(d, d.table, next, m) \in Database
        /\ WriteState(d, d.table, d.table, m) \in Database
    BY <1>5 DEF Sound
  <2>2. CASE txn' = [txn EXCEPT !.stage = "end", !.work = WriteState(@, d.table, next, m)]
    BY <1>1, <1>5, <2>1, <2>2, TransactionMoved, Zenon
  <2>3. CASE txn' = [txn EXCEPT !.stage = "failed",
                                !.work = WriteState(@, d.table, d.table, m)]
    BY <1>1, <1>5, <2>1, <2>3, TransactionMoved, Zenon
  <2> QED
    BY <1>2, <2>2, <2>3, Zenon
<1>7. StorageTypeOK' /\ Sound(db)' /\ Sound(txn.work)' /\ SoundFile(legacy)'
  BY <1>5, <1>6 DEF Mutate, StorageInv, StorageTypeOK
<1>8. CASE txn'.stage = "failed"
  BY <1>1, <1>6, <1>7, <1>8 DEF Mutate, StorageInv, TxnInv
<1>9. CASE txn'.stage = "end"
  <2>1. UpdateDone'
    <3>1. d = ReadState(db', legacy') /\ Readable(db', "read", legacy')
      BY <1>1 DEF StateReadDone, Mutate
    <3> QED
      BY <1>2, <1>6, <1>9, <3>1 DEF UpdateDone
  <2> QED
    BY <1>1, <1>6, <1>7, <1>9, <2>1 DEF Mutate, StorageInv, TxnInv
<1> QED
  BY <1>6, <1>8, <1>9

LEMMA StorageStep == StorageInv /\ [Next]_vars => StorageInv'
<1> SUFFICES ASSUME StorageInv, [Next]_vars PROVE StorageInv'
  OBVIOUS
<1>1. StorageTypeOK /\ Sound(db) /\ Sound(txn.work) /\ SoundFile(legacy) /\ TxnInv
  BY DEF StorageInv
<1>2. CASE OpenDatabase
  <2>1. ~txn.active
    BY <1>1, <1>2 DEF TxnInv, OpenDatabase
  <2>2. db' \in Database /\ Sound(db')
    BY <1>1, <1>2 DEF OpenDatabase, Sound, Database
  <2>3. txn'.work = db' /\ ~txn'.active /\ txn'.stage = txn.stage
    BY <1>1, <1>2, <2>1 DEF OpenDatabase, StorageTypeOK
  <2>4. txn' \in [active : BOOLEAN, work : Database, stage : {"mutator", "failed", "end"}]
    BY <1>1, <1>2, <2>2 DEF OpenDatabase, StorageTypeOK
  <2> QED
    BY <1>1, <1>2, <2>2, <2>3, <2>4 DEF OpenDatabase, StorageInv, StorageTypeOK, TxnInv
<1>3. ASSUME NEW c \in Caller, NEW op \in Operation, Call(c, op)
      PROVE  StorageInv'
  <2>1. queue' \in Seq(Caller) /\ queue' # <<>>
    BY <1>1, <1>3, AppendProperties DEF Call, StorageTypeOK
  <2>2. call' \in [Caller -> Operation \cup {"none"}]
    BY <1>1, <1>3 DEF Call, StorageTypeOK
  <2>3. (StateReadDone' <=> StateReadDone) /\ (UpdateDone' <=> UpdateDone)
        /\ (ConfigReadDone' <=> ConfigReadDone) /\ (ConfigWriteDone' <=> ConfigWriteDone)
    BY <1>3 DEF Call, StateReadDone, UpdateDone, ConfigReadDone, ConfigWriteDone
  <2> QED
    BY <1>1, <1>3, <2>1, <2>2, <2>3 DEF Call, StorageInv, StorageTypeOK, TxnInv
<1>4. CASE RefuseClosed \/ CloseDatabase \/ BeginUnreadable
  <2>1. /\ queue # <<>> /\ ~txn.active /\ \E ok \in BOOLEAN : Released(ok)
        /\ UNCHANGED <<db, legacy, txn>> /\ conn' \in {"down", "open", "closed"}
    BY <1>1, <1>4
       DEF TxnInv, StorageTypeOK, RefuseClosed, CloseDatabase, BeginUnreadable, Running
  <2>2. queue' \in Seq(Caller) /\ call' \in [Caller -> Operation \cup {"none"}]
    BY <1>1, <2>1, ReleasedTypes
  <2> QED
    BY <1>1, <2>1, <2>2 DEF StorageInv, StorageTypeOK, TxnInv
<1>5. CASE BeginRead \/ BeginUpdate
  <2>1. Sound(ReadState(db, legacy))
    BY <1>1, StateRead
  <2> QED
    BY <1>5, <2>1, BeginStep DEF BeginRead, BeginUpdate
<1>6. CASE BeginReadConfig \/ BeginWriteConfig
  <2>1. /\ Sound(ReadConfig(db, legacy))
        /\ \A v \in Setting : Sound([db EXCEPT !.config = Written(v)])
    BY <1>1, ConfigTouched, StorageAssumption
  <2> QED
    BY <1>6, <2>1, BeginStep DEF BeginReadConfig, BeginWriteConfig
<1>7. CASE Mutate
  BY <1>7, MutateStep
<1>8. CASE Commit \/ Rollback
  <2>1. /\ txn.active /\ queue # <<>> /\ \E ok \in BOOLEAN : Released(ok)
        /\ txn' = [active |-> FALSE, work |-> db', stage |-> "end"]
        /\ db' \in {txn.work, db} /\ UNCHANGED <<legacy, conn>>
    BY <1>1, <1>8 DEF TxnInv, Commit, Rollback, AfterRollback, NoTransaction
  <2>2. queue' \in Seq(Caller) /\ call' \in [Caller -> Operation \cup {"none"}]
    BY <1>1, <2>1, ReleasedTypes
  <2>3. Sound(db') /\ db' \in Database
    BY <1>1, <2>1 DEF Sound
  <2> QED
    BY <1>1, <2>1, <2>2, <2>3 DEF StorageInv, StorageTypeOK, TxnInv
<1>9. CASE End
  <2>1. /\ txn' = [active |-> FALSE, work |-> db, stage |-> "end"]
        /\ UNCHANGED <<db, legacy>> /\ conn' = "down" /\ queue' = <<>>
        /\ call' = [c \in Caller |-> "none"]
    BY <1>9 DEF End, NoTransaction
  <2> QED
    BY <1>1, <2>1 DEF StorageInv, StorageTypeOK, TxnInv, Sound
<1>10. CASE UNCHANGED vars
  BY <1>1, <1>10 DEF vars, StorageInv, StorageTypeOK, TxnInv, StateReadDone, UpdateDone,
                     ConfigReadDone, ConfigWriteDone
<1> QED
  BY <1>2, <1>3, <1>4, <1>5, <1>6, <1>7, <1>8, <1>9, <1>10 DEF Next, Serve

-----------------------------------------------------------------------------
(* What a step changes for the readers.                                    *)

LEMMA View ==
  /\ Replies = SeenState(db, legacy).table /\ Meta = SeenState(db, legacy).state.meta
  /\ Settings = SeenSettings(db, legacy)
BY DEF Replies, Meta, Settings, ReaderState, SeenState, SeenSettings

LEMMA NextView ==
  /\ Replies' = SeenState(db', legacy').table /\ Meta' = SeenState(db', legacy').state.meta
  /\ Settings' = SeenSettings(db', legacy')
BY DEF Replies, Meta, Settings, ReaderState, SeenState, SeenSettings

(* Steps but commits leave what readers see and the stored copies.         *)
LEMMA QuietStep ==
  ASSUME StorageInv, StorageInv', [Next]_vars, ~Commit
  PROVE  /\ UNCHANGED <<Replies, Meta, Settings>>
         /\ db'.state = db.state /\ db'.table = db.table
<1>1. Sound(db) /\ Sound(db') /\ SoundFile(legacy)
  BY DEF StorageInv
<1>2. /\ UNCHANGED legacy
      /\ db'.state = db.state /\ db'.table = db.table /\ db'.config = db.config
  <2>1. CASE OpenDatabase
    BY <1>1, <2>1 DEF OpenDatabase, Sound, Database
  <2>2. CASE End
    BY <2>2 DEF End
  <2>3. CASE \E c \in Caller, op \in Operation : Call(c, op)
    BY <2>3 DEF Call
  <2>4. CASE Mutate
    BY <2>4 DEF Mutate
  <2>5. CASE Serve /\ ~Mutate
    BY <2>5 DEF Serve, RefuseClosed, CloseDatabase, BeginUnreadable, BeginRead, BeginUpdate,
                BeginReadConfig, BeginWriteConfig, Begin, Rollback, AfterRollback
  <2>6. CASE UNCHANGED vars
    BY <2>6 DEF vars
  <2> QED
    BY <2>1, <2>2, <2>3, <2>4, <2>5, <2>6 DEF Next
<1> QED
  BY <1>1, <1>2, SameStateSeen, SameSettingsSeen, View, NextView

(* A commit is an import or a migration, which readers do not see, or one  *)
(* whole update.                                                           *)
ImportCommit ==
  /\ UNCHANGED <<Replies, Meta, Settings>>
  /\ \A i \in Id : /\ Safety(db'.table[i]) >= Safety(db.state.replies[i])
                   /\ Safety(db'.table[i]) >= Safety(db.table[i])

UpdateCommit ==
  /\ Replies' \in Updates(Replies) /\ Meta' = UpdatedMeta(Replies, Replies', Meta)
  /\ UNCHANGED Settings
  /\ \A i \in Id : \/ /\ Safety(db'.table[i]) >= Safety(db.state.replies[i])
                      /\ Safety(db'.table[i]) >= Safety(db.table[i])
                   \/ Replies[i].status \in Settled /\ Replies'[i] = NoReply

SettingsCommit ==
  /\ UNCHANGED <<Replies, Meta>> /\ Settings' \in Setting
  /\ db'.state = db.state /\ db'.table = db.table

LEMMA CommitStep ==
  ASSUME StorageInv, StorageInv', Commit
  PROVE  ImportCommit \/ UpdateCommit \/ SettingsCommit
<1> DEFINE d == ReadState(db, legacy)
<1>1. /\ Sound(db) /\ Sound(db') /\ SoundFile(legacy) /\ UNCHANGED legacy
      /\ db' = txn.work
      /\ StateReadDone \/ UpdateDone \/ ConfigReadDone \/ ConfigWriteDone
  BY DEF StorageInv, TxnInv, Commit
<1>2. /\ Sound(d) /\ d.state.present /\ d.state.replies = NoReplies /\ d.config = db.config
      /\ \A i \in Id : /\ Safety(d.table[i]) >= Safety(db.state.replies[i])
                       /\ Safety(d.table[i]) >= Safety(db.table[i])
  BY <1>1, StateRead
<1>3. CASE StateReadDone
  <2>1. db' = d /\ SeenState(db, legacy) = d
    BY <1>1, <1>3 DEF StateReadDone, SeenState
  <2>2. SeenState(db', legacy') = db'
    BY <1>1, <1>2, <2>1, StateSeen
  <2>3. SeenSettings(db', legacy') = SeenSettings(db, legacy)
    BY <1>1, <1>2, <2>1, SameSettingsSeen
  <2> QED
    BY <1>2, <2>1, <2>2, <2>3, View, NextView DEF ImportCommit
<1>4. CASE UpdateDone
  <2>1. SeenState(db, legacy) = d
    BY <1>4 DEF UpdateDone, SeenState
  <2>2. PICK next \in Updates(d.table), m \in BOOLEAN :
          /\ m = UpdatedMeta(d.table, next, d.state.meta)
          /\ db' = WriteState(d, d.table, next, m)
    <3>1. d.state.meta \in BOOLEAN
      BY <1>2 DEF Sound, Database, StateDocument
    <3> QED
      BY <1>1, <1>4, <3>1 DEF UpdateDone, UpdatedMeta
  <2> HIDE DEF d
  <2>3. /\ Proper(next)
        /\ \A i \in Id : \/ Safety(next[i]) >= Safety(d.table[i])
                         \/ d.table[i].status \in Settled /\ next[i] = NoReply
    BY <1>2, <2>2, UpdateSettles DEF Sound
  <2>4. db'.state = Metadata(m) /\ db'.table = next /\ db'.config = d.config
    <3>1. LET e == WriteState(d, d.table, next, m)
          IN e.state = Metadata(m) /\ e.table = next /\ e.config = d.config
      BY <1>2, <2>3, StateWritten
    <3> QED
      BY <2>2, <3>1
  <2>5. db'.state.present /\ db'.state.replies = NoReplies /\ db'.state.meta = m
    BY <2>4 DEF Metadata
  <2>6. SeenState(db', legacy') = db'
    BY <1>1, <2>5, StateSeen
  <2>7. UNCHANGED Settings
    BY <1>1, <1>2, <2>4, SameSettingsSeen, View, NextView
  <2>8. \A i \in Id : /\ Safety(d.table[i]) \in Nat /\ Safety(next[i]) \in Nat
                      /\ Safety(db.state.replies[i]) \in Nat /\ Safety(db.table[i]) \in Nat
    BY <1>1, <1>2, <2>3, SafetyType DEF Sound, Proper
  <2>9. Replies = d.table /\ Replies' = next
    BY <2>1, <2>4, <2>6, View, NextView
  <2>10. ASSUME NEW i \in Id
         PROVE  \/ /\ Safety(db'.table[i]) >= Safety(db.state.replies[i])
                   /\ Safety(db'.table[i]) >= Safety(db.table[i])
                \/ Replies[i].status \in Settled /\ Replies'[i] = NoReply
    BY <1>2, <2>3, <2>4, <2>8, <2>9
  <2>11. Meta' = UpdatedMeta(Replies, Replies', Meta)
    <3>1. Meta' = m
      BY <2>5, <2>6, NextView
    <3>2. Meta = d.state.meta
      BY <2>1, View
    <3> QED
      BY <2>2, <2>9, <3>1, <3>2
  <2>12. UpdateCommit
    BY <2>2, <2>7, <2>9, <2>10, <2>11 DEF UpdateCommit
  <2> QED
    BY <2>12
<1>5. CASE ConfigReadDone
  <2>1. /\ db' = ReadConfig(db, legacy)
        /\ SeenSettings(db, legacy) = ReadConfig(db, legacy).config.value
    BY <1>1, <1>5 DEF ConfigReadDone, SeenSettings
  <2>2. db'.state = db.state /\ db'.table = db.table
    <3>1. LET e == ReadConfig(db, legacy) IN e.state = db.state /\ e.table = db.table
      BY <1>1, ConfigTouched, StorageAssumption
    <3> QED
      BY <2>1, <3>1
  <2>3. SeenSettings(db', legacy') \in Setting
    BY <1>1, StateSeen
  <2> QED
    BY <1>1, <2>2, <2>3, SameStateSeen, View, NextView DEF SettingsCommit
<1>6. CASE ConfigWriteDone
  <2>1. PICK v \in Setting : db' = [db EXCEPT !.config = Written(v)]
    BY <1>1, <1>6 DEF ConfigWriteDone
  <2>2. db'.state = db.state /\ db'.table = db.table
    BY <1>1, <2>1, ConfigTouched
  <2>3. SeenSettings(db', legacy') \in Setting
    BY <1>1, StateSeen
  <2> QED
    BY <1>1, <2>2, <2>3, SameStateSeen, View, NextView DEF SettingsCommit
<1> QED
  BY <1>1, <1>3, <1>4, <1>5, <1>6

-----------------------------------------------------------------------------
(* Theorems.                                                               *)

(* StorageTypeOK is an invariant: through imports, merges, failures and    *)
(* crashes the database, the queue and the open transaction keep their     *)
(* shape.                                                                  *)
THEOREM StorageTypes == Spec => []StorageTypeOK
<1>1. StorageInv => StorageTypeOK
  BY DEF StorageInv
<1> QED
  BY <1>1, StorageInitial, StorageStep, PTL DEF Spec

(* NoSendForgotten holds of every step: an import, a migration and an      *)
(* update leave a record at least as settled as each stored copy of it     *)
(* was, and only settled records leave the database.                       *)
THEOREM SendsRemembered == Spec => NoSendForgotten
<1> DEFINE Remembered ==
             \A i \in Id : \/ Evidence(db', i) >= Evidence(db, i)
                           \/ Replies[i].status \in Settled /\ Replies'[i] = NoReply
<1>1. ASSUME StorageInv, StorageInv', [Next]_vars PROVE Remembered
  <2>1. \A i \in Id : /\ Safety(db.state.replies[i]) \in Nat /\ Safety(db.table[i]) \in Nat
                      /\ Safety(db'.state.replies[i]) \in Nat /\ Safety(db'.table[i]) \in Nat
    <3>1. Sound(db) /\ Sound(db')
      BY <1>1 DEF StorageInv
    <3> QED
      BY <3>1, SafetyType DEF Sound, Proper
  <2>2. ASSUME NEW i \in Id, Safety(db'.table[i]) >= Safety(db.state.replies[i]),
               Safety(db'.table[i]) >= Safety(db.table[i])
        PROVE  Evidence(db', i) >= Evidence(db, i)
    BY <2>1, <2>2 DEF Evidence, Larger
  <2>3. ASSUME NEW i \in Id, db'.state = db.state, db'.table = db.table
        PROVE  Evidence(db', i) >= Evidence(db, i)
    BY <2>1, <2>3 DEF Evidence, Larger
  <2>4. CASE ~Commit
    BY <1>1, <2>3, <2>4, QuietStep
  <2>5. CASE Commit
    BY <1>1, <2>2, <2>3, <2>5, CommitStep DEF ImportCommit, UpdateCommit, SettingsCommit
  <2> QED
    BY <2>4, <2>5
<1>2. StorageInv /\ StorageInv' /\ [Next]_vars => [Remembered]_vars
  BY <1>1
<1> QED
  BY <1>2, StorageInitial, StorageStep, PTL DEF Spec, NoSendForgotten

(* ImplementsStateStore: seen through the two stores every step is a whole *)
(* update of the records and the metadata, a write of the configuration,   *)
(* or nothing at all.                                                      *)
THEOREM StoresKeepPromise == Spec => ImplementsStateStore
<1>1. StorageInv => Promise!StoreInit
  <2> SUFFICES ASSUME StorageInv PROVE Promise!StoreInit
    OBVIOUS
  <2>1. Sound(SeenState(db, legacy)) /\ Meta \in BOOLEAN /\ Settings \in Setting
    BY StateSeen, View DEF StorageInv
  <2>2. Replies \in [Id -> Reply]
    BY <2>1, View DEF Sound, Proper
  <2>3. Promise!Reply = Reply
    BY DEF Promise!Reply, Promise!Unsettled, Promise!Settled, Reply, Unsettled, Settled
  <2> QED
    BY <2>1, <2>2, <2>3 DEF Promise!StoreInit
<1>2. \A recs : Promise!Updates(recs) = Updates(recs)
  BY DEF Promise!Updates, Promise!Successors, Promise!Claim, Promise!New, Promise!NoReply,
         Promise!Settled, Promise!Unsettled, Updates, Successors, Claim, New, NoReply,
         Settled, Unsettled
<1>3. \A recs, next, m : Promise!UpdatedMeta(recs, next, m) = UpdatedMeta(recs, next, m)
  BY DEF Promise!UpdatedMeta, UpdatedMeta
<1>4. ASSUME StorageInv, StorageInv', [Next]_vars
      PROVE  [Promise!StoreNext]_(Promise!storeVars)
  <2>1. CASE ~Commit
    BY <1>4, <2>1, QuietStep DEF Promise!storeVars
  <2>2. CASE Commit
    BY <1>2, <1>3, <1>4, <2>2, CommitStep
       DEF ImportCommit, UpdateCommit, SettingsCommit, Promise!StoreNext, Promise!UpdateState,
           Promise!WriteSettings, Promise!storeVars
  <2> QED
    BY <2>1, <2>2
<1>5. StorageInv /\ StorageInv' /\ [Next]_vars => [Promise!StoreNext]_(Promise!storeVars)
  BY <1>4
<1> QED
  BY <1>1, <1>5, StorageInitial, StorageStep, PTL DEF Spec, ImplementsStateStore,
     Promise!StoreSpec
=============================================================================
