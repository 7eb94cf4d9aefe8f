------------------------------ MODULE Storage ------------------------------
(***************************************************************************)
(* The daemon's database: the document stores, the outbox table and the    *)
(* transaction queue of src/main/core/sqlite-storage.ts, with the import   *)
(* of older JSON files and of databases that kept reply records in the     *)
(* state document.                                                         *)
(*                                                                         *)
(* One connection serves all stores.  An operation waits in the queue,     *)
(* then works on the connection inside one transaction, which may await a  *)
(* mutator; the process may end at any moment.  The event log and the      *)
(* revision numbers, written in the same transactions, are left out, and   *)
(* so is the order of the records.                                         *)
(***************************************************************************)
EXTENDS StoredReplies, Sequences

CONSTANTS
  Setting,       \* contents of the configuration
  Caller,        \* concurrent users of the stores
  EarlyReplies,  \* records that older files and databases may hold
  Default        \* the default configuration

ASSUME StorageAssumption ==
  /\ MaxAttempts \in Nat /\ Now \in Nat /\ Default \in Setting
  /\ EarlyReplies \subseteq {r \in Reply : r.status # "absent"}

VARIABLES
  db,      \* what is committed
  legacy,  \* the older JSON files; never written
  conn,    \* the process's connection: down, open or closed
  call,    \* what each caller waits for
  queue,   \* callers in the order of their calls
  txn      \* the open transaction and its view of the database

vars == <<db, legacy, conn, call, queue, txn>>

NoReplies == [i \in Id |-> NoReply]

\* A configuration of the current version, or of an older one.
Document == [present : BOOLEAN, current : BOOLEAN, value : Setting]

StateDocument == [present : BOOLEAN, meta : BOOLEAN, replies : [Id -> Reply]]

Database ==
  [schema : 0..2, state : StateDocument, table : [Id -> Reply], config : Document,
   imports : SUBSET {"state", "config"}]

\* An older JSON file: none, a valid one, or one that cannot be read.
Files == [kind : {"none", "valid", "broken"}, state : StateDocument, config : Document]

Operation == {"read", "update", "readConfig", "writeConfig", "close"}

NoTransaction == [active |-> FALSE, work |-> db, stage |-> "end"]

StorageTypeOK ==
  /\ db \in Database /\ legacy \in Files
  /\ conn \in {"down", "open", "closed"}
  /\ call \in [Caller -> Operation \cup {"none"}]
  /\ queue \in Seq(Caller)
  /\ txn \in [active : BOOLEAN, work : Database, stage : {"mutator", "failed", "end"}]

-----------------------------------------------------------------------------
(* Merging a record of the state document with the outbox row of the same id. *)

\* replyStatusSafety
Safety(r) ==
  CASE r.status = "sent" -> 4
    [] r.status = "sending" -> 2
    [] r.status = "pending" -> 1
    [] r.status = "absent" -> 0
    [] OTHER -> 3

\* The newer record wins, whatever it says of the delivery.
NewestWins(d, o) == IF d.updated > o.updated THEN d ELSE o

\* The record least likely to repeat a delivery wins; of two alike the newer,
\* and the row of the outbox in a tie.
Winner(d, o) ==
  IF Safety(d) # Safety(o)
  THEN IF Safety(d) > Safety(o) THEN d ELSE o
  ELSE IF d.updated > o.updated THEN d ELSE o

Larger(a, b) == IF a > b THEN a ELSE b

\* mergeReplyConflict
MergeConflict(d, o) ==
  [status |-> Winner(d, o).status,
   attempts |-> Larger(d.attempts, o.attempts),
   updated |-> Larger(d.updated, o.updated),
   task |-> d.task \/ o.task]

\* mergeReplyRecords
Merge(document, table) ==
  [i \in Id |-> IF document[i] = NoReply THEN table[i]
                ELSE IF table[i] = NoReply THEN document[i]
                ELSE MergeConflict(document[i], table[i])]

\* syncOutboxUnlocked: rows that left are deleted, changed ones are written.
Synced(table, previous, next) ==
  [i \in Id |-> IF next[i] = NoReply
                THEN IF previous[i] = NoReply THEN table[i] ELSE NoReply
                ELSE IF previous[i] = next[i] THEN table[i] ELSE next[i]]

-----------------------------------------------------------------------------
(* The two stores: what their first reads do to a database.                *)

\* stateMetadata: the state document holds no records.
Metadata(m) == [present |-> TRUE, meta |-> m, replies |-> NoReplies]

\* initializeUnlocked takes the older file as it is, or the default.
InitializeState(d, file) ==
  LET valid == file.kind = "valid" /\ file.state.present
      recs == IF valid THEN file.state.replies ELSE NoReplies
      m == valid /\ file.state.meta
  IN [d EXCEPT !.state = Metadata(m), !.table = Synced(d.table, NoReplies, recs),
               !.imports = IF valid THEN @ \cup {"state"} ELSE @]

\* readOrInitializeUnlocked of the state store, up to the value it returns.
ReadState(d, file) ==
  IF ~d.state.present THEN InitializeState(d, file)
  ELSE IF d.state.replies = NoReplies THEN d
  ELSE [d EXCEPT !.table = Synced(@, @, Merge(d.state.replies, @)),
                 !.state = Metadata(d.state.meta)]

\* writeUnlocked: the document and the outbox rows of one update.
WriteState(d, previous, next, m) ==
  [d EXCEPT !.state = Metadata(m), !.table = Synced(@, previous, next)]

Written(v) == [present |-> TRUE, current |-> TRUE, value |-> v]

\* readOrInitializeUnlocked of the configuration store.
ReadConfig(d, file) ==
  LET valid == file.kind = "valid" /\ file.config.present
  IN IF d.config.present
     THEN [d EXCEPT !.config = Written(@.value)]
     ELSE [d EXCEPT !.config = Written(IF valid THEN file.config.value ELSE Default),
                    !.imports = IF valid THEN @ \cup {"config"} ELSE @]

\* The older file is read when its document is missing, and must be valid.
Readable(d, op, file) ==
  \/ file.kind # "broken"
  \/ op \in {"read", "update"} /\ d.state.present
  \/ op = "readConfig" /\ d.config.present
  \/ op \in {"writeConfig", "close"}

-----------------------------------------------------------------------------
(* What a reader of the stores is about to see.                            *)

ReaderState == IF Readable(db, "read", legacy) THEN ReadState(db, legacy) ELSE db
Replies == ReaderState.table
Meta == ReaderState.state.meta
Settings ==
  IF Readable(db, "readConfig", legacy) THEN ReadConfig(db, legacy).config.value ELSE Default

Promise == INSTANCE StateStore WITH replies <- Replies, meta <- Meta, settings <- Settings

-----------------------------------------------------------------------------
(* Initially the process is down.  Its database is new, of this version or *)
(* of a later one; the state document may still hold records.              *)

NoDocument == [present |-> FALSE, current |-> TRUE, value |-> Default]
NoState == [present |-> FALSE, meta |-> FALSE, replies |-> NoReplies]
Kept == [Id -> EarlyReplies \cup {NoReply}]

EmptyDatabase(version) ==
  [schema |-> version, state |-> NoState, table |-> NoReplies, config |-> NoDocument,
   imports |-> {}]

EarlyDatabases ==
  {[schema |-> 1, state |-> [present |-> TRUE, meta |-> FALSE, replies |-> document],
    table |-> rows, config |-> [present |-> TRUE, current |-> FALSE, value |-> Default],
    imports |-> {}] : document \in Kept, rows \in Kept}

NoFiles == [kind |-> "none", state |-> NoState, config |-> NoDocument]

EarlyFiles ==
  {[kind |-> k, state |-> [present |-> TRUE, meta |-> TRUE, replies |-> recs],
    config |-> [present |-> TRUE, current |-> FALSE, value |-> v]] :
     k \in {"valid", "broken"}, recs \in Kept, v \in Setting}

Init ==
  /\ \/ db \in EarlyDatabases /\ legacy = NoFiles
     \/ db \in {EmptyDatabase(n) : n \in 0..2} /\ legacy \in EarlyFiles \cup {NoFiles}
  /\ conn = "down"
  /\ call = [c \in Caller |-> "none"]
  /\ queue = <<>>
  /\ txn = NoTransaction

-----------------------------------------------------------------------------
(* The process and its calls.                                              *)

\* SqliteDatabase's constructor and migrateSchema: the schema is created in
\* one transaction, and a later version is refused.
OpenDatabase ==
  /\ conn = "down" /\ db.schema <= 1
  /\ conn' = "open"
  /\ db' = [db EXCEPT !.schema = 1]
  /\ txn' = [txn EXCEPT !.work = db']
  /\ UNCHANGED <<legacy, call, queue>>

\* exclusive: an operation queues behind all earlier ones.
Call(c, op) ==
  /\ conn # "down" /\ call[c] = "none"
  /\ call' = [call EXCEPT ![c] = op]
  /\ queue' = Append(queue, c)
  /\ UNCHANGED <<db, legacy, conn, txn>>

\* A failed operation keeps its place in the queue.
ReleasedOnSuccessOnly(ok) ==
  IF ok THEN queue' = Tail(queue) /\ call' = [call EXCEPT ![Head(queue)] = "none"]
  ELSE UNCHANGED <<queue, call>>

\* The end of exclusive: the caller has its answer and the next one may run,
\* whether the operation succeeded or not.
Released(ok) ==
  queue' = Tail(queue) /\ call' = [call EXCEPT ![Head(queue)] = "none"]

Running(op) == conn = "open" /\ ~txn.active /\ queue # <<>> /\ call[Head(queue)] = op

\* assertOpen
RefuseClosed ==
  /\ conn = "closed" /\ queue # <<>>
  /\ Released(FALSE)
  /\ UNCHANGED <<db, legacy, conn, txn>>

CloseDatabase ==
  /\ Running("close")
  /\ conn' = "closed"
  /\ Released(TRUE)
  /\ UNCHANGED <<db, legacy, txn>>

\* BEGIN IMMEDIATE and what precedes the mutator of an update.
Begin(op, work, stage) ==
  /\ Running(op) /\ Readable(db, op, legacy)
  /\ txn' = [active |-> TRUE, work |-> work, stage |-> stage]
  /\ UNCHANGED <<db, legacy, conn, call, queue>>

BeginRead == Begin("read", ReadState(db, legacy), "end")
BeginUpdate == Begin("update", ReadState(db, legacy), "mutator")
BeginReadConfig == Begin("readConfig", ReadConfig(db, legacy), "end")
BeginWriteConfig ==
  \E v \in Setting : Begin("writeConfig", [db EXCEPT !.config = Written(v)], "end")

\* An older file that cannot be read fails the operation.
BeginUnreadable ==
  /\ \E op \in Operation : Running(op) /\ ~Readable(db, op, legacy)
  /\ Released(FALSE)
  /\ UNCHANGED <<db, legacy, conn, txn>>

\* The mutator of the worker or of a save has answered: the document and the
\* rows are written, or a statement for the rows fails.
Mutate ==
  /\ txn.active /\ txn.stage = "mutator"
  /\ LET previous == txn.work.table
     IN \E next \in Updates(previous) :
          LET m == UpdatedMeta(previous, next, txn.work.state.meta)
          IN \/ txn' = [txn EXCEPT !.stage = "end", !.work = WriteState(@, previous, next, m)]
             \/ txn' = [txn EXCEPT !.stage = "failed",
                                   !.work = WriteState(@, previous, previous, m)]
  /\ UNCHANGED <<db, legacy, conn, call, queue>>

Commit ==
  /\ txn.active /\ txn.stage = "end"
  /\ db' = txn.work
  /\ txn' = [NoTransaction EXCEPT !.work = txn.work]
  /\ Released(TRUE)
  /\ UNCHANGED <<legacy, conn>>

\* What was written before the failure stays.
KeptAfterFailure == txn.work

AfterRollback == db

\* The mutator throws, its result is not valid or a statement fails.
Rollback ==
  /\ txn.active
  /\ db' = AfterRollback
  /\ txn' = [NoTransaction EXCEPT !.work = AfterRollback]
  /\ Released(FALSE)
  /\ UNCHANGED <<legacy, conn>>

\* The process ends: what was not committed is gone.
End ==
  /\ conn # "down"
  /\ conn' = "down"
  /\ call' = [c \in Caller |-> "none"]
  /\ queue' = <<>>
  /\ txn' = NoTransaction
  /\ UNCHANGED <<db, legacy>>

Serve ==
  \/ RefuseClosed \/ CloseDatabase \/ BeginUnreadable
  \/ BeginRead \/ BeginUpdate \/ BeginReadConfig \/ BeginWriteConfig
  \/ Mutate \/ Commit \/ Rollback

Next ==
  \/ OpenDatabase
  \/ \E c \in Caller, op \in Operation : Call(c, op)
  \/ Serve
  \/ End

Spec == Init /\ [][Next]_vars

\* The event loop goes on while the process lives.
FairSpec == Spec /\ WF_vars(Serve)

-----------------------------------------------------------------------------
(* Properties.                                                             *)

Evidence(d, i) == Larger(Safety(d.state.replies[i]), Safety(d.table[i]))

\* What any stored copy of a record says of its delivery is never forgotten:
\* importing, merging and updating leave a record at least as settled as
\* each of its copies was, and only settled records leave the database.
NoSendForgotten ==
  [][\A i \in Id :
       \/ Evidence(db', i) >= Evidence(db, i)
       \/ Replies[i].status \in Settled /\ Replies'[i] = NoReply]_vars

\* Seen through the two stores the database only changes by whole updates:
\* neither import and migration nor failures and crashes are visible.
ImplementsStateStore == Promise!StoreSpec

\* Every operation is answered although earlier ones fail or the database is
\* closed before it runs: the transaction queue never gets stuck.
CallsAnswered == \A c \in Caller : call[c] # "none" ~> call[c] = "none"
=============================================================================
