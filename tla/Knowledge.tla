----------------------------- MODULE Knowledge -----------------------------
(***************************************************************************)
(* What the service answers from: the configured sources, the stored       *)
(* snapshot of their documents, the index in memory and the configuration  *)
(* in memory, under saves (src/main/core/service.ts saveConfig) and        *)
(* synchronisations (syncKnowledge and src/main/core/knowledge-sync.ts)    *)
(* that overlap, and the dashboard snapshots the service sends afterwards. *)
(*                                                                         *)
(* A step goes from one database operation to the next; operations are     *)
(* served in the order they were asked for (sqlite-storage.ts).  The       *)
(* driver answers at once, so what one event sets off runs on until it     *)
(* waits for something outside the process: a request, a file or a command *)
(* is never served between two of its steps (Quiet).  What one event sets  *)
(* off may be several chains: the end of a scan starts the next one while  *)
(* the request of the first goes on.  A kill may fall between any two      *)
(* steps.  The documents of a source are one version number, 0 when there  *)
(* are none; text, chunks and ranking are left out.                        *)
(***************************************************************************)
EXTENDS Naturals, Sequences, FiniteSets

CONSTANTS
  Source,       \* the knowledge sources an operator may configure
  MaxVersion,   \* bound of the model: versions of a source's documents
  Configs,      \* configurations: the sources listed and those enabled
  Sync          \* concurrent requests to synchronise

\* The save in progress, where it waits for the database.
Saver == "saver"

ASSUME KnowledgeAssumption ==
  /\ MaxVersion \in Nat /\ Saver \notin Sync
  /\ Configs \subseteq [listed : SUBSET Source, enabled : SUBSET Source]
  /\ \A c \in Configs : c.enabled \subseteq c.listed

VARIABLES
  config,     \* the stored configuration
  snap,       \* the stored snapshot
  current,    \* the configuration in memory, read by the last guard of a send
  index,      \* the documents replies are composed from
  save,       \* the save in progress
  sync,       \* each synchronisation
  turn,       \* syncQueue
  db,         \* requests waiting for the database, which serves one at a time
  emissions,  \* dashboard snapshots being prepared
  shown,      \* the last one sent
  \* remembered for the properties only
  crossed,    \* a scan was written while another request pruned what it had read before
  unseen      \* something was written that no snapshot since begun will show

stores == <<config, snap>>
answering == <<current, index>>
requests == <<save, sync, turn, db>>
display == <<emissions, shown>>
ghosts == <<crossed, unseen>>
vars == <<stores, answering, requests, display, ghosts>>

Documents == [Source -> 0..MaxVersion]
Nothing == [x \in Source |-> 0]

KnowledgeTypeOK ==
  /\ config \in Configs /\ current \in Configs
  /\ snap \in Documents /\ index \in Documents
  /\ save \in [stage : {"idle", "prior", "write", "read", "store"}, new : Configs,
               priorCurrent : Configs, priorIndex : Documents, read : Documents]
  /\ sync \in [Sync -> [stage : {"idle", "config", "queued", "previous", "scan", "awaits", "write",
                                 "latest", "read", "store"},
                        sources : SUBSET Source, todo : SUBSET Source, good : SUBSET Source,
                        next : Documents, kept : Documents, latest : Configs,
                        read : Documents]]
  /\ turn \in Seq(Sync) /\ db \in Seq(Sync \cup {Saver})
  /\ emissions \subseteq [fresh : BOOLEAN, view : {"none", "stored", "older"}]
  /\ shown \in {"stored", "older"}
  /\ crossed \in BOOLEAN /\ unseen \in BOOLEAN

-----------------------------------------------------------------------------
(* selectKnowledgeSources, and filterKnowledgeSnapshot built on it.        *)

Select(docs, sources) == [x \in Source |-> IF x \in sources THEN docs[x] ELSE 0]

\* Only sources that are no longer listed are left out.
ListedOnly(docs, c) == Select(docs, c.listed)

Active(docs, c) == Select(docs, c.enabled)

\* The fields of a request that is not under way are of no matter.
Unset == CHOOSE c \in Configs : TRUE

IdleSave ==
  [stage |-> "idle", new |-> Unset, priorCurrent |-> Unset, priorIndex |-> Nothing,
   read |-> Nothing]

IdleSync ==
  [stage |-> "idle", sources |-> {}, todo |-> {}, good |-> {}, next |-> Nothing,
   kept |-> Nothing, latest |-> Unset, read |-> Nothing]

\* The database serves p, which then asks for nothing more, or asks again.
Served(p) == db # <<>> /\ Head(db) = p

Leaves == db' = Tail(db)

AsksAgain(p) == db' = Append(Tail(db), p)

Asks(p) == db' = Append(db, p)

\* Nothing can go on until something outside the process answers.
Quiet ==
  /\ db = <<>>
  /\ \A s \in Sync : sync[s].stage # "scan" /\ ~(sync[s].stage = "queued" /\ Head(turn) = s)

\* initialize, of a daemon that starts with the stores c and docs.
Started(c, docs) ==
  /\ current' = c /\ index' = Active(docs, c)
  /\ save' = IdleSave /\ sync' = [s \in Sync |-> IdleSync] /\ turn' = <<>> /\ db' = <<>>
  /\ emissions' = {} /\ shown' = "stored"
  /\ crossed' = FALSE /\ unseen' = FALSE

Init ==
  /\ config \in Configs /\ snap = Select([x \in Source |-> MaxVersion], config.listed)
  /\ current = config /\ index = Active(snap, config)
  /\ save = IdleSave /\ sync = [s \in Sync |-> IdleSync] /\ turn = <<>> /\ db = <<>>
  /\ emissions = {} /\ shown = "stored"
  /\ crossed = FALSE /\ unseen = FALSE

\* The daemon ends and is started again.
Restart ==
  /\ Started(config, snap)
  /\ UNCHANGED stores

-----------------------------------------------------------------------------
(* emitUpdate: a snapshot is read and sent unless a newer one was begun.   *)

\* The newest snapshot is the one that was begun last; of those it overtakes,
\* which are dropped, one is followed.
BeginEmission(previous) ==
  /\ unseen' = FALSE
  /\ emissions' = {[e EXCEPT !.fresh = FALSE] : e \in {x \in previous : x.fresh}}
                       \cup {[fresh |-> TRUE, view |-> "none"]}

\* What was read before a write of the stores no longer shows what they hold.
Outdated(view) == IF view = "stored" THEN "older" ELSE view

Overtaken == {[e EXCEPT !.view = Outdated(@)] : e \in emissions}

Written == emissions' = Overtaken /\ shown' = "older"

\* getSnapshot: its reads stand next to each other in the database queue.
EmissionRead(e) ==
  /\ e.view = "none"
  /\ emissions' = (emissions \ {e}) \cup {[e EXCEPT !.view = "stored"]}
  /\ UNCHANGED <<stores, answering, requests, shown, ghosts>>

\* Snapshots are sent in the order they become ready.
SentAnyway(e) == TRUE

StillNewest(e) == e.fresh

EmissionSent(e) ==
  /\ e.view # "none"
  /\ emissions' = emissions \ {e}
  /\ shown' = IF StillNewest(e) THEN e.view ELSE shown
  /\ UNCHANGED <<stores, answering, requests, ghosts>>

\* The stores cannot be read.
EmissionFails(e) ==
  /\ emissions' = emissions \ {e}
  /\ unseen' = (unseen \/ e.fresh)
  /\ UNCHANGED <<stores, answering, requests, shown, crossed>>

-----------------------------------------------------------------------------
(* saveConfig.  Saves wait for each other (configurationMutations).        *)

\* The index stays until the new one is built.
KeptIndex(c) == index

\* Answers stop at once when the sources change.
IndexDuringSave(c) == IF c = config THEN index ELSE Nothing

SaveAsked(c) ==
  /\ Quiet /\ save.stage = "idle"
  /\ save' = [save EXCEPT !.stage = "prior", !.new = c]
  /\ Asks(Saver)
  /\ UNCHANGED <<stores, answering, sync, turn, display, ghosts>>

SaveBegins ==
  /\ save.stage = "prior" /\ Served(Saver)
  /\ save' = [save EXCEPT !.stage = "write", !.priorCurrent = current, !.priorIndex = index]
  /\ current' = save.new
  /\ index' = IndexDuringSave(save.new)
  /\ AsksAgain(Saver)
  /\ UNCHANGED <<stores, sync, turn, display, ghosts>>

\* The previous configuration cannot be read.
SaveRefused ==
  /\ save.stage = "prior" /\ Served(Saver)
  /\ save' = IdleSave /\ Leaves
  /\ UNCHANGED <<stores, answering, sync, turn, display, ghosts>>

SaveWritten ==
  /\ save.stage = "write" /\ Served(Saver)
  /\ config' = save.new
  /\ save' = [IdleSave EXCEPT !.stage = "read", !.new = save.new]
  /\ AsksAgain(Saver)
  /\ Written
  /\ UNCHANGED <<snap, answering, sync, turn, ghosts>>

\* Only the answers come back.
IndexRolledBack ==
  /\ current' = current
  /\ index' = IF save.new = config THEN index ELSE save.priorIndex

\* The memory returns to what it was before the save.
RolledBack ==
  /\ current' = save.priorCurrent
  /\ index' = IF save.new = config THEN index ELSE save.priorIndex

SaveNotWritten ==
  /\ save.stage = "write" /\ Served(Saver)
  /\ RolledBack
  /\ save' = IdleSave /\ Leaves
  /\ UNCHANGED <<stores, sync, turn, display, ghosts>>

SaveEnds(docs, sending) ==
  /\ index' = Active(docs, save.new)
  /\ save' = IdleSave /\ Leaves
  /\ BeginEmission(sending)

SaveReadsSnapshot ==
  /\ save.stage = "read" /\ Served(Saver)
  /\ IF Select(snap, save.new.listed) = snap
     THEN SaveEnds(snap, emissions) /\ UNCHANGED shown
     ELSE /\ save' = [save EXCEPT !.stage = "store", !.read = snap] /\ AsksAgain(Saver)
          /\ UNCHANGED <<index, display, unseen>>
  /\ UNCHANGED <<stores, current, sync, turn, crossed>>

SavePrunes ==
  /\ save.stage = "store" /\ Served(Saver)
  /\ snap' = Select(save.read, save.new.listed)
  /\ SaveEnds(snap', Overtaken) /\ shown' = "older"
  /\ UNCHANGED <<config, current, sync, turn, crossed>>

\* The snapshot cannot be read or written: the save is answered as failed.
SaveFailsLate ==
  /\ save.stage \in {"read", "store"} /\ Served(Saver)
  /\ save' = IdleSave /\ Leaves
  /\ unseen' = TRUE
  /\ UNCHANGED <<stores, answering, sync, turn, display, crossed>>

-----------------------------------------------------------------------------
(* syncKnowledge; performSync runs for one request at a time.              *)

SyncAsked(s) ==
  /\ Quiet /\ sync[s].stage = "idle"
  /\ sync' = [sync EXCEPT ![s].stage = "config"]
  /\ Asks(s)
  /\ UNCHANGED <<stores, answering, save, turn, display, ghosts>>

SyncBegins(s) ==
  /\ sync[s].stage = "config" /\ Served(s)
  /\ sync' = [sync EXCEPT ![s].stage = "queued", ![s].sources = config.enabled]
  /\ turn' = Append(turn, s) /\ Leaves
  /\ UNCHANGED <<stores, answering, save, display, ghosts>>

ScanTurn(s) ==
  /\ sync[s].stage = "queued" /\ Head(turn) = s
  /\ sync' = [sync EXCEPT ![s].stage = "previous"]
  /\ Asks(s)
  /\ UNCHANGED <<stores, answering, save, turn, display, ghosts>>

ScanBegins(s) ==
  /\ sync[s].stage = "previous" /\ Served(s)
  /\ sync' = [sync EXCEPT ![s].stage = "scan", ![s].todo = sync[s].sources, ![s].kept = snap]
  /\ Leaves
  /\ UNCHANGED <<stores, answering, save, turn, display, ghosts>>

\* A directory is read from the disk, a library by a command; the mock library
\* answers at once.
SourceAwaited(s) ==
  /\ sync[s].stage = "scan" /\ sync[s].todo # {}
  /\ sync' = [sync EXCEPT ![s].stage = "awaits"]
  /\ UNCHANGED <<stores, answering, save, turn, db, display, ghosts>>

Answered(s) == sync[s].stage = "scan" \/ (sync[s].stage = "awaits" /\ Quiet)

\* A source that cannot be read has no documents.
LostCopy(s, x) == 0

\* A source that cannot be read counts as a new version of its documents.
AgedCopy(s, x) == sync[s].kept[x] + 1

\* The documents kept for a source that cannot be read.
LastGoodCopy(s, x) == sync[s].kept[x]

SourceRead(s, x) ==
  /\ Answered(s) /\ x \in sync[s].todo
  /\ \E v \in 0..MaxVersion :
       sync' = [sync EXCEPT ![s].stage = "scan", ![s].todo = @ \ {x}, ![s].next[x] = v,
                             ![s].good = @ \cup {x}]
  /\ UNCHANGED <<stores, answering, save, turn, db, display, ghosts>>

SourceFails(s, x) ==
  /\ Answered(s) /\ x \in sync[s].todo
  /\ sync' = [sync EXCEPT ![s].stage = "scan", ![s].todo = @ \ {x},
                          ![s].next[x] = LastGoodCopy(s, x)]
  /\ UNCHANGED <<stores, answering, save, turn, db, display, ghosts>>

ScanEnds(s) ==
  /\ sync[s].stage = "scan" /\ sync[s].todo = {}
  /\ sync' = [sync EXCEPT ![s].stage = "write", ![s].kept = Nothing]
  /\ Asks(s)
  /\ UNCHANGED <<stores, answering, save, turn, display, ghosts>>

Pruning == \E s \in Sync : sync[s].stage = "store"

SnapshotWritten(s) ==
  /\ sync[s].stage = "write" /\ Served(s)
  /\ snap' = sync[s].next
  /\ sync' = [sync EXCEPT ![s] = [IdleSync EXCEPT !.stage = "latest"]]
  /\ turn' = Tail(turn) /\ AsksAgain(s)
  /\ Written
  /\ crossed' = (crossed \/ Pruning)
  /\ UNCHANGED <<config, answering, save, unseen>>

\* The next request does not wait for one that failed.
TurnAfterFailure == Tail(turn)

\* The snapshot cannot be read or written.
ScanFails(s) ==
  /\ sync[s].stage \in {"previous", "write"} /\ Served(s)
  /\ sync' = [sync EXCEPT ![s] = IdleSync]
  /\ turn' = TurnAfterFailure /\ Leaves
  /\ UNCHANGED <<stores, answering, save, display, ghosts>>

\* The configuration is read again: sources may have changed meanwhile.
LatestConfig(s) ==
  /\ sync[s].stage = "latest" /\ Served(s)
  /\ current' = config
  /\ sync' = [sync EXCEPT ![s].stage = "read", ![s].latest = config]
  /\ AsksAgain(s)
  /\ UNCHANGED <<stores, index, save, turn, display, ghosts>>

SyncEnds(s, docs, sending) ==
  /\ index' = Active(docs, sync[s].latest)
  /\ sync' = [sync EXCEPT ![s] = IdleSync] /\ Leaves
  /\ BeginEmission(sending)

SyncReadsSnapshot(s) ==
  /\ sync[s].stage = "read" /\ Served(s)
  /\ IF Select(snap, sync[s].latest.listed) = snap
     THEN SyncEnds(s, snap, emissions) /\ UNCHANGED shown
     ELSE /\ sync' = [sync EXCEPT ![s].stage = "store", ![s].read = snap] /\ AsksAgain(s)
          /\ UNCHANGED <<index, display, unseen>>
  /\ UNCHANGED <<stores, current, save, turn, crossed>>

SyncPrunes(s) ==
  /\ sync[s].stage = "store" /\ Served(s)
  /\ snap' = Select(sync[s].read, sync[s].latest.listed)
  /\ SyncEnds(s, snap', Overtaken) /\ shown' = "older"
  /\ UNCHANGED <<config, current, save, turn, crossed>>

\* A read or the write of the pruned snapshot fails: the request does.
SyncFailsLate(s) ==
  /\ sync[s].stage \in {"config", "latest", "read", "store"} /\ Served(s)
  /\ sync' = [sync EXCEPT ![s] = IdleSync] /\ Leaves
  /\ unseen' = (unseen \/ sync[s].stage # "config")
  /\ UNCHANGED <<stores, answering, save, turn, display, crossed>>

-----------------------------------------------------------------------------
SaveStep ==
  \/ SaveBegins \/ SaveRefused \/ SaveWritten \/ SaveNotWritten
  \/ SaveReadsSnapshot \/ SavePrunes \/ SaveFailsLate

SyncStep(s) ==
  \/ SyncBegins(s) \/ ScanTurn(s) \/ ScanBegins(s) \/ SourceAwaited(s)
  \/ \E x \in Source : SourceRead(s, x) \/ SourceFails(s, x)
  \/ ScanEnds(s) \/ SnapshotWritten(s) \/ ScanFails(s) \/ LatestConfig(s)
  \/ SyncReadsSnapshot(s) \/ SyncPrunes(s) \/ SyncFailsLate(s)

Next ==
  \/ Restart
  \/ \E c \in Configs : SaveAsked(c)
  \/ SaveStep
  \/ \E s \in Sync : SyncAsked(s) \/ SyncStep(s)
  \/ \E e \in emissions : EmissionRead(e) \/ EmissionSent(e) \/ EmissionFails(e)

Spec == Init /\ [][Next]_vars

-----------------------------------------------------------------------------
(* Properties.                                                             *)

\* Replies are composed only from sources the configuration in memory, which
\* the last guard of a send reads, enables: a save that withdraws a source
\* takes its documents out of the index at once, whatever fails later, and
\* a scan begun before the save does not bring them back.
OnlyEnabledSources ==
  \A x \in Source : index[x] # 0 => x \in current.enabled

\* Between saves the configuration in memory is the stored one: neither a
\* failed save nor a synchronisation leaves another one behind.
GuardSeesStoredConfig == save.stage = "idle" => current = config

\* The last good copy of a source survives scans that cannot read it, and the
\* saves and restarts between them - unless a scan is written while another
\* request prunes, which then writes back what it had read before.
LastGoodCopyKept ==
  [][\A x \in Source :
       (snap[x] # 0 /\ snap'[x] = 0 /\ x \in config.listed /\ ~crossed') =>
         \E s \in Sync : sync[s].stage = "write" /\ (x \in sync[s].good \/ x \notin sync[s].sources)]_vars

\* Once everything has settled the dashboard shows the stored state, although
\* snapshots overtake each other.
ShownIsCurrent ==
  (save.stage = "idle" /\ (\A s \in Sync : sync[s].stage = "idle") /\ emissions = {} /\ ~unseen)
    => shown = "stored"

\* Nobody in the queue of scans waits for a request that is over, however it
\* ended: the next scan is always that of a request still to be answered.
QueueMoves ==
  \A i \in 1..Len(turn) : sync[turn[i]].stage \in {"queued", "previous", "scan", "awaits", "write"}
=============================================================================
