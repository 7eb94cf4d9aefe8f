-------------------------- MODULE KnowledgeProofs --------------------------
(***************************************************************************)
(* The invariants of saves and synchronisations, for any number of sources *)
(* and of overlapping requests: what is answered from, what the last guard *)
(* of a send reads, what a scan may lose and what the dashboard shows.     *)
(*                                                                         *)
(* KnowledgeInv is inductive.  AloneInv says that a save, once begun, has  *)
(* the process to itself; the others say what requests under way rely on   *)
(* while others write the stores.  What they know of the copies they hold  *)
(* (CopyInv) ends with the first scan that is written while another prunes.*)
(***************************************************************************)
EXTENDS Knowledge, SequenceTheorems, TLAPS

-----------------------------------------------------------------------------
(* The queue of scans: it holds whom it should once, and the scan that     *)
(* runs stands at its head.                                                *)

Waits(s) == sync[s].stage \in {"queued", "previous", "scan", "awaits", "write"}

Scans(s) == sync[s].stage \in {"previous", "scan", "awaits", "write"}

TurnInv ==
  /\ \A i \in 1..Len(turn) : Waits(turn[i])
  /\ \A i, j \in 1..Len(turn) : turn[i] = turn[j] => i = j
  /\ \A s \in Sync : Waits(s) => \E i \in 1..Len(turn) : turn[i] = s
  /\ \A s \in Sync : Scans(s) => turn[1] = s

-----------------------------------------------------------------------------
(* What is under way waits for the database, and nothing but it, unless it *)
(* waits for a file, a command or its turn; while a save is under way      *)
(* nothing else is.                                                        *)

AloneInv ==
  /\ \A s \in Sync :
       sync[s].stage \in {"config", "previous", "write", "latest", "read", "store"} =>
         \E i \in 1..Len(db) : db[i] = s
  /\ save.stage # "idle" =>
       /\ db = <<Saver>>
       /\ \A s \in Sync : /\ sync[s].stage \in {"idle", "queued", "awaits"}
                          /\ sync[s].stage = "queued" => Head(turn) # s

-----------------------------------------------------------------------------
(* The configuration in memory: only a save that is being written may have *)
(* another one than is stored, and it then knows the stored one.           *)

Within(docs, c) == \A x \in Source : docs[x] # 0 => x \in c.enabled

ConfigInv ==
  /\ Within(index, current)
  /\ save.stage # "write" => current = config
  /\ save.stage = "write" =>
       /\ current = save.new /\ save.priorCurrent = config
       /\ Within(save.priorIndex, config)
  /\ save.stage \in {"read", "store"} => save.new = config
  /\ \A s \in Sync : sync[s].stage \in {"read", "store"} => sync[s].latest = config

-----------------------------------------------------------------------------
(* The copies of the snapshot that requests hold: what they agree on with  *)
(* the stored one.                                                         *)

\* A copy to be pruned is up to date on every source that is listed.
Fresh(docs) == \A x \in config.listed : docs[x] = snap[x]

CopyInv ==
  /\ save.stage = "store" => Fresh(save.read)
  /\ \A s \in Sync : sync[s].stage = "store" => Fresh(sync[s].read)
  /\ \A s \in Sync, x \in Source : sync[s].stage \in {"scan", "awaits"} /\ snap[x] # 0 =>
       sync[s].kept[x] = snap[x]
  /\ \A s \in Sync, x \in Source :
       (/\ sync[s].stage \in {"scan", "awaits", "write"} /\ snap[x] # 0
        /\ x \in sync[s].sources /\ x \notin sync[s].todo /\ x \notin sync[s].good)
         => sync[s].next[x] = snap[x]
  /\ \A s \in Sync : sync[s].stage = "write" => sync[s].todo = {}

-----------------------------------------------------------------------------
(* The dashboard: when no request is about to send a snapshot, the one     *)
(* begun last will show the stored state, or has.                          *)

Announces ==
  \/ save.stage \in {"read", "store"}
  \/ \E s \in Sync : sync[s].stage \in {"latest", "read", "store"}

ShownInv ==
  /\ \A e, f \in emissions : e.fresh /\ f.fresh => e = f
  /\ ~Announces /\ ~unseen =>
       /\ \A e \in emissions : e.fresh => e.view \in {"none", "stored"}
       /\ (\A e \in emissions : ~e.fresh) => shown = "stored"

KnowledgeInv ==
  /\ KnowledgeTypeOK /\ TurnInv /\ ShownInv
  /\ AloneInv /\ ConfigInv /\ (~crossed => CopyInv)

-----------------------------------------------------------------------------
(* Types.                                                                  *)

SaveRecord ==
  [stage : {"idle", "prior", "write", "read", "store"}, new : Configs,
   priorCurrent : Configs, priorIndex : Documents, read : Documents]

SyncRecord ==
  [stage : {"idle", "config", "queued", "previous", "scan", "awaits", "write", "latest",
            "read", "store"},
   sources : SUBSET Source, todo : SUBSET Source, good : SUBSET Source,
   next : Documents, kept : Documents, latest : Configs, read : Documents]

Emission == [fresh : BOOLEAN, view : {"none", "stored", "older"}]

LEMMA TypesUnfolded ==
  KnowledgeTypeOK <=>
    /\ config \in Configs /\ current \in Configs /\ snap \in Documents /\ index \in Documents
    /\ save \in SaveRecord /\ sync \in [Sync -> SyncRecord]
    /\ turn \in Seq(Sync) /\ db \in Seq(Sync \cup {Saver})
    /\ emissions \subseteq Emission /\ shown \in {"stored", "older"}
    /\ crossed \in BOOLEAN /\ unseen \in BOOLEAN
BY DEF KnowledgeTypeOK, SaveRecord, SyncRecord, Emission

(* Selecting sources of a snapshot leaves a snapshot.                      *)
LEMMA Selected ==
  ASSUME NEW docs \in Documents, NEW sources
  PROVE  Select(docs, sources) \in Documents
BY KnowledgeAssumption DEF Select, Documents

LEMMA ActiveWithin ==
  ASSUME NEW docs \in Documents, NEW c \in Configs
  PROVE  Active(docs, c) \in Documents /\ Within(Active(docs, c), c)
BY Selected DEF Active, Select, Within

LEMMA NothingWithin ==
  Nothing \in Documents /\ \A c : Within(Nothing, c)
BY KnowledgeAssumption DEF Nothing, Documents, Within

LEMMA IdleRecords ==
  ASSUME Configs # {}
  PROVE  /\ IdleSave \in SaveRecord /\ IdleSave.stage = "idle"
         /\ IdleSync \in SyncRecord /\ IdleSync.stage = "idle"
<1>1. Unset \in Configs
  BY DEF Unset
<1> QED
  BY <1>1, NothingWithin DEF IdleSave, IdleSync, SaveRecord, SyncRecord

(* emitUpdate leaves one newest snapshot, not yet read.                    *)
LEMMA EmissionBegun ==
  ASSUME NEW previous \in SUBSET Emission, BeginEmission(previous)
  PROVE  /\ emissions' \subseteq Emission /\ unseen' = FALSE
         /\ [fresh |-> TRUE, view |-> "none"] \in emissions'
         /\ \A e \in emissions' : e.fresh => e = [fresh |-> TRUE, view |-> "none"]
<1> DEFINE new == [fresh |-> TRUE, view |-> "none"]
<1>1. \A e \in Emission : [e EXCEPT !.fresh = FALSE] \in Emission
                          /\ [e EXCEPT !.fresh = FALSE].fresh = FALSE
  BY DEF Emission
<1>2. new \in Emission
  BY DEF Emission
<1> HIDE DEF new
<1> QED
  BY <1>1, <1>2 DEF BeginEmission, new

(* A write of the stores leaves the snapshots under way, and which of them *)
(* is the newest.                                                          *)
LEMMA EmissionsOvertaken ==
  ASSUME emissions \subseteq Emission
  PROVE  Overtaken \subseteq Emission
<1>1. \A e \in Emission : [e EXCEPT !.view = Outdated(@)] \in Emission
  BY DEF Emission, Outdated
<1> QED
  BY <1>1 DEF Overtaken

LEMMA OneNewestOvertaken ==
  ASSUME emissions \subseteq Emission, \A e, f \in emissions : e.fresh /\ f.fresh => e = f,
         NEW e \in Overtaken, NEW f \in Overtaken, e.fresh, f.fresh
  PROVE  e = f
<1>1. \A g \in Emission : [g EXCEPT !.view = Outdated(@)].fresh = g.fresh
  BY DEF Emission
<1> QED
  BY <1>1 DEF Overtaken

(* A request that moves on leaves the others where they are.               *)
LEMMA SyncMoves ==
  ASSUME KnowledgeTypeOK, NEW s \in Sync, SyncAsked(s) \/ SyncStep(s)
  PROVE  /\ sync' \in [Sync -> SyncRecord]
         /\ \A t \in Sync \ {s} : sync'[t] = sync[t]
         /\ UNCHANGED save
<1>1. sync \in [Sync -> SyncRecord] /\ config \in Configs /\ snap \in Documents
  BY TypesUnfolded
<1>2. ASSUME NEW r \in SyncRecord, sync' = [sync EXCEPT ![s] = r]
      PROVE  sync' \in [Sync -> SyncRecord] /\ \A t \in Sync \ {s} : sync'[t] = sync[t]
  BY <1>1, <1>2
<1>3. sync[s] \in SyncRecord /\ config.enabled \in SUBSET Source /\ 0..MaxVersion \subseteq Nat
  BY <1>1, KnowledgeAssumption
<1>4. UNCHANGED save
  BY DEF SyncAsked, SyncStep, SyncBegins, ScanTurn, ScanBegins, SourceAwaited, SourceRead,
         SourceFails, ScanEnds, SnapshotWritten, ScanFails, LatestConfig, SyncReadsSnapshot,
         SyncPrunes, SyncFailsLate
<1>5. CASE SyncAsked(s)
  <2>1. [sync[s] EXCEPT !.stage = "config"] \in SyncRecord
    BY <1>3 DEF SyncRecord
  <2> QED
    BY <1>2, <1>5, <2>1 DEF SyncAsked
<1>6. CASE SyncBegins(s)
  <2>1. [sync[s] EXCEPT !.stage = "queued", !.sources = config.enabled] \in SyncRecord
    BY <1>3 DEF SyncRecord
  <2> QED
    BY <1>2, <1>6, <2>1 DEF SyncBegins
<1>7. CASE ScanTurn(s)
  <2>1. [sync[s] EXCEPT !.stage = "previous"] \in SyncRecord
    BY <1>3 DEF SyncRecord
  <2> QED
    BY <1>2, <1>7, <2>1 DEF ScanTurn
<1>8. CASE ScanBegins(s)
  <2>1. [sync[s] EXCEPT !.stage = "scan", !.todo = sync[s].sources, !.kept = snap] \in SyncRecord
    BY <1>1, <1>3 DEF SyncRecord
  <2> QED
    BY <1>2, <1>8, <2>1 DEF ScanBegins
<1>16. CASE SourceAwaited(s)
  <2>1. [sync[s] EXCEPT !.stage = "awaits"] \in SyncRecord
    BY <1>3 DEF SyncRecord
  <2> QED
    BY <1>2, <1>16, <2>1 DEF SourceAwaited
<1>9. ASSUME NEW x \in Source, SourceRead(s, x)
      PROVE  sync' \in [Sync -> SyncRecord] /\ \A t \in Sync \ {s} : sync'[t] = sync[t]
  <2>1. PICK v \in 0..MaxVersion :
          sync' = [sync EXCEPT ![s].stage = "scan", ![s].todo = @ \ {x}, ![s].next[x] = v,
                               ![s].good = @ \cup {x}]
    BY <1>9, Zenon DEF SourceRead
  <2> DEFINE r == [sync[s] EXCEPT !.stage = "scan", !.todo = @ \ {x}, !.next[x] = v,
                                 !.good = @ \cup {x}]
  <2>2. r \in SyncRecord
    BY <1>3 DEF SyncRecord, Documents
  <2>3. sync' = [sync EXCEPT ![s] = r]
    BY <1>1, <2>1
  <2> QED
    BY <1>2, <2>2, <2>3
<1>10. ASSUME NEW x \in Source, SourceFails(s, x)
      PROVE  sync' \in [Sync -> SyncRecord] /\ \A t \in Sync \ {s} : sync'[t] = sync[t]
  <2> DEFINE r == [sync[s] EXCEPT !.stage = "scan", !.todo = @ \ {x}, !.next[x] = sync[s].kept[x]]
  <2>1. sync' = [sync EXCEPT ![s].stage = "scan", ![s].todo = @ \ {x},
                            ![s].next[x] = sync[s].kept[x]]
    BY <1>10 DEF SourceFails, LastGoodCopy
  <2>2. r \in SyncRecord
    BY <1>3 DEF SyncRecord, Documents
  <2>3. sync' = [sync EXCEPT ![s] = r]
    BY <1>1, <2>1
  <2> QED
    BY <1>2, <2>2, <2>3
<1>11. CASE ScanEnds(s)
  <2>1. [sync[s] EXCEPT !.stage = "write", !.kept = Nothing] \in SyncRecord
    BY <1>3, NothingWithin DEF SyncRecord
  <2> QED
    BY <1>2, <1>11, <2>1 DEF ScanEnds
<1>12. CASE SnapshotWritten(s)
  <2>1. [IdleSync EXCEPT !.stage = "latest"] \in SyncRecord
    BY <1>1, IdleRecords DEF SyncRecord
  <2> QED
    BY <1>2, <1>12, <2>1 DEF SnapshotWritten
<1>13. CASE ScanFails(s) \/ SyncFailsLate(s)
  BY <1>1, <1>2, <1>13, IdleRecords DEF ScanFails, SyncFailsLate
<1>14. CASE LatestConfig(s)
  <2>1. [sync[s] EXCEPT !.stage = "read", !.latest = config] \in SyncRecord
    BY <1>1, <1>3 DEF SyncRecord
  <2> QED
    BY <1>2, <1>14, <2>1 DEF LatestConfig
<1>15. CASE SyncReadsSnapshot(s) \/ SyncPrunes(s)
  <2>1. [sync[s] EXCEPT !.stage = "store", !.read = snap] \in SyncRecord
    BY <1>1, <1>3 DEF SyncRecord
  <2>2. \/ sync' = [sync EXCEPT ![s] = IdleSync]
        \/ sync' = [sync EXCEPT ![s].stage = "store", ![s].read = snap]
    BY <1>15, Zenon DEF SyncReadsSnapshot, SyncPrunes, SyncEnds
  <2>3. CASE sync' = [sync EXCEPT ![s] = IdleSync]
    BY <1>1, <1>2, <1>4, <2>3, IdleRecords
  <2>4. CASE sync' = [sync EXCEPT ![s].stage = "store", ![s].read = snap]
    BY <1>2, <1>4, <2>1, <2>4
  <2> QED
    BY <2>2, <2>3, <2>4
<1> QED
  BY <1>5, <1>6, <1>7, <1>8, <1>9, <1>10, <1>11, <1>12, <1>13, <1>14, <1>15, <1>16,
     <1>4 DEF SyncStep

(* Where each step leaves its request, and what the request then holds.    *)
LEMMA SyncArrives ==
  ASSUME KnowledgeTypeOK, NEW s \in Sync
  PROVE  /\ SyncAsked(s) => sync'[s].stage = "config"
         /\ SyncBegins(s) => sync'[s].stage = "queued"
         /\ ScanTurn(s) => sync'[s].stage = "previous"
         /\ ScanBegins(s) =>
              /\ sync'[s].stage = "scan" /\ sync'[s].kept = snap
              /\ sync'[s].todo = sync'[s].sources
         /\ SourceAwaited(s) =>
              /\ sync'[s].stage = "awaits" /\ sync'[s].sources = sync[s].sources
              /\ sync'[s].todo = sync[s].todo /\ sync'[s].good = sync[s].good
              /\ sync'[s].next = sync[s].next /\ sync'[s].kept = sync[s].kept
         /\ ScanEnds(s) =>
              /\ sync'[s].stage = "write" /\ sync'[s].sources = sync[s].sources
              /\ sync'[s].todo = sync[s].todo /\ sync'[s].good = sync[s].good
              /\ sync'[s].next = sync[s].next
         /\ SnapshotWritten(s) => sync'[s].stage = "latest"
         /\ ScanFails(s) \/ SyncFailsLate(s) \/ SyncPrunes(s) => sync'[s].stage = "idle"
         /\ LatestConfig(s) => sync'[s].stage = "read" /\ sync'[s].latest = config
<1>1. sync \in [Sync -> SyncRecord] /\ sync[s] \in SyncRecord /\ config \in Configs
  BY TypesUnfolded
<1>2. IdleSync.stage = "idle" /\ [IdleSync EXCEPT !.stage = "latest"].stage = "latest"
  BY DEF IdleSync
<1>3. SyncAsked(s) => sync'[s].stage = "config"
  BY <1>1 DEF SyncAsked, SyncRecord
<1>4. SyncBegins(s) => sync'[s].stage = "queued"
  BY <1>1 DEF SyncBegins, SyncRecord
<1>5. ScanTurn(s) => sync'[s].stage = "previous"
  BY <1>1 DEF ScanTurn, SyncRecord
<1>6. ScanBegins(s) => /\ sync'[s].stage = "scan" /\ sync'[s].kept = snap
                       /\ sync'[s].todo = sync'[s].sources
  BY <1>1 DEF ScanBegins, SyncRecord
<1>7. ScanEnds(s) => /\ sync'[s].stage = "write" /\ sync'[s].sources = sync[s].sources
                     /\ sync'[s].todo = sync[s].todo /\ sync'[s].good = sync[s].good
                     /\ sync'[s].next = sync[s].next
  BY <1>1 DEF ScanEnds, SyncRecord
<1>11. SourceAwaited(s) => /\ sync'[s].stage = "awaits" /\ sync'[s].sources = sync[s].sources
                           /\ sync'[s].todo = sync[s].todo /\ sync'[s].good = sync[s].good
                           /\ sync'[s].next = sync[s].next /\ sync'[s].kept = sync[s].kept
  BY <1>1 DEF SourceAwaited, SyncRecord
<1>8. SnapshotWritten(s) => sync'[s].stage = "latest"
  BY <1>1, <1>2 DEF SnapshotWritten
<1>9. ScanFails(s) \/ SyncFailsLate(s) \/ SyncPrunes(s) => sync'[s].stage = "idle"
  BY <1>1, <1>2 DEF ScanFails, SyncFailsLate, SyncPrunes, SyncEnds
<1>10. LatestConfig(s) => sync'[s].stage = "read" /\ sync'[s].latest = config
  BY <1>1 DEF LatestConfig, SyncRecord
<1> QED
  BY <1>3, <1>4, <1>5, <1>6, <1>7, <1>8, <1>9, <1>10, <1>11

LEMMA SourceArrives ==
  ASSUME KnowledgeTypeOK, NEW s \in Sync, NEW x \in Source
  PROVE  /\ SourceRead(s, x) \/ SourceFails(s, x) =>
              /\ sync'[s].stage = "scan" /\ sync'[s].sources = sync[s].sources
              /\ sync'[s].kept = sync[s].kept /\ sync'[s].todo = sync[s].todo \ {x}
              /\ \A y \in Source \ {x} : sync'[s].next[y] = sync[s].next[y]
         /\ SourceRead(s, x) => sync'[s].good = sync[s].good \cup {x}
         /\ SourceFails(s, x) =>
              sync'[s].good = sync[s].good /\ sync'[s].next[x] = sync[s].kept[x]
<1>1. /\ sync \in [Sync -> SyncRecord] /\ sync[s] \in SyncRecord
      /\ sync[s].next \in [Source -> 0..MaxVersion]
  BY TypesUnfolded DEF SyncRecord, Documents
<1>2. ASSUME NEW v, NEW good
      PROVE  LET r == [sync[s] EXCEPT !.stage = "scan", !.todo = @ \ {x}, !.next[x] = v,
                                  !.good = good]
             IN /\ r.stage = "scan" /\ r.sources = sync[s].sources
                /\ r.kept = sync[s].kept /\ r.todo = sync[s].todo \ {x} /\ r.good = good
                /\ r.next[x] = v /\ \A y \in Source \ {x} : r.next[y] = sync[s].next[y]
  BY <1>1 DEF SyncRecord
<1>3. ASSUME SourceRead(s, x)
      PROVE  /\ sync'[s].stage = "scan" /\ sync'[s].sources = sync[s].sources
             /\ sync'[s].kept = sync[s].kept /\ sync'[s].todo = sync[s].todo \ {x}
             /\ \A y \in Source \ {x} : sync'[s].next[y] = sync[s].next[y]
             /\ sync'[s].good = sync[s].good \cup {x}
  <2>1. PICK v \in 0..MaxVersion :
          sync' = [sync EXCEPT ![s].stage = "scan", ![s].todo = @ \ {x}, ![s].next[x] = v,
                               ![s].good = @ \cup {x}]
    BY <1>3, Zenon DEF SourceRead
  <2>2. sync'[s] = [sync[s] EXCEPT !.stage = "scan", !.todo = @ \ {x}, !.next[x] = v,
                                   !.good = sync[s].good \cup {x}]
    BY <1>1, <2>1
  <2> QED
    BY <1>2, <2>2
<1>4. ASSUME SourceFails(s, x)
      PROVE  /\ sync'[s].stage = "scan" /\ sync'[s].sources = sync[s].sources
             /\ sync'[s].kept = sync[s].kept /\ sync'[s].todo = sync[s].todo \ {x}
             /\ \A y \in Source \ {x} : sync'[s].next[y] = sync[s].next[y]
             /\ sync'[s].good = sync[s].good /\ sync'[s].next[x] = sync[s].kept[x]
  <2>1. sync' = [sync EXCEPT ![s].stage = "scan", ![s].todo = @ \ {x},
                            ![s].next[x] = sync[s].kept[x]]
    BY <1>4 DEF SourceFails, LastGoodCopy
  <2>2. sync'[s] = [sync[s] EXCEPT !.stage = "scan", !.todo = @ \ {x},
                                   !.next[x] = sync[s].kept[x], !.good = sync[s].good]
    BY <1>1, <2>1 DEF SyncRecord
  <2> QED
    BY <1>2, <2>2
<1> QED
  BY <1>3, <1>4

LEMMA SyncStores ==
  ASSUME KnowledgeTypeOK, NEW s \in Sync, SyncReadsSnapshot(s)
  PROVE  \/ /\ sync'[s].stage = "idle"
            /\ SyncEnds(s, snap, emissions) /\ UNCHANGED <<snap, shown>>
         \/ /\ sync'[s].stage = "store" /\ sync'[s].read = snap
            /\ sync'[s].latest = sync[s].latest
            /\ UNCHANGED <<index, snap, display, unseen>> /\ AsksAgain(s)
<1>1. sync \in [Sync -> SyncRecord] /\ sync[s] \in SyncRecord
  BY TypesUnfolded
<1>2. CASE Select(snap, sync[s].latest.listed) = snap
  BY <1>1, <1>2 DEF SyncReadsSnapshot, SyncEnds, IdleSync, stores
<1>3. CASE Select(snap, sync[s].latest.listed) # snap
  <2>1. sync' = [sync EXCEPT ![s].stage = "store", ![s].read = snap]
    BY <1>3, Zenon DEF SyncReadsSnapshot
  <2>2. /\ sync'[s].stage = "store" /\ sync'[s].read = snap
        /\ sync'[s].latest = sync[s].latest
    BY <1>1, <2>1 DEF SyncRecord
  <2>3. UNCHANGED <<index, snap, display, unseen>> /\ AsksAgain(s)
    BY <1>3, Zenon DEF SyncReadsSnapshot, stores
  <2> QED
    BY <2>2, <2>3
<1> QED
  BY <1>2, <1>3

(* The same of the save in progress.                                       *)
LEMMA SaveArrives ==
  ASSUME KnowledgeTypeOK
  PROVE  /\ \A c \in Configs : SaveAsked(c) => save' \in SaveRecord /\ save'.stage = "prior"
         /\ SaveBegins => /\ save' \in SaveRecord /\ save'.stage = "write"
                          /\ save'.new = save.new /\ save'.priorCurrent = current
                          /\ save'.priorIndex = index
         /\ SaveRefused \/ SaveNotWritten \/ SavePrunes \/ SaveFailsLate =>
              save' \in SaveRecord /\ save'.stage = "idle"
         /\ SaveWritten =>
              save' \in SaveRecord /\ save'.stage = "read" /\ save'.new = save.new
<1>1. /\ save \in SaveRecord /\ current \in Configs /\ index \in Documents /\ snap \in Documents
      /\ IdleSave \in SaveRecord /\ IdleSave.stage = "idle"
  BY TypesUnfolded, IdleRecords
<1>2. ASSUME NEW c \in Configs, SaveAsked(c) PROVE save' \in SaveRecord /\ save'.stage = "prior"
  BY <1>1, <1>2 DEF SaveAsked, SaveRecord
<1>3. SaveBegins => /\ save' \in SaveRecord /\ save'.stage = "write" /\ save'.new = save.new
                    /\ save'.priorCurrent = current /\ save'.priorIndex = index
  BY <1>1 DEF SaveBegins, SaveRecord
<1>4. SaveRefused \/ SaveNotWritten \/ SavePrunes \/ SaveFailsLate =>
        save' \in SaveRecord /\ save'.stage = "idle"
  BY <1>1 DEF SaveRefused, SaveNotWritten, SavePrunes, SaveFailsLate, SaveEnds
<1>5. SaveWritten => save' \in SaveRecord /\ save'.stage = "read" /\ save'.new = save.new
  BY <1>1 DEF SaveWritten, SaveRecord
<1> QED
  BY <1>2, <1>3, <1>4, <1>5

LEMMA SaveStores ==
  ASSUME KnowledgeTypeOK, SaveReadsSnapshot
  PROVE  /\ save' \in SaveRecord
         /\ \/ save'.stage = "idle" /\ SaveEnds(snap, emissions) /\ UNCHANGED <<snap, shown>>
            \/ /\ save'.stage = "store" /\ save'.read = snap /\ save'.new = save.new
               /\ UNCHANGED <<index, snap, display, unseen>> /\ AsksAgain(Saver)
<1>1. /\ save \in SaveRecord /\ snap \in Documents
      /\ IdleSave \in SaveRecord /\ IdleSave.stage = "idle"
  BY TypesUnfolded, IdleRecords
<1>2. CASE Select(snap, save.new.listed) = snap
  BY <1>1, <1>2 DEF SaveReadsSnapshot, SaveEnds, stores
<1>3. CASE Select(snap, save.new.listed) # snap
  <2>1. save' = [save EXCEPT !.stage = "store", !.read = snap]
    BY <1>3, Zenon DEF SaveReadsSnapshot
  <2>2. /\ save' \in SaveRecord /\ save'.stage = "store" /\ save'.read = snap
        /\ save'.new = save.new
    BY <1>1, <2>1 DEF SaveRecord
  <2>3. UNCHANGED <<index, snap, display, unseen>> /\ AsksAgain(Saver)
    BY <1>3, Zenon DEF SaveReadsSnapshot, stores
  <2> QED
    BY <2>2, <2>3
<1> QED
  BY <1>2, <1>3

-----------------------------------------------------------------------------
(* KnowledgeTypeOK: every step keeps the types.                            *)

LEMMA QueueTypes ==
  ASSUME KnowledgeTypeOK, NEW p \in Sync \cup {Saver}
  PROVE  /\ Served(p) /\ (Leaves \/ AsksAgain(p)) => db' \in Seq(Sync \cup {Saver})
         /\ Asks(p) => db' \in Seq(Sync \cup {Saver})
<1>1. db \in Seq(Sync \cup {Saver})
  BY TypesUnfolded
<1>2. db # <<>> => Tail(db) \in Seq(Sync \cup {Saver})
  BY <1>1, HeadTailProperties
<1>3. db # <<>> => Append(Tail(db), p) \in Seq(Sync \cup {Saver})
  BY <1>2, AppendProperties
<1>4. Append(db, p) \in Seq(Sync \cup {Saver})
  BY <1>1, AppendProperties
<1> QED
  BY <1>1, <1>2, <1>3, <1>4 DEF Served, Leaves, AsksAgain, Asks

LEMMA SaveAskedFrame ==
  ASSUME NEW c, SaveAsked(c)
  PROVE  Asks(Saver) /\ UNCHANGED <<stores, answering, sync, turn, display, ghosts>>
BY Zenon DEF SaveAsked

LEMMA SourceFrame ==
  ASSUME NEW s, NEW x, SourceRead(s, x) \/ SourceFails(s, x)
  PROVE  /\ Answered(s) /\ sync[s].stage \in {"scan", "awaits"} /\ x \in sync[s].todo
         /\ UNCHANGED <<stores, answering, save, turn, db, display, ghosts>>
<1>1. /\ Answered(s) /\ x \in sync[s].todo
      /\ UNCHANGED <<stores, answering, save, turn, db, display, ghosts>>
  BY Zenon DEF SourceRead, SourceFails
<1> QED
  BY <1>1 DEF Answered

LEMMA SaveTypes ==
  ASSUME KnowledgeTypeOK, SaveStep \/ \E c \in Configs : SaveAsked(c)
  PROVE  KnowledgeTypeOK'
<1> SUFFICES /\ config' \in Configs /\ current' \in Configs /\ snap' \in Documents
             /\ index' \in Documents /\ save' \in SaveRecord /\ sync' \in [Sync -> SyncRecord]
             /\ turn' \in Seq(Sync) /\ db' \in Seq(Sync \cup {Saver})
             /\ emissions' \subseteq Emission /\ shown' \in {"stored", "older"}
             /\ crossed' \in BOOLEAN /\ unseen' \in BOOLEAN
  BY TypesUnfolded DEF KnowledgeTypeOK, SaveRecord, SyncRecord, Emission
<1>1. /\ config \in Configs /\ current \in Configs /\ snap \in Documents /\ index \in Documents
      /\ save \in SaveRecord /\ sync \in [Sync -> SyncRecord] /\ turn \in Seq(Sync)
      /\ db \in Seq(Sync \cup {Saver}) /\ emissions \subseteq Emission
      /\ shown \in {"stored", "older"} /\ crossed \in BOOLEAN /\ unseen \in BOOLEAN
      /\ Overtaken \subseteq Emission /\ Nothing \in Documents
      /\ save.new \in Configs /\ save.priorCurrent \in Configs
      /\ save.priorIndex \in Documents /\ save.read \in Documents
  BY TypesUnfolded, EmissionsOvertaken, NothingWithin DEF SaveRecord
<1>2. ASSUME NEW docs \in Documents, NEW sending \in SUBSET Emission, SaveEnds(docs, sending)
      PROVE  /\ index' \in Documents /\ emissions' \subseteq Emission /\ unseen' \in BOOLEAN
             /\ Leaves
  <2>1. BeginEmission(sending) /\ Leaves /\ index' = Active(docs, save.new)
    BY <1>2 DEF SaveEnds
  <2> QED
    BY <1>1, <2>1, EmissionBegun, ActiveWithin
<1>3. ASSUME NEW c \in Configs, SaveAsked(c)
      PROVE  /\ UNCHANGED <<stores, answering, sync, turn, display, ghosts>>
             /\ save' \in SaveRecord /\ db' \in Seq(Sync \cup {Saver})
  <2>1. Asks(Saver) /\ UNCHANGED <<stores, answering, sync, turn, display, ghosts>>
    BY <1>3, SaveAskedFrame
  <2> QED
    BY <1>3, <2>1, SaveArrives, QueueTypes
<1>4. CASE SaveBegins
  BY <1>1, <1>4, SaveArrives, QueueTypes DEF SaveBegins, stores, display, ghosts, IndexDuringSave
<1>5. CASE SaveRefused
  BY <1>1, <1>5, SaveArrives, QueueTypes DEF SaveRefused, stores, answering, display, ghosts
<1>6. CASE SaveWritten
  BY <1>1, <1>6, SaveArrives, QueueTypes DEF SaveWritten, Written, answering, ghosts
<1>7. CASE SaveNotWritten
  BY <1>1, <1>7, SaveArrives, QueueTypes DEF SaveNotWritten, RolledBack, stores, display, ghosts
<1>8. CASE SaveReadsSnapshot
  <2>1. /\ index' \in Documents /\ emissions' \subseteq Emission /\ unseen' \in BOOLEAN
        /\ (Leaves \/ AsksAgain(Saver)) /\ save' \in SaveRecord
    BY <1>1, <1>2, <1>8, SaveStores DEF display
  <2> QED
    BY <1>1, <1>8, <2>1, QueueTypes DEF SaveReadsSnapshot, stores, display
<1>9. CASE SavePrunes
  <2>1. snap' \in Documents
    BY <1>1, <1>9, Selected DEF SavePrunes
  <2> QED
    BY <1>1, <1>2, <1>9, <2>1, SaveArrives, QueueTypes DEF SavePrunes
<1>10. CASE SaveFailsLate
  BY <1>1, <1>10, SaveArrives, QueueTypes DEF SaveFailsLate, stores, answering, display
<1> QED
  BY <1>1, <1>3, <1>4, <1>5, <1>6, <1>7, <1>8, <1>9, <1>10
     DEF SaveStep, stores, answering, display, ghosts

LEMMA SyncTypes ==
  ASSUME KnowledgeTypeOK, NEW s \in Sync, SyncAsked(s) \/ SyncStep(s),
         Waits(s) => turn # <<>>
  PROVE  KnowledgeTypeOK'
<1> SUFFICES /\ config' \in Configs /\ current' \in Configs /\ snap' \in Documents
             /\ index' \in Documents /\ save' \in SaveRecord /\ sync' \in [Sync -> SyncRecord]
             /\ turn' \in Seq(Sync) /\ db' \in Seq(Sync \cup {Saver})
             /\ emissions' \subseteq Emission /\ shown' \in {"stored", "older"}
             /\ crossed' \in BOOLEAN /\ unseen' \in BOOLEAN
  BY TypesUnfolded DEF KnowledgeTypeOK, SaveRecord, SyncRecord, Emission
<1>1. /\ config \in Configs /\ current \in Configs /\ snap \in Documents /\ index \in Documents
      /\ save \in SaveRecord /\ turn \in Seq(Sync)
      /\ db \in Seq(Sync \cup {Saver}) /\ emissions \subseteq Emission
      /\ shown \in {"stored", "older"} /\ crossed \in BOOLEAN /\ unseen \in BOOLEAN
      /\ Overtaken \subseteq Emission
  BY TypesUnfolded, EmissionsOvertaken
<1>2. /\ sync[s].next \in Documents /\ sync[s].read \in Documents /\ sync[s].latest \in Configs
  BY TypesUnfolded DEF SyncRecord
<1>3. sync' \in [Sync -> SyncRecord] /\ save' \in SaveRecord
  BY <1>1, SyncMoves
<1>4. Append(turn, s) \in Seq(Sync) /\ (Waits(s) => Tail(turn) \in Seq(Sync))
  BY <1>1, HeadTailProperties, AppendProperties
<1>5. ASSUME NEW docs \in Documents, NEW sending \in SUBSET Emission, SyncEnds(s, docs, sending)
      PROVE  /\ index' \in Documents /\ emissions' \subseteq Emission /\ unseen' \in BOOLEAN
             /\ Leaves
  <2>1. BeginEmission(sending) /\ Leaves /\ index' = Active(docs, sync[s].latest)
    BY <1>5 DEF SyncEnds
  <2> QED
    BY <1>1, <1>2, <2>1, EmissionBegun, ActiveWithin
<1>6. CASE SyncAsked(s) \/ ScanTurn(s) \/ ScanEnds(s)
  BY <1>1, <1>3, <1>6, QueueTypes
     DEF SyncAsked, ScanTurn, ScanEnds, stores, answering, display, ghosts
<1>7. CASE SyncBegins(s) \/ ScanBegins(s)
  BY <1>1, <1>3, <1>4, <1>7, QueueTypes
     DEF SyncBegins, ScanBegins, stores, answering, display, ghosts
<1>8. CASE \E x \in Source : SourceRead(s, x) \/ SourceFails(s, x)
  <2>1. UNCHANGED <<stores, answering, save, turn, db, display, ghosts>>
    BY <1>8, SourceFrame
  <2> QED
    BY <1>1, <1>3, <2>1 DEF stores, answering, display, ghosts
<1>14. CASE SourceAwaited(s)
  BY <1>1, <1>3, <1>14 DEF SourceAwaited, stores, answering, display, ghosts
<1>9. CASE SnapshotWritten(s)
  BY <1>1, <1>2, <1>3, <1>4, <1>9, QueueTypes DEF SnapshotWritten, Written, Waits, answering
<1>10. CASE ScanFails(s) \/ SyncFailsLate(s)
  BY <1>1, <1>3, <1>4, <1>10, QueueTypes
     DEF ScanFails, TurnAfterFailure, SyncFailsLate, Waits, stores, answering, display, ghosts
<1>11. CASE LatestConfig(s)
  BY <1>1, <1>3, <1>11, QueueTypes DEF LatestConfig, stores, display, ghosts
<1>12. CASE SyncReadsSnapshot(s)
  <2>1. /\ index' \in Documents /\ emissions' \subseteq Emission /\ unseen' \in BOOLEAN
        /\ Leaves \/ AsksAgain(s)
    BY <1>1, <1>5, <1>12, SyncStores DEF display
  <2> QED
    BY <1>1, <1>3, <1>12, <2>1, QueueTypes DEF SyncReadsSnapshot, stores, display
<1>13. CASE SyncPrunes(s)
  <2>1. snap' \in Documents
    BY <1>2, <1>13, Selected DEF SyncPrunes
  <2> QED
    BY <1>1, <1>3, <1>5, <1>13, <2>1, QueueTypes DEF SyncPrunes
<1> QED
  BY <1>6, <1>7, <1>8, <1>9, <1>10, <1>11, <1>12, <1>13, <1>14, Zenon DEF SyncStep

(* The dashboard's snapshots touch nothing but themselves.                 *)
LEMMA EmissionTypes ==
  ASSUME KnowledgeTypeOK, NEW e \in emissions,
         EmissionRead(e) \/ EmissionSent(e) \/ EmissionFails(e)
  PROVE  KnowledgeTypeOK'
<1>1. emissions \subseteq Emission /\ e \in Emission
  BY TypesUnfolded
<1>2. [e EXCEPT !.view = "stored"] \in Emission /\ e.fresh \in BOOLEAN
      /\ (e.view # "none" => e.view \in {"stored", "older"})
  BY <1>1 DEF Emission
<1>3. emissions' \subseteq Emission /\ shown' \in {"stored", "older"} /\ unseen' \in BOOLEAN
  BY <1>1, <1>2, TypesUnfolded
     DEF EmissionRead, EmissionSent, EmissionFails, StillNewest, ghosts
<1>4. UNCHANGED <<config, snap, current, index, save, sync, turn, db, crossed>>
  BY DEF EmissionRead, EmissionSent, EmissionFails, stores, answering, requests, ghosts
<1> QED
  BY <1>3, <1>4, Zenon DEF KnowledgeTypeOK, Emission

LEMMA StartTypes ==
  ASSUME NEW c \in Configs, NEW docs \in Documents, Started(c, docs),
         config' \in Configs, snap' \in Documents
  PROVE  KnowledgeTypeOK'
<1>1. /\ IdleSave \in SaveRecord /\ IdleSync \in SyncRecord /\ Active(docs, c) \in Documents
  BY IdleRecords, ActiveWithin
<1>2. <<>> \in Seq(Sync) /\ <<>> \in Seq(Sync \cup {Saver})
  BY EmptySeq
<1> QED
  BY <1>1, <1>2 DEF Started, KnowledgeTypeOK, SaveRecord, SyncRecord

-----------------------------------------------------------------------------
(* The queue of scans.                                                     *)

(* A step within the queue or outside it.                                  *)
LEMMA TurnKeeps ==
  ASSUME KnowledgeTypeOK, TurnInv, UNCHANGED turn,
         \A s \in Sync : /\ Waits(s)' <=> Waits(s)
                         /\ Scans(s)' => Scans(s) \/ Head(turn) = s
  PROVE  TurnInv'
<1>1. turn \in Seq(Sync)
  BY TypesUnfolded
<1>2. \A i \in 1..Len(turn) : turn[i] \in Sync
  BY <1>1, ElementOfSeq
<1>3. \A s \in Sync : Scans(s)' => turn[1] = s
  <2> SUFFICES ASSUME NEW s \in Sync, Scans(s)' PROVE turn[1] = s
    OBVIOUS
  <2>1. PICK i \in 1..Len(turn) : turn[i] = s
    BY DEF TurnInv, Waits, Scans
  <2>2. turn # <<>>
    BY <1>1, <2>1
  <2> QED
    BY <1>1, <2>2 DEF TurnInv
<1>4. \A i \in 1..Len(turn) : Waits(turn[i])'
  BY <1>2 DEF TurnInv
<1>5. \A s \in Sync : Waits(s)' => \E i \in 1..Len(turn) : turn[i] = s
  BY DEF TurnInv
<1> QED
  BY <1>3, <1>4, <1>5, Zenon DEF TurnInv

LEMMA TurnJoined ==
  ASSUME KnowledgeTypeOK, TurnInv, NEW s \in Sync, ~Waits(s), turn' = Append(turn, s),
         sync'[s].stage = "queued", \A t \in Sync \ {s} : sync'[t] = sync[t]
  PROVE  TurnInv'
<1>1. turn \in Seq(Sync)
  BY TypesUnfolded
<1>2. /\ Len(turn') = Len(turn) + 1 /\ Len(turn) \in Nat /\ turn'[Len(turn) + 1] = s
      /\ \A i \in 1..Len(turn) : turn'[i] = turn[i] /\ turn[i] \in Sync /\ turn[i] # s
  BY <1>1, AppendProperties, ElementOfSeq DEF TurnInv
<1>3. \A i \in 1..Len(turn) + 1 : i \in 1..Len(turn) \/ i = Len(turn) + 1
  BY <1>2
<1>4. \A i \in 1..Len(turn') : sync'[turn'[i]].stage \in {"queued", "previous", "scan", "awaits", "write"}
  BY <1>2, <1>3 DEF TurnInv, Waits
<1>5. \A i, j \in 1..Len(turn') : turn'[i] = turn'[j] => i = j
  BY <1>2, <1>3 DEF TurnInv
<1>6. \A t \in Sync : Waits(t)' => \E i \in 1..Len(turn') : turn'[i] = t
  <2> SUFFICES ASSUME NEW t \in Sync, Waits(t)' PROVE \E i \in 1..Len(turn') : turn'[i] = t
    OBVIOUS
  <2>1. CASE t = s
    BY <1>2, <2>1
  <2>2. CASE t # s
    <3>1. PICK i \in 1..Len(turn) : turn[i] = t
      BY <2>2 DEF TurnInv, Waits
    <3> QED
      BY <1>2, <3>1
  <2> QED
    BY <2>1, <2>2
<1>7. \A t \in Sync : Scans(t)' => turn'[1] = t
  <2> SUFFICES ASSUME NEW t \in Sync, Scans(t)' PROVE turn'[1] = t
    OBVIOUS
  <2>1. t # s /\ Scans(t)
    BY DEF Scans
  <2>2. turn[1] = t /\ 1 \in 1..Len(turn)
    BY <1>2, <2>1 DEF TurnInv, Waits, Scans
  <2> QED
    BY <1>2, <2>2
<1> QED
  BY <1>4, <1>5, <1>6, <1>7, Zenon DEF TurnInv, Waits

LEMMA TurnLeft ==
  ASSUME KnowledgeTypeOK, TurnInv, NEW s \in Sync, Scans(s), turn' = Tail(turn),
         sync'[s].stage \in {"idle", "latest"}, \A t \in Sync \ {s} : sync'[t] = sync[t]
  PROVE  TurnInv'
<1>1. turn \in Seq(Sync)
  BY TypesUnfolded
<1>2. turn[1] = s /\ turn # <<>> /\ Len(turn) \in Nat /\ Len(turn) >= 1
  <2>1. PICK i \in 1..Len(turn) : turn[i] = s
    BY DEF TurnInv, Waits, Scans
  <2> QED
    BY <1>1, <2>1 DEF TurnInv
<1>3. Len(turn') = Len(turn) - 1 /\ \A i \in 1..Len(turn') : turn'[i] = turn[i + 1]
  BY <1>1, <1>2, HeadTailProperties
<1>4. \A i \in 1..Len(turn') : /\ i + 1 \in 1..Len(turn) /\ turn'[i] \in Sync
                               /\ turn'[i] # s
  <2> SUFFICES ASSUME NEW i \in 1..Len(turn')
               PROVE  i + 1 \in 1..Len(turn) /\ turn'[i] \in Sync /\ turn'[i] # s
    OBVIOUS
  <2>1. i + 1 \in 1..Len(turn) /\ i + 1 # 1 /\ 1 \in 1..Len(turn)
    BY <1>2, <1>3
  <2> QED
    BY <1>1, <1>2, <1>3, <2>1, ElementOfSeq DEF TurnInv
<1>5. \A i \in 1..Len(turn') : sync'[turn'[i]].stage \in {"queued", "previous", "scan", "awaits", "write"}
  <2> SUFFICES ASSUME NEW i \in 1..Len(turn')
               PROVE  sync'[turn'[i]].stage \in {"queued", "previous", "scan", "awaits", "write"}
    OBVIOUS
  <2>1. Waits(turn[i + 1]) /\ turn'[i] = turn[i + 1]
    BY <1>3, <1>4 DEF TurnInv
  <2>2. sync'[turn'[i]] = sync[turn[i + 1]]
    BY <1>4, <2>1
  <2> QED
    BY <2>1, <2>2 DEF Waits
<1>6. \A i, j \in 1..Len(turn') : turn'[i] = turn'[j] => i = j
  <2> SUFFICES ASSUME NEW i \in 1..Len(turn'), NEW j \in 1..Len(turn'), turn'[i] = turn'[j]
               PROVE  i = j
    OBVIOUS
  <2>1. i + 1 = j + 1
    BY <1>3, <1>4 DEF TurnInv
  <2> QED
    BY <1>2, <1>3, <2>1
<1>7. \A t \in Sync : Waits(t)' => \E i \in 1..Len(turn') : turn'[i] = t
  <2> SUFFICES ASSUME NEW t \in Sync, Waits(t)' PROVE \E i \in 1..Len(turn') : turn'[i] = t
    OBVIOUS
  <2>1. t # s
    BY DEF Waits
  <2>2. PICK i \in 1..Len(turn) : turn[i] = t
    BY <2>1 DEF TurnInv, Waits
  <2>3. i # 1 /\ i - 1 \in 1..Len(turn') /\ (i - 1) + 1 = i
    BY <1>2, <1>3, <2>1, <2>2
  <2>4. turn'[i - 1] = t
    BY <1>3, <2>2, <2>3
  <2> QED
    BY <2>3, <2>4
<1>8. \A t \in Sync : ~Scans(t)'
  <2> SUFFICES ASSUME NEW t \in Sync, Scans(t)' PROVE FALSE
    OBVIOUS
  <2>1. t # s /\ Scans(t)
    BY DEF Scans
  <2> QED
    BY <1>2, <2>1 DEF TurnInv
<1> QED
  BY <1>5, <1>6, <1>7, <1>8, Zenon DEF TurnInv, Waits

LEMMA TurnStep ==
  ASSUME KnowledgeTypeOK, TurnInv, NEW s \in Sync, SyncAsked(s) \/ SyncStep(s)
  PROVE  TurnInv'
<1>1. \A t \in Sync \ {s} : sync'[t] = sync[t]
  BY SyncMoves
<1>2. ASSUME UNCHANGED turn, Waits(s)' <=> Waits(s), Scans(s)' => Scans(s) \/ Head(turn) = s
      PROVE  TurnInv'
  <2>1. \A t \in Sync : /\ Waits(t)' <=> Waits(t)
                        /\ Scans(t)' => Scans(t) \/ Head(turn) = t
    BY <1>1, <1>2 DEF Waits, Scans
  <2> QED
    BY <1>2, <2>1, TurnKeeps
<1>3. CASE SyncAsked(s) \/ ScanTurn(s) \/ ScanBegins(s) \/ SourceAwaited(s) \/ ScanEnds(s)
  BY <1>2, <1>3, SyncArrives
     DEF SyncAsked, ScanTurn, ScanBegins, SourceAwaited, ScanEnds, Waits, Scans
<1>4. CASE SyncBegins(s)
  <2>1. ~Waits(s) /\ turn' = Append(turn, s)
    BY <1>4 DEF SyncBegins, Waits
  <2> QED
    BY <1>1, <1>4, <2>1, SyncArrives, TurnJoined
<1>5. CASE \E x \in Source : SourceRead(s, x) \/ SourceFails(s, x)
  <2>1. UNCHANGED turn /\ sync[s].stage \in {"scan", "awaits"} /\ sync'[s].stage = "scan"
    BY <1>5, SourceFrame, SourceArrives
  <2> QED
    BY <1>2, <2>1 DEF Waits, Scans
<1>6. CASE SnapshotWritten(s) \/ ScanFails(s)
  <2>1. Scans(s) /\ turn' = Tail(turn)
    BY <1>6 DEF SnapshotWritten, ScanFails, TurnAfterFailure, Scans
  <2> QED
    BY <1>1, <1>6, <2>1, SyncArrives, TurnLeft
<1>7. CASE LatestConfig(s) \/ SyncPrunes(s) \/ SyncFailsLate(s)
  BY <1>2, <1>7, SyncArrives DEF LatestConfig, SyncPrunes, SyncFailsLate, Waits, Scans
<1>8. CASE SyncReadsSnapshot(s)
  <2>1. UNCHANGED turn /\ sync[s].stage = "read" /\ sync'[s].stage \in {"idle", "store"}
    BY <1>8, SyncStores DEF SyncReadsSnapshot
  <2> QED
    BY <1>2, <2>1 DEF Waits, Scans
<1> QED
  BY <1>3, <1>4, <1>5, <1>6, <1>7, <1>8, Zenon DEF SyncStep

-----------------------------------------------------------------------------
(* Who waits for the database, and the save that runs alone.               *)

InQueue(p) == \E i \in 1..Len(db) : db[i] = p

LEMMA QueuePlaces ==
  ASSUME KnowledgeTypeOK, NEW s \in Sync
  PROVE  /\ Asks(s) => InQueue(s)' /\ \A t \in Sync : InQueue(t) => InQueue(t)'
         /\ Served(s) /\ Leaves => \A t \in Sync \ {s} : InQueue(t) => InQueue(t)'
         /\ Served(s) /\ AsksAgain(s) =>
              InQueue(s)' /\ \A t \in Sync : InQueue(t) => InQueue(t)'
<1>1. db \in Seq(Sync \cup {Saver}) /\ Len(db) \in Nat
  BY TypesUnfolded
<1>2. ASSUME Asks(s)
      PROVE  InQueue(s)' /\ \A t \in Sync : InQueue(t) => InQueue(t)'
  <2>1. /\ Len(db') = Len(db) + 1 /\ db'[Len(db) + 1] = s
        /\ \A i \in 1..Len(db) : db'[i] = db[i]
    BY <1>1, <1>2, AppendProperties DEF Asks
  <2> QED
    BY <1>1, <2>1 DEF InQueue
<1>3. ASSUME Served(s)
      PROVE  /\ Tail(db) \in Seq(Sync \cup {Saver}) /\ Len(Tail(db)) = Len(db) - 1
             /\ \A t \in Sync \ {s} : InQueue(t) =>
                  \E i \in 1..Len(Tail(db)) : Tail(db)[i] = t
  <2>1. /\ Tail(db) \in Seq(Sync \cup {Saver}) /\ Len(Tail(db)) = Len(db) - 1 /\ db[1] = s
        /\ \A i \in 1..Len(Tail(db)) : Tail(db)[i] = db[i + 1]
    BY <1>1, <1>3, HeadTailProperties DEF Served
  <2>2. ASSUME NEW t \in Sync \ {s}, NEW i \in 1..Len(db), db[i] = t
        PROVE  \E j \in 1..Len(Tail(db)) : Tail(db)[j] = t
    <3>1. i - 1 \in 1..Len(Tail(db)) /\ (i - 1) + 1 = i
      BY <1>1, <2>1, <2>2
    <3> QED
      BY <2>1, <2>2, <3>1
  <2> QED
    BY <2>1, <2>2 DEF InQueue
<1>4. ASSUME Served(s), Leaves
      PROVE  \A t \in Sync \ {s} : InQueue(t) => InQueue(t)'
  BY <1>3, <1>4 DEF Leaves, InQueue
<1>5. ASSUME Served(s), AsksAgain(s)
      PROVE  InQueue(s)' /\ \A t \in Sync : InQueue(t) => InQueue(t)'
  <2>1. /\ Len(Tail(db)) \in Nat /\ Len(db') = Len(Tail(db)) + 1
        /\ db'[Len(Tail(db)) + 1] = s /\ \A i \in 1..Len(Tail(db)) : db'[i] = Tail(db)[i]
    BY <1>1, <1>3, <1>5, AppendProperties DEF AsksAgain
  <2>2. InQueue(s)'
    BY <2>1 DEF InQueue
  <2>3. ASSUME NEW t \in Sync \ {s}, InQueue(t)
        PROVE  InQueue(t)'
    <3>1. PICK i \in 1..Len(Tail(db)) : Tail(db)[i] = t
      BY <1>3, <1>5, <2>3
    <3>2. i \in 1..Len(db') /\ db'[i] = t
      BY <2>1, <3>1
    <3> QED
      BY <3>2 DEF InQueue
  <2> QED
    BY <2>2, <2>3
<1> QED
  BY <1>2, <1>4, <1>5

(* Nothing of a synchronisation happens while a save is under way.         *)
LEMMA SaveAlone ==
  ASSUME AloneInv, NEW s \in Sync, SyncAsked(s) \/ SyncStep(s)
  PROVE  save.stage = "idle"
<1> SUFFICES ASSUME save.stage # "idle" PROVE FALSE
  OBVIOUS
<1>1. /\ db = <<Saver>> /\ sync[s].stage \in {"idle", "queued", "awaits"}
      /\ sync[s].stage = "queued" => Head(turn) # s
  BY DEF AloneInv
<1>2. ~Served(s) /\ ~Quiet /\ ~Answered(s)
  BY <1>1, KnowledgeAssumption DEF Served, Quiet, Answered
<1>3. ~\E x \in Source : SourceRead(s, x) \/ SourceFails(s, x)
  BY <1>2, SourceFrame
<1> QED
  BY <1>1, <1>2, <1>3, Zenon
     DEF SyncStep, SyncAsked, SyncBegins, ScanTurn, ScanBegins, SourceAwaited, ScanEnds,
         SnapshotWritten, ScanFails, LatestConfig, SyncReadsSnapshot, SyncPrunes, SyncFailsLate

LEMMA AloneSaved ==
  ASSUME KnowledgeTypeOK, AloneInv, SaveStep \/ \E c \in Configs : SaveAsked(c),
         UNCHANGED <<sync, turn>>
  PROVE  AloneInv'
<1>1. \A s \in Sync :
        sync[s].stage \in {"idle", "config", "queued", "previous", "scan", "awaits", "write",
                          "latest", "read", "store"}
  BY TypesUnfolded DEF SyncRecord
<1>2. CASE \E c \in Configs : SaveAsked(c)
  <2>1. db = <<>> /\ Quiet /\ Asks(Saver)
    BY <1>2, Zenon DEF SaveAsked, Quiet
  <2>2. db' = <<Saver>>
    BY <2>1 DEF Asks
  <2>3. \A s \in Sync :
          /\ sync[s].stage \notin {"config", "previous", "write", "latest", "read", "store"}
          /\ sync[s].stage # "scan"
          /\ sync[s].stage = "queued" => Head(turn) # s
    BY <2>1 DEF AloneInv, Quiet
  <2> QED
    BY <1>1, <2>2, <2>3 DEF AloneInv
<1>3. CASE SaveStep
  <2>1. save.stage # "idle" /\ Served(Saver)
    BY <1>3 DEF SaveStep, SaveBegins, SaveRefused, SaveWritten, SaveNotWritten,
                SaveReadsSnapshot, SavePrunes, SaveFailsLate
  <2>2. /\ db = <<Saver>>
        /\ \A s \in Sync : /\ sync[s].stage \in {"idle", "queued", "awaits"}
                           /\ sync[s].stage = "queued" => Head(turn) # s
    BY <2>1 DEF AloneInv
  <2>3. \/ Leaves /\ save' = IdleSave
        \/ AsksAgain(Saver)
    BY <1>3, Zenon DEF SaveStep, SaveBegins, SaveRefused, SaveWritten, SaveNotWritten,
                       SaveReadsSnapshot, SavePrunes, SaveFailsLate, SaveEnds
  <2>4. save'.stage = "idle" \/ db' = <<Saver>>
    <3>1. Append(Tail(<<Saver>>), Saver) = <<Saver>>
      OBVIOUS
    <3>2. AsksAgain(Saver) => db' = <<Saver>>
      BY <2>2, <3>1, Zenon DEF AsksAgain
    <3>3. save' = IdleSave => save'.stage = "idle"
      BY DEF IdleSave
    <3> QED
      BY <2>3, <3>2, <3>3
  <2> QED
    BY <2>2, <2>4 DEF AloneInv
<1> QED
  BY <1>2, <1>3

LEMMA AloneSynced ==
  ASSUME KnowledgeTypeOK, AloneInv, NEW s \in Sync, SyncAsked(s) \/ SyncStep(s)
  PROVE  AloneInv'
<1> DEFINE Asking(t) ==
      sync[t].stage \in {"config", "previous", "write", "latest", "read", "store"}
<1>1. save'.stage = "idle" /\ \A t \in Sync \ {s} : sync'[t] = sync[t]
  BY SaveAlone, SyncMoves
<1>2. \A t \in Sync : Asking(t) => InQueue(t)
  BY DEF AloneInv, InQueue
<1>3. SUFFICES /\ Asking(s)' => InQueue(s)'
               /\ \A t \in Sync \ {s} : InQueue(t) => InQueue(t)'
  <2>1. \A t \in Sync : Asking(t)' => InQueue(t)'
    BY <1>1, <1>2, <1>3
  <2> QED
    BY <1>1, <2>1 DEF AloneInv, InQueue
<1> HIDE DEF Asking
<1>4. CASE SyncAsked(s) \/ ScanTurn(s) \/ ScanEnds(s)
  BY <1>4, QueuePlaces, Zenon DEF SyncAsked, ScanTurn, ScanEnds
<1>5. CASE SyncBegins(s) \/ ScanBegins(s) \/ ScanFails(s) \/ SyncFailsLate(s) \/ SyncPrunes(s)
  <2>1. sync'[s].stage \in {"queued", "scan", "idle"}
    BY <1>5, SyncArrives
  <2>2. Served(s) /\ Leaves
    BY <1>5, Zenon DEF SyncBegins, ScanBegins, ScanFails, SyncFailsLate, SyncPrunes, SyncEnds
  <2> QED
    BY <2>1, <2>2, QueuePlaces DEF Asking
<1>6. CASE SourceAwaited(s)
  BY <1>6, SyncArrives DEF SourceAwaited, Asking, InQueue
<1>7. CASE \E x \in Source : SourceRead(s, x) \/ SourceFails(s, x)
  <2>1. UNCHANGED db /\ sync'[s].stage = "scan"
    BY <1>7, SourceFrame, SourceArrives
  <2> QED
    BY <2>1 DEF Asking, InQueue
<1>8. CASE SnapshotWritten(s) \/ LatestConfig(s)
  BY <1>8, QueuePlaces, Zenon DEF SnapshotWritten, LatestConfig
<1>9. CASE SyncReadsSnapshot(s)
  <2>1. \/ Served(s) /\ Leaves /\ sync'[s].stage = "idle"
        \/ Served(s) /\ AsksAgain(s)
    BY <1>9, SyncStores DEF SyncReadsSnapshot, SyncEnds
  <2> QED
    BY <2>1, QueuePlaces DEF Asking
<1> QED
  BY <1>4, <1>5, <1>6, <1>7, <1>8, <1>9, Zenon DEF SyncStep

-----------------------------------------------------------------------------
(* The configuration in memory.                                            *)

LEMMA ConfigSaved ==
  ASSUME KnowledgeTypeOK, AloneInv, ConfigInv,
         SaveStep \/ \E c \in Configs : SaveAsked(c)
  PROVE  ConfigInv'
<1>1. /\ snap \in Documents /\ index \in Documents /\ config \in Configs /\ save \in SaveRecord
      /\ save.new \in Configs /\ save.read \in Documents
  BY TypesUnfolded DEF SaveRecord
<1>2. CASE \E c \in Configs : SaveAsked(c)
  <2>1. /\ save'.stage = "prior" /\ save.stage = "idle"
        /\ UNCHANGED <<config, current, index, sync>>
    BY <1>2, SaveArrives, SaveAskedFrame, Zenon DEF SaveAsked, stores, answering
  <2> QED
    BY <2>1 DEF ConfigInv
<1>3. CASE SaveBegins
  <2>1. /\ save'.stage = "write" /\ save'.new = save.new /\ save'.priorCurrent = current
        /\ save'.priorIndex = index
    BY <1>3, SaveArrives
  <2>2. /\ current = config /\ current' = save.new
        /\ index' = IF save.new = config THEN index ELSE Nothing
        /\ UNCHANGED <<config, sync>>
    BY <1>3 DEF SaveBegins, IndexDuringSave, ConfigInv, stores
  <2>3. Within(index', current')
    BY <2>2, NothingWithin DEF ConfigInv
  <2> QED
    BY <2>1, <2>2, <2>3 DEF ConfigInv
<1>4. CASE SaveRefused \/ SaveFailsLate
  <2>1. save'.stage = "idle" /\ UNCHANGED <<config, current, index, sync>>
    BY <1>4, SaveArrives DEF SaveRefused, SaveFailsLate, stores, answering
  <2>2. current = config
    BY <1>4 DEF SaveRefused, SaveFailsLate, ConfigInv
  <2> QED
    BY <2>1, <2>2 DEF ConfigInv
<1>5. CASE SaveWritten
  <2>1. save'.stage = "read" /\ save'.new = save.new
    BY <1>5, SaveArrives
  <2>2. current = save.new /\ config' = save.new /\ UNCHANGED <<current, index, sync>>
    BY <1>5 DEF SaveWritten, ConfigInv, answering
  <2>3. \A s \in Sync : sync[s].stage \notin {"read", "store"}
    BY <1>5 DEF SaveWritten, AloneInv
  <2> QED
    BY <2>1, <2>2, <2>3 DEF ConfigInv
<1>6. CASE SaveNotWritten
  <2>1. save'.stage = "idle"
    BY <1>6, SaveArrives
  <2>2. /\ current = save.new /\ save.priorCurrent = config /\ Within(save.priorIndex, config)
        /\ current' = config /\ index' = IF save.new = config THEN index ELSE save.priorIndex
        /\ UNCHANGED <<config, sync>>
    BY <1>6 DEF SaveNotWritten, RolledBack, ConfigInv, stores
  <2>3. Within(index', current')
    BY <2>2 DEF ConfigInv
  <2> QED
    BY <2>1, <2>2, <2>3 DEF ConfigInv
<1>7. CASE SaveReadsSnapshot
  <2>1. current = config /\ save.new = config /\ UNCHANGED <<config, current, sync>>
    BY <1>7 DEF SaveReadsSnapshot, ConfigInv, stores
  <2>2. \/ save'.stage = "idle" /\ index' = Active(snap, config)
        \/ save'.stage = "store" /\ save'.new = config /\ UNCHANGED index
    BY <1>7, <2>1, SaveStores DEF SaveEnds
  <2>3. Within(index', config)
    BY <1>1, <2>1, <2>2, ActiveWithin DEF ConfigInv
  <2> QED
    BY <2>1, <2>2, <2>3 DEF ConfigInv
<1>8. CASE SavePrunes
  <2>1. save'.stage = "idle"
    BY <1>8, SaveArrives
  <2>2. /\ current = config /\ save.new = config /\ UNCHANGED <<config, current, sync>>
        /\ index' = Active(snap', config) /\ snap' = Select(save.read, save.new.listed)
    BY <1>8 DEF SavePrunes, SaveEnds, ConfigInv
  <2>3. Within(index', config)
    BY <1>1, <2>2, Selected, ActiveWithin
  <2> QED
    BY <2>1, <2>2, <2>3 DEF ConfigInv
<1> QED
  BY <1>2, <1>3, <1>4, <1>5, <1>6, <1>7, <1>8, Zenon DEF SaveStep

(* A request that has not read the configuration yet, or is over, does not *)
(* count.                                                                  *)
LEMMA ConfigApart ==
  ASSUME ConfigInv, UNCHANGED <<config, current, index, save>>, NEW s \in Sync,
         \A t \in Sync \ {s} : sync'[t] = sync[t], sync'[s].stage \notin {"read", "store"}
  PROVE  ConfigInv'
BY DEF ConfigInv

LEMMA ConfigSynced ==
  ASSUME KnowledgeTypeOK, AloneInv, ConfigInv, NEW s \in Sync, SyncAsked(s) \/ SyncStep(s)
  PROVE  ConfigInv'
<1>1. /\ snap \in Documents /\ config \in Configs /\ sync[s].read \in Documents
      /\ sync[s].latest \in Configs
  BY TypesUnfolded DEF SyncRecord
<1>2. (\A t \in Sync \ {s} : sync'[t] = sync[t]) /\ UNCHANGED save
  BY SyncMoves
<1>9. save.stage = "idle"
  BY SaveAlone
<1>3. CASE \/ SyncAsked(s) \/ SyncBegins(s) \/ ScanTurn(s) \/ ScanBegins(s)
           \/ SourceAwaited(s) \/ ScanEnds(s)
  <2>1. UNCHANGED <<config, current, index>>
    BY <1>3 DEF SyncAsked, SyncBegins, ScanTurn, ScanBegins, SourceAwaited, ScanEnds, stores,
                answering
  <2> QED
    BY <1>2, <1>3, <2>1, SyncArrives, ConfigApart
<1>4. CASE \E x \in Source : SourceRead(s, x) \/ SourceFails(s, x)
  <2>1. UNCHANGED <<config, current, index>> /\ sync'[s].stage = "scan"
    BY <1>4, SourceFrame, SourceArrives DEF stores, answering
  <2> QED
    BY <1>2, <2>1, ConfigApart
<1>5. CASE SnapshotWritten(s) \/ ScanFails(s) \/ SyncFailsLate(s)
  <2>1. UNCHANGED <<config, current, index>>
    BY <1>5 DEF SnapshotWritten, ScanFails, SyncFailsLate, stores, answering
  <2> QED
    BY <1>2, <1>5, <2>1, SyncArrives, ConfigApart
<1>6. CASE LatestConfig(s)
  <2>1. /\ save.stage # "write" /\ current = config /\ current' = config
        /\ UNCHANGED <<config, index>>
    BY <1>6, <1>9 DEF LatestConfig, ConfigInv, stores
  <2>2. sync'[s].stage = "read" /\ sync'[s].latest = config
    BY <1>6, SyncArrives
  <2> QED
    BY <1>2, <2>1, <2>2 DEF ConfigInv
<1>7. CASE SyncReadsSnapshot(s)
  <2>1. sync[s].stage = "read" /\ UNCHANGED <<config, current>>
    BY <1>7 DEF SyncReadsSnapshot, stores
  <2>2. sync[s].latest = config /\ save.stage # "write" /\ current = config
    BY <1>9, <2>1 DEF ConfigInv
  <2>3. \/ sync'[s].stage = "idle" /\ index' = Active(snap, config)
        \/ sync'[s].stage = "store" /\ sync'[s].latest = config /\ UNCHANGED index
    BY <1>7, <2>2, SyncStores DEF SyncEnds
  <2>4. Within(index', config)
    BY <1>1, <2>2, <2>3, ActiveWithin DEF ConfigInv
  <2> QED
    BY <1>2, <2>1, <2>2, <2>3, <2>4 DEF ConfigInv
<1>8. CASE SyncPrunes(s)
  <2>1. /\ sync[s].stage = "store" /\ UNCHANGED <<config, current>>
        /\ index' = Active(snap', sync[s].latest)
        /\ snap' = Select(sync[s].read, sync[s].latest.listed)
    BY <1>8 DEF SyncPrunes, SyncEnds
  <2>2. sync[s].latest = config /\ save.stage # "write" /\ current = config
    BY <1>9, <2>1 DEF ConfigInv
  <2>3. Within(index', config)
    BY <1>1, <2>1, <2>2, Selected, ActiveWithin
  <2>4. sync'[s].stage = "idle"
    BY <1>8, SyncArrives
  <2> QED
    BY <1>2, <2>1, <2>2, <2>3, <2>4 DEF ConfigInv
<1> QED
  BY <1>3, <1>4, <1>5, <1>6, <1>7, <1>8, Zenon DEF SyncStep

-----------------------------------------------------------------------------
(* The copies requests hold.                                               *)

\* The snapshot only loses sources that are not listed.
OnlyPruned ==
  /\ \A x \in config.listed : snap'[x] = snap[x]
  /\ \A x \in Source : snap'[x] # 0 => snap'[x] = snap[x]

LEMMA PruneOnly ==
  ASSUME config \in Configs, NEW docs \in Documents, Fresh(docs),
         snap' = Select(docs, config.listed)
  PROVE  OnlyPruned
<1>1. config.listed \subseteq Source
  BY KnowledgeAssumption
<1> QED
  BY <1>1 DEF OnlyPruned, Fresh, Select

LEMMA SameSnapshot ==
  ASSUME UNCHANGED snap
  PROVE  OnlyPruned
BY DEF OnlyPruned

(* Pruning disturbs nobody; requests may end, or hold a new copy.          *)
LEMMA CopyKeeps ==
  ASSUME KnowledgeTypeOK, CopyInv, OnlyPruned, UNCHANGED config,
         \/ UNCHANGED save
         \/ save'.stage # "store"
         \/ UNCHANGED snap /\ save'.read = snap,
         \A s \in Sync :
           \/ sync'[s] = sync[s]
           \/ sync'[s].stage \notin {"store", "scan", "awaits", "write"}
           \/ UNCHANGED snap /\ sync'[s].stage = "store" /\ sync'[s].read = snap
  PROVE  CopyInv'
<1>1. config.listed \subseteq Source
  BY TypesUnfolded, KnowledgeAssumption
<1>2. save'.stage = "store" => \A x \in config.listed : save'.read[x] = snap'[x]
  BY DEF CopyInv, Fresh, OnlyPruned
<1>3. ASSUME NEW s \in Sync
      PROVE  /\ sync'[s].stage = "store" => \A x \in config.listed : sync'[s].read[x] = snap'[x]
             /\ sync'[s].stage = "write" => sync'[s].todo = {}
  BY DEF CopyInv, Fresh, OnlyPruned
<1>4. ASSUME NEW s \in Sync, NEW x \in Source
      PROVE  /\ sync'[s].stage \in {"scan", "awaits"} /\ snap'[x] # 0 =>
                sync'[s].kept[x] = snap'[x]
             /\ (/\ sync'[s].stage \in {"scan", "awaits", "write"} /\ snap'[x] # 0
                 /\ x \in sync'[s].sources /\ x \notin sync'[s].todo /\ x \notin sync'[s].good)
                  => sync'[s].next[x] = snap'[x]
  BY DEF CopyInv, OnlyPruned
<1> QED
  BY <1>2, <1>3, <1>4 DEF CopyInv, Fresh

LEMMA CopySaved ==
  ASSUME KnowledgeTypeOK, AloneInv, ConfigInv, CopyInv,
         SaveStep \/ \E c \in Configs : SaveAsked(c)
  PROVE  CopyInv'
<1>1. config \in Configs /\ save \in SaveRecord /\ save.read \in Documents
  BY TypesUnfolded DEF SaveRecord
<1>2. CASE \E c \in Configs : SaveAsked(c)
  <2>1. save'.stage = "prior" /\ UNCHANGED <<config, snap, sync>>
    BY <1>2, SaveArrives, SaveAskedFrame, Zenon DEF stores
  <2> QED
    BY <2>1, SameSnapshot, CopyKeeps
<1>3. CASE SaveBegins \/ SaveRefused \/ SaveNotWritten \/ SaveFailsLate
  <2>1. save'.stage \in {"idle", "write"} /\ UNCHANGED <<config, snap, sync>>
    BY <1>3, SaveArrives DEF SaveBegins, SaveRefused, SaveNotWritten, SaveFailsLate, stores
  <2> QED
    BY <2>1, SameSnapshot, CopyKeeps
<1>4. CASE SaveWritten
  <2>1. save'.stage = "read" /\ UNCHANGED <<snap, sync>>
    BY <1>4, SaveArrives DEF SaveWritten
  <2>2. \A s \in Sync : sync[s].stage # "store"
    BY <1>4 DEF SaveWritten, AloneInv
  <2> QED
    BY <2>1, <2>2 DEF CopyInv, Fresh
<1>5. CASE SaveReadsSnapshot
  <2>1. UNCHANGED <<config, snap, sync>> /\ (save'.stage = "idle" \/ save'.read = snap)
    BY <1>5, SaveStores DEF SaveReadsSnapshot, stores
  <2> QED
    BY <2>1, SameSnapshot, CopyKeeps
<1>6. CASE SavePrunes
  <2>1. /\ save'.stage = "idle" /\ save.new = config /\ Fresh(save.read)
        /\ snap' = Select(save.read, save.new.listed) /\ UNCHANGED <<config, sync>>
    BY <1>6, SaveArrives DEF SavePrunes, ConfigInv, CopyInv
  <2>2. OnlyPruned
    BY <1>1, <2>1, PruneOnly
  <2> QED
    BY <2>1, <2>2, CopyKeeps
<1> QED
  BY <1>2, <1>3, <1>4, <1>5, <1>6, Zenon DEF SaveStep

LEMMA CopyScanned ==
  ASSUME KnowledgeTypeOK, CopyInv, NEW s \in Sync, UNCHANGED <<config, snap, save>>,
         \A t \in Sync \ {s} : sync'[t] = sync[t],
         sync'[s].stage \in {"scan", "awaits", "write"},
         sync'[s].stage = "write" => sync'[s].todo = {},
         \A x \in Source :
           /\ sync'[s].stage \in {"scan", "awaits"} /\ snap[x] # 0 =>
                sync'[s].kept[x] = snap[x]
           /\ (/\ snap[x] # 0 /\ x \in sync'[s].sources
               /\ x \notin sync'[s].todo /\ x \notin sync'[s].good) => sync'[s].next[x] = snap[x]
  PROVE  CopyInv'
BY DEF CopyInv, Fresh

LEMMA CopySynced ==
  ASSUME KnowledgeTypeOK, TurnInv, AloneInv, ConfigInv, CopyInv, ~crossed',
         NEW s \in Sync, SyncAsked(s) \/ SyncStep(s)
  PROVE  CopyInv'
<1>1. config \in Configs /\ sync[s].read \in Documents
  BY TypesUnfolded DEF SyncRecord
<1>2. (\A t \in Sync \ {s} : sync'[t] = sync[t]) /\ UNCHANGED save
  BY SyncMoves
<1>3. CASE SyncAsked(s) \/ SyncBegins(s) \/ ScanTurn(s)
  <2>1. /\ sync'[s].stage \in {"config", "queued", "previous"}
        /\ UNCHANGED <<config, snap>>
    BY <1>3, SyncArrives DEF SyncAsked, SyncBegins, ScanTurn, stores
  <2> QED
    BY <1>2, <2>1, SameSnapshot, CopyKeeps
<1>4. CASE ScanBegins(s)
  <2>1. UNCHANGED <<config, snap>>
    BY <1>4 DEF ScanBegins, stores
  <2> QED
    BY <1>2, <1>4, <2>1, SyncArrives, CopyScanned
<1>5. ASSUME NEW x \in Source, SourceRead(s, x) \/ SourceFails(s, x)
      PROVE  CopyInv'
  <2>1. sync[s].stage \in {"scan", "awaits"} /\ UNCHANGED <<config, snap>>
    BY <1>5, SourceFrame DEF stores
  <2>2. /\ sync'[s].stage = "scan" /\ sync'[s].sources = sync[s].sources
        /\ sync'[s].kept = sync[s].kept /\ sync'[s].todo = sync[s].todo \ {x}
        /\ \A y \in Source \ {x} : sync'[s].next[y] = sync[s].next[y]
        /\ \/ sync'[s].good = sync[s].good \cup {x}
           \/ sync'[s].good = sync[s].good /\ sync'[s].next[x] = sync[s].kept[x]
    BY <1>5, SourceArrives
  <2>3. ASSUME NEW y \in Source
        PROVE  /\ snap[y] # 0 => sync'[s].kept[y] = snap[y]
               /\ (/\ snap[y] # 0 /\ y \in sync'[s].sources
                   /\ y \notin sync'[s].todo /\ y \notin sync'[s].good)
                    => sync'[s].next[y] = snap[y]
    BY <2>1, <2>2 DEF CopyInv
  <2> QED
    BY <1>2, <2>1, <2>2, <2>3, CopyScanned
<1>11. CASE SourceAwaited(s)
  <2>1. UNCHANGED <<config, snap>> /\ sync[s].stage = "scan"
    BY <1>11 DEF SourceAwaited, stores
  <2>2. \A x \in Source :
          /\ snap[x] # 0 => sync'[s].kept[x] = snap[x]
          /\ (/\ snap[x] # 0 /\ x \in sync'[s].sources
              /\ x \notin sync'[s].todo /\ x \notin sync'[s].good) => sync'[s].next[x] = snap[x]
    BY <1>11, <2>1, SyncArrives DEF CopyInv
  <2> QED
    BY <1>2, <1>11, <2>1, <2>2, SyncArrives, CopyScanned
<1>6. CASE ScanEnds(s)
  <2>1. UNCHANGED <<config, snap>> /\ sync[s].stage = "scan" /\ sync[s].todo = {}
    BY <1>6 DEF ScanEnds, stores
  <2>2. /\ sync'[s].stage = "write" /\ sync'[s].sources = sync[s].sources
        /\ sync'[s].todo = {} /\ sync'[s].good = sync[s].good /\ sync'[s].next = sync[s].next
    BY <1>6, <2>1, SyncArrives
  <2>3. \A x \in Source :
          (/\ snap[x] # 0 /\ x \in sync'[s].sources
           /\ x \notin sync'[s].todo /\ x \notin sync'[s].good) => sync'[s].next[x] = snap[x]
    BY <2>1, <2>2 DEF CopyInv
  <2> QED
    BY <1>2, <2>1, <2>2, <2>3, CopyScanned
<1>7. CASE SnapshotWritten(s)
  <2>1. /\ sync[s].stage = "write" /\ sync'[s].stage = "latest" /\ save.stage = "idle"
        /\ ~Pruning /\ UNCHANGED config
    BY <1>7, SyncArrives, SaveAlone DEF SnapshotWritten
  <2>2. \A t \in Sync \ {s} : sync[t].stage \notin {"scan", "awaits", "write"}
    BY <2>1 DEF TurnInv, Scans
  <2> QED
    BY <1>2, <2>1, <2>2 DEF CopyInv, Pruning
<1>8. CASE ScanFails(s) \/ LatestConfig(s) \/ SyncFailsLate(s)
  <2>1. sync'[s].stage \in {"idle", "read"} /\ UNCHANGED <<config, snap>>
    BY <1>8, SyncArrives DEF ScanFails, LatestConfig, SyncFailsLate, stores
  <2> QED
    BY <1>2, <2>1, SameSnapshot, CopyKeeps
<1>9. CASE SyncReadsSnapshot(s)
  <2>1. /\ UNCHANGED <<config, snap>>
        /\ sync'[s].stage = "idle" \/ (sync'[s].stage = "store" /\ sync'[s].read = snap)
    BY <1>9, SyncStores DEF SyncReadsSnapshot, stores
  <2> QED
    BY <1>2, <2>1, SameSnapshot, CopyKeeps
<1>10. CASE SyncPrunes(s)
  <2>1. /\ sync'[s].stage = "idle" /\ sync[s].latest = config /\ Fresh(sync[s].read)
        /\ snap' = Select(sync[s].read, sync[s].latest.listed) /\ UNCHANGED config
    BY <1>10, SyncArrives DEF SyncPrunes, ConfigInv, CopyInv
  <2>2. OnlyPruned
    BY <1>1, <2>1, PruneOnly
  <2> QED
    BY <1>2, <2>1, <2>2, CopyKeeps
<1> QED
  BY <1>3, <1>4, <1>5, <1>6, <1>7, <1>8, <1>9, <1>10, <1>11, Zenon DEF SyncStep

-----------------------------------------------------------------------------
(* The dashboard.                                                          *)

LEMMA ShownBegun ==
  ASSUME NEW previous \in SUBSET Emission, BeginEmission(previous)
  PROVE  ShownInv'
<1> DEFINE r == [fresh |-> TRUE, view |-> "none"]
<1>1. r \in emissions' /\ r.fresh /\ r.view = "none" /\ \A e \in emissions' : e.fresh => e = r
  BY EmissionBegun
<1> HIDE DEF r
<1> QED
  BY <1>1 DEF ShownInv

LEMMA ShownKeeps ==
  ASSUME ShownInv, UNCHANGED display, Announces' \/ unseen' \/ (~Announces /\ ~unseen)
  PROVE  ShownInv'
BY DEF ShownInv, display

LEMMA ShownOvertaken ==
  ASSUME KnowledgeTypeOK, ShownInv, emissions' = Overtaken, Announces'
  PROVE  ShownInv'
<1>1. \A e, f \in emissions' : e.fresh /\ f.fresh => e = f
  BY TypesUnfolded, OneNewestOvertaken DEF ShownInv
<1> QED
  BY <1>1 DEF ShownInv

LEMMA ShownSaved ==
  ASSUME KnowledgeTypeOK, ShownInv, SaveStep \/ \E c \in Configs : SaveAsked(c)
  PROVE  ShownInv'
<1>1. emissions \in SUBSET Emission /\ Overtaken \in SUBSET Emission
  BY TypesUnfolded, EmissionsOvertaken
<1>2. CASE \E c \in Configs : SaveAsked(c)
  <2>1. UNCHANGED <<sync, display, unseen>> /\ save.stage = "idle" /\ save'.stage = "prior"
    BY <1>2, SaveArrives, SaveAskedFrame, Zenon DEF SaveAsked, ghosts
  <2> QED
    BY <2>1, ShownKeeps DEF Announces
<1>3. CASE SaveBegins \/ SaveRefused \/ SaveNotWritten
  <2>1. /\ UNCHANGED <<sync, display, unseen>> /\ save.stage \notin {"read", "store"}
        /\ save'.stage \notin {"read", "store"}
    BY <1>3, SaveArrives DEF SaveBegins, SaveRefused, SaveNotWritten, ghosts
  <2> QED
    BY <2>1, ShownKeeps DEF Announces
<1>4. CASE SaveWritten
  <2>1. save'.stage = "read" /\ emissions' = Overtaken
    BY <1>4, SaveArrives DEF SaveWritten, Written
  <2> QED
    BY <2>1, ShownOvertaken DEF Announces
<1>5. CASE SaveReadsSnapshot
  <2>1. BeginEmission(emissions) \/ (save'.stage = "store" /\ UNCHANGED display)
    BY <1>5, SaveStores DEF SaveEnds
  <2> QED
    BY <1>1, <2>1, ShownBegun, ShownKeeps DEF Announces
<1>6. CASE SavePrunes
  BY <1>1, <1>6, ShownBegun DEF SavePrunes, SaveEnds
<1>7. CASE SaveFailsLate
  BY <1>7, ShownKeeps DEF SaveFailsLate
<1> QED
  BY <1>2, <1>3, <1>4, <1>5, <1>6, <1>7, Zenon DEF SaveStep

LEMMA ShownSynced ==
  ASSUME KnowledgeTypeOK, ShownInv, NEW s \in Sync, SyncAsked(s) \/ SyncStep(s)
  PROVE  ShownInv'
<1>1. emissions \in SUBSET Emission /\ Overtaken \in SUBSET Emission
  BY TypesUnfolded, EmissionsOvertaken
<1>2. (\A t \in Sync \ {s} : sync'[t] = sync[t]) /\ UNCHANGED save
  BY SyncMoves
<1>3. ASSUME UNCHANGED <<display, unseen>>, sync[s].stage \notin {"latest", "read", "store"},
             sync'[s].stage \notin {"latest", "read", "store"}
      PROVE  ShownInv'
  <2>1. Announces' <=> Announces
    BY <1>2, <1>3 DEF Announces
  <2> QED
    BY <1>3, <2>1, ShownKeeps
<1>4. CASE \/ SyncAsked(s) \/ SyncBegins(s) \/ ScanTurn(s) \/ ScanBegins(s)
           \/ SourceAwaited(s) \/ ScanEnds(s)
  <2>1. UNCHANGED <<display, unseen>> /\ sync[s].stage \notin {"latest", "read", "store"}
    BY <1>4 DEF SyncAsked, SyncBegins, ScanTurn, ScanBegins, SourceAwaited, ScanEnds, ghosts
  <2>2. sync'[s].stage \notin {"latest", "read", "store"}
    BY <1>4, SyncArrives
  <2> QED
    BY <1>3, <2>1, <2>2
<1>5. CASE \E x \in Source : SourceRead(s, x) \/ SourceFails(s, x)
  <2>1. /\ UNCHANGED <<display, unseen>>
        /\ sync[s].stage \in {"scan", "awaits"} /\ sync'[s].stage = "scan"
    BY <1>5, SourceFrame, SourceArrives DEF ghosts
  <2> QED
    BY <1>3, <2>1
<1>6. CASE SnapshotWritten(s)
  <2>1. sync'[s].stage = "latest" /\ emissions' = Overtaken
    BY <1>6, SyncArrives DEF SnapshotWritten, Written
  <2> QED
    BY <2>1, ShownOvertaken DEF Announces
<1>7. CASE ScanFails(s)
  BY <1>3, <1>7, SyncArrives DEF ScanFails, ghosts
<1>8. CASE LatestConfig(s)
  <2>1. sync'[s].stage = "read" /\ UNCHANGED display
    BY <1>8, SyncArrives DEF LatestConfig
  <2> QED
    BY <2>1, ShownKeeps DEF Announces
<1>9. CASE SyncReadsSnapshot(s)
  <2>1. BeginEmission(emissions) \/ (sync'[s].stage = "store" /\ UNCHANGED display)
    BY <1>9, SyncStores DEF SyncEnds
  <2> QED
    BY <1>1, <2>1, ShownBegun, ShownKeeps DEF Announces
<1>10. CASE SyncPrunes(s)
  BY <1>1, <1>10, ShownBegun DEF SyncPrunes, SyncEnds
<1>11. CASE SyncFailsLate(s)
  <2>1. sync'[s].stage = "idle" /\ UNCHANGED display
    BY <1>11, SyncArrives DEF SyncFailsLate
  <2>2. CASE sync[s].stage = "config"
    <3>1. unseen' = unseen
      BY <1>11, <2>2, TypesUnfolded DEF SyncFailsLate
    <3> QED
      BY <1>3, <2>1, <2>2, <3>1
  <2>3. CASE sync[s].stage # "config"
    BY <1>11, <2>1, <2>3, ShownKeeps DEF SyncFailsLate
  <2> QED
    BY <2>2, <2>3
<1> QED
  BY <1>4, <1>5, <1>6, <1>7, <1>8, <1>9, <1>10, <1>11, Zenon DEF SyncStep

LEMMA ShownSent ==
  ASSUME KnowledgeTypeOK, ShownInv, NEW e \in emissions,
         EmissionRead(e) \/ EmissionSent(e) \/ EmissionFails(e)
  PROVE  ShownInv'
<1>1. e \in Emission /\ (Announces' <=> Announces)
  BY TypesUnfolded DEF EmissionRead, EmissionSent, EmissionFails, requests, Announces
<1>2. CASE EmissionRead(e)
  <2> DEFINE read == [e EXCEPT !.view = "stored"]
  <2>1. read.fresh = e.fresh /\ read.view = "stored"
    BY <1>1 DEF Emission
  <2>2. /\ emissions' = (emissions \ {e}) \cup {read} /\ UNCHANGED <<shown, unseen>>
    BY <1>2 DEF EmissionRead, ghosts
  <2> HIDE DEF read
  <2> QED
    BY <1>1, <2>1, <2>2 DEF ShownInv
<1>3. CASE EmissionSent(e)
  <2>1. /\ e.view # "none" /\ emissions' = emissions \ {e} /\ UNCHANGED unseen
        /\ shown' = IF e.fresh THEN e.view ELSE shown
    BY <1>3 DEF EmissionSent, StillNewest, ghosts
  <2> QED
    BY <1>1, <2>1 DEF ShownInv
<1>4. CASE EmissionFails(e)
  <2>1. emissions' = emissions \ {e} /\ unseen' = (unseen \/ e.fresh) /\ UNCHANGED shown
    BY <1>4 DEF EmissionFails
  <2> QED
    BY <1>1, <2>1 DEF ShownInv
<1> QED
  BY <1>2, <1>3, <1>4

-----------------------------------------------------------------------------
(* The inductive invariant.                                                *)

LEMMA StartKeeps ==
  ASSUME NEW c \in Configs, NEW docs \in Documents, Started(c, docs), config' = c, snap' = docs
  PROVE  KnowledgeInv'
<1>1. KnowledgeTypeOK'
  BY StartTypes
<1>2. /\ save'.stage = "idle" /\ \A s \in Sync : sync'[s].stage = "idle"
      /\ turn' = <<>> /\ current' = config' /\ index' = Active(docs, c)
      /\ emissions' = {} /\ shown' = "stored"
  BY IdleRecords DEF Started
<1>3. TurnInv'
  BY <1>2 DEF TurnInv, Waits, Scans
<1>4. ConfigInv'
  BY <1>2, ActiveWithin DEF ConfigInv
<1>5. CopyInv'
  BY <1>2 DEF CopyInv
<1>6. ShownInv'
  BY <1>2 DEF ShownInv
<1>7. AloneInv'
  BY <1>2 DEF AloneInv
<1> QED
  BY <1>1, <1>3, <1>4, <1>5, <1>6, <1>7 DEF KnowledgeInv

LEMMA KnowledgeInitial == Init => KnowledgeInv
<1> SUFFICES ASSUME Init PROVE KnowledgeInv
  OBVIOUS
<1>1. /\ config \in Configs /\ snap \in Documents /\ Active(snap, config) \in Documents
      /\ Within(Active(snap, config), config)
  <2>1. [x \in Source |-> MaxVersion] \in Documents
    BY KnowledgeAssumption DEF Documents
  <2> QED
    BY <2>1, Selected, ActiveWithin DEF Init
<1>2. /\ IdleSave \in SaveRecord /\ IdleSave.stage = "idle"
      /\ IdleSync \in SyncRecord /\ IdleSync.stage = "idle"
  BY <1>1, IdleRecords
<1>3. <<>> \in Seq(Sync) /\ <<>> \in Seq(Sync \cup {Saver})
  BY EmptySeq
<1>4. KnowledgeTypeOK
  BY <1>1, <1>2, <1>3, TypesUnfolded DEF Init
<1>5. TurnInv
  BY <1>2 DEF Init, TurnInv, Waits, Scans
<1>6. ConfigInv
  BY <1>1, <1>2 DEF Init, ConfigInv
<1>7. CopyInv
  BY <1>2 DEF Init, CopyInv
<1>8. ShownInv
  BY DEF Init, ShownInv
<1>9. AloneInv
  BY <1>2 DEF Init, AloneInv
<1> QED
  BY <1>4, <1>5, <1>6, <1>7, <1>8, <1>9 DEF KnowledgeInv

(* An overlap that was seen stays seen until the daemon is restarted.      *)
LEMMA CrossedStays ==
  ASSUME KnowledgeTypeOK, [Next]_vars, ~Restart, ~crossed'
  PROVE  ~crossed
<1>1. CASE \E c \in Configs : SaveAsked(c)
  BY <1>1, SaveAskedFrame DEF ghosts
<1>2. CASE SaveStep
  BY <1>2 DEF SaveStep, SaveBegins, SaveRefused, SaveWritten, SaveNotWritten, SaveReadsSnapshot,
              SavePrunes, SaveFailsLate, ghosts
<1>3. ASSUME NEW s \in Sync, SyncAsked(s) \/ SyncStep(s)
      PROVE  ~crossed
  <2>1. CASE \E x \in Source : SourceRead(s, x) \/ SourceFails(s, x)
    BY <2>1, SourceFrame DEF ghosts
  <2>2. CASE ~\E x \in Source : SourceRead(s, x) \/ SourceFails(s, x)
    BY <1>3, <2>2, Zenon
       DEF SyncStep, SyncAsked, SyncBegins, ScanTurn, ScanBegins, SourceAwaited, ScanEnds, SnapshotWritten,
           ScanFails, LatestConfig, SyncReadsSnapshot, SyncPrunes, SyncFailsLate, ghosts
  <2> QED
    BY <2>1, <2>2
<1>4. ASSUME NEW e \in emissions, EmissionRead(e) \/ EmissionSent(e) \/ EmissionFails(e)
      PROVE  ~crossed
  BY <1>4 DEF EmissionRead, EmissionSent, EmissionFails, ghosts
<1>5. CASE UNCHANGED vars
  BY <1>5 DEF vars, ghosts
<1> QED
  BY <1>1, <1>2, <1>3, <1>4, <1>5, Zenon DEF Next

LEMMA KnowledgeStep == KnowledgeInv /\ [Next]_vars => KnowledgeInv'
<1> SUFFICES ASSUME KnowledgeInv, [Next]_vars PROVE KnowledgeInv'
  OBVIOUS
<1>1. KnowledgeTypeOK /\ TurnInv /\ ShownInv /\ AloneInv /\ ConfigInv /\ (~crossed => CopyInv)
  BY DEF KnowledgeInv
<1>2. CASE Restart
  <2>1. config \in Configs /\ snap \in Documents
    BY <1>1, TypesUnfolded
  <2>2. Started(config, snap) /\ UNCHANGED <<config, snap>>
    BY <1>2 DEF Restart, stores
  <2> QED
    BY <2>1, <2>2, StartKeeps
<1>3. CASE ~Restart /\ (SaveStep \/ \E c \in Configs : SaveAsked(c))
  <2>1. UNCHANGED <<sync, turn>>
    <3>1. CASE SaveStep
      BY <3>1 DEF SaveStep, SaveBegins, SaveRefused, SaveWritten, SaveNotWritten,
                  SaveReadsSnapshot, SavePrunes, SaveFailsLate
    <3> QED
      BY <1>3, <3>1, SaveAskedFrame
  <2>2. TurnInv'
    BY <1>1, <2>1 DEF TurnInv, Waits, Scans
  <2>3. KnowledgeTypeOK' /\ ShownInv'
    BY <1>1, <1>3, SaveTypes, ShownSaved
  <2>4. ~crossed' => CopyInv'
    <3>1. ~crossed' => ~crossed
      BY <1>1, <1>3, CrossedStays
    <3> QED
      BY <1>1, <1>3, <3>1, CopySaved
  <2>5. AloneInv' /\ ConfigInv'
    BY <1>1, <1>3, <2>1, AloneSaved, ConfigSaved
  <2> QED
    BY <2>2, <2>3, <2>4, <2>5 DEF KnowledgeInv
<1>4. ASSUME ~Restart, NEW s \in Sync, SyncAsked(s) \/ SyncStep(s)
      PROVE  KnowledgeInv'
  <2>1. TurnInv' /\ ShownInv'
    BY <1>1, <1>4, TurnStep, ShownSynced
  <2>2. KnowledgeTypeOK'
    <3>1. Waits(s) => turn # <<>>
      BY <1>1, TypesUnfolded DEF TurnInv
    <3> QED
      BY <1>1, <1>4, <3>1, SyncTypes
  <2>3. ~crossed' => CopyInv'
    <3>1. ~crossed' => ~crossed
      BY <1>1, <1>4, CrossedStays
    <3> QED
      BY <1>1, <1>4, <3>1, CopySynced
  <2>4. AloneInv' /\ ConfigInv'
    BY <1>1, <1>4, AloneSynced, ConfigSynced
  <2> QED
    BY <2>1, <2>2, <2>3, <2>4 DEF KnowledgeInv
<1>5. ASSUME NEW e \in emissions, EmissionRead(e) \/ EmissionSent(e) \/ EmissionFails(e)
      PROVE  KnowledgeInv'
  <2>1. UNCHANGED <<config, snap, current, index, save, sync, turn, db, crossed>>
    BY <1>5 DEF EmissionRead, EmissionSent, EmissionFails, stores, answering, requests, ghosts
  <2>2. KnowledgeTypeOK' /\ ShownInv'
    BY <1>1, <1>5, EmissionTypes, ShownSent
  <2>3. TurnInv'
    BY <1>1, <2>1 DEF TurnInv, Waits, Scans
  <2>4. AloneInv' /\ ConfigInv' /\ (~crossed' => CopyInv')
    BY <1>1, <2>1 DEF AloneInv, ConfigInv, CopyInv, Fresh
  <2> QED
    BY <2>2, <2>3, <2>4 DEF KnowledgeInv
<1>6. CASE UNCHANGED vars
  BY <1>1, <1>6 DEF vars, stores, answering, requests, display, ghosts, KnowledgeInv,
       KnowledgeTypeOK, TurnInv, Waits, Scans, ShownInv, Announces, AloneInv, ConfigInv, CopyInv,
       Fresh
<1> QED
  BY <1>2, <1>3, <1>4, <1>5, <1>6, Zenon DEF Next

LEMMA KnowledgeAlways == Spec => []KnowledgeInv
BY KnowledgeInitial, KnowledgeStep, PTL DEF Spec

-----------------------------------------------------------------------------
(* Theorems.                                                               *)

(* KnowledgeTypeOK is an invariant of saves and synchronisations that      *)
(* overlap, fail and are cut off by a restart.                             *)
THEOREM KnowledgeTypes == Spec => []KnowledgeTypeOK
<1>1. KnowledgeInv => KnowledgeTypeOK
  BY DEF KnowledgeInv
<1> QED
  BY <1>1, KnowledgeAlways, PTL

(* OnlyEnabledSources is an invariant: no reply is composed from a source  *)
(* that the configuration in memory does not enable, whichever step of a   *)
(* save or of a synchronisation failed, and whatever was scanned before.   *)
THEOREM AnswersOnlyEnabled == Spec => []OnlyEnabledSources
<1>1. KnowledgeInv => OnlyEnabledSources
  BY DEF KnowledgeInv, ConfigInv, Within, OnlyEnabledSources
<1> QED
  BY <1>1, KnowledgeAlways, PTL

(* GuardSeesStoredConfig is an invariant: between saves the last guard of  *)
(* a send reads the stored configuration, after failed saves too.          *)
THEOREM GuardReadsStored == Spec => []GuardSeesStoredConfig
<1>1. KnowledgeInv => GuardSeesStoredConfig
  BY DEF KnowledgeInv, ConfigInv, GuardSeesStoredConfig
<1> QED
  BY <1>1, KnowledgeAlways, PTL

(* QueueMoves is an invariant: everyone in the queue of scans is a request *)
(* still to be answered, however the ones before it ended.                 *)
THEOREM ScansTakeTurns == Spec => []QueueMoves
<1>1. KnowledgeInv => QueueMoves
  BY DEF KnowledgeInv, TurnInv, Waits, QueueMoves
<1> QED
  BY <1>1, KnowledgeAlways, PTL

(* ShownIsCurrent is an invariant: once all requests are over and every    *)
(* snapshot is sent, the dashboard shows the stored state.                 *)
THEOREM DashboardCatchesUp == Spec => []ShownIsCurrent
<1>1. KnowledgeInv => ShownIsCurrent
  BY DEF KnowledgeInv, ShownInv, Announces, ShownIsCurrent
<1> QED
  BY <1>1, KnowledgeAlways, PTL

(* LastGoodCopyKept holds of every step: a listed source loses its         *)
(* documents only to a scan that read it, or that was not asked to.        *)
THEOREM CopiesKept == Spec => LastGoodCopyKept
<1> DEFINE Kept ==
             \A x \in Source :
               (snap[x] # 0 /\ snap'[x] = 0 /\ x \in config.listed /\ ~crossed') =>
                 \E s \in Sync :
                   sync[s].stage = "write" /\ (x \in sync[s].good \/ x \notin sync[s].sources)
<1>1. ASSUME KnowledgeInv, [Next]_vars PROVE Kept
  <2> SUFFICES ASSUME NEW x \in Source, snap[x] # 0, snap'[x] = 0, x \in config.listed, ~crossed'
               PROVE  \E s \in Sync : /\ sync[s].stage = "write"
                                      /\ x \in sync[s].good \/ x \notin sync[s].sources
    OBVIOUS
  <2>1. ~Restart
    BY DEF Restart, stores
  <2>2. ~crossed /\ ConfigInv /\ CopyInv /\ KnowledgeTypeOK
    BY <1>1, <2>1, CrossedStays DEF KnowledgeInv
  <2>3. ~SavePrunes
    BY <2>2 DEF SavePrunes, ConfigInv, CopyInv, Fresh, Select
  <2>4. \A s \in Sync : ~SyncPrunes(s)
    BY <2>2 DEF SyncPrunes, ConfigInv, CopyInv, Fresh, Select
  <2>5. ASSUME NEW s \in Sync, SnapshotWritten(s)
        PROVE  /\ sync[s].stage = "write"
               /\ x \in sync[s].good \/ x \notin sync[s].sources
    BY <2>2, <2>5 DEF SnapshotWritten, CopyInv
  <2>6. \E s \in Sync : SnapshotWritten(s)
    <3>1. CASE SaveStep \/ \E c \in Configs : SaveAsked(c)
      <4>1. CASE \E c \in Configs : SaveAsked(c)
        BY <4>1, SaveAskedFrame DEF stores
      <4>2. CASE SaveStep
        BY <2>3, <4>2 DEF SaveStep, SaveBegins, SaveRefused, SaveWritten, SaveNotWritten,
                          SaveReadsSnapshot, SaveFailsLate, stores
      <4> QED
        BY <3>1, <4>1, <4>2
    <3>2. ASSUME NEW s \in Sync, SyncAsked(s) \/ SyncStep(s), ~SnapshotWritten(s)
          PROVE  FALSE
      <4>1. CASE \E y \in Source : SourceRead(s, y) \/ SourceFails(s, y)
        BY <4>1, SourceFrame DEF stores
      <4>2. CASE ~\E y \in Source : SourceRead(s, y) \/ SourceFails(s, y)
        <5>1. UNCHANGED snap
          BY <2>4, <3>2, <4>2, Zenon
             DEF SyncStep, SyncAsked, SyncBegins, ScanTurn, ScanBegins, SourceAwaited, ScanEnds, ScanFails,
                 LatestConfig, SyncReadsSnapshot, SyncFailsLate, stores
        <5> QED
          BY <5>1
      <4> QED
        BY <4>1, <4>2
    <3>3. ASSUME NEW e \in emissions, EmissionRead(e) \/ EmissionSent(e) \/ EmissionFails(e)
          PROVE  FALSE
      BY <3>3 DEF EmissionRead, EmissionSent, EmissionFails, stores
    <3>4. CASE UNCHANGED vars
      BY <3>4 DEF vars, stores
    <3> QED
      BY <1>1, <2>1, <3>1, <3>2, <3>3, <3>4, Zenon DEF Next
  <2> QED
    BY <2>5, <2>6
<1>2. KnowledgeInv /\ [Next]_vars => [Kept]_vars
  BY <1>1
<1> QED
  BY <1>2, KnowledgeAlways, PTL DEF Spec, LastGoodCopyKept
=============================================================================
