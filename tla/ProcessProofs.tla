--------------------------- MODULE ProcessProofs ---------------------------
(***************************************************************************)
(* Processes and what they leave: a daemon that serves owns the lock file  *)
(* and the socket path (ServingOwnsPaths); whatever launches of the desktop*)
(* end or fail at any step, a detached daemon that serves is marked        *)
(* (DetachedIsMarked); the desktop has one connection to the daemon or one *)
(* reconnection scheduled (OneStream), and what it shows catches up with   *)
(* the service (StreamCatchesUp); and a run of the agent that was cut      *)
(* short leaves no process behind (NothingLeftRunning).  Where the manager *)
(* waits for the old process to be gone, the socket of a daemon that serves*)
(* is not removed (LiveSocketNeverRemoved).                                *)
(***************************************************************************)
EXTENDS DaemonLock, DesktopStart, EventStream, AgentRunner, FiniteSetTheorems, SequenceTheorems,
        TLAPS

-----------------------------------------------------------------------------
(* The lock file and the socket.  Waiting for the previous process to      *)
(* disappear (replaceLaunchAgentJob) is enough for both to name the daemon *)
(* that serves: PathsInv is inductive.                                     *)

(* A step of one process leaves the others where they are.                 *)
LEMMA OthersStay ==
  ASSUME TypeOK, NEW p \in Daemon, NEW step, Goto(p, step)
  PROVE  pc'[p] = step /\ \A q \in Daemon \ {p} : pc'[q] = pc[q]
BY DEF TypeOK, Goto

LEMMA TypeInit == Init => TypeOK
BY DaemonAssumption DEF Init, TypeOK

LEMMA TypeStep == TypeOK /\ [Next]_vars => TypeOK'
<1> SUFFICES ASSUME TypeOK, [Next]_vars PROVE TypeOK'
  OBVIOUS
<1> USE DaemonAssumption DEF TypeOK, Acquiring, Starting, Stopping, Over
<1>1. CASE UNCHANGED vars
  BY <1>1 DEF vars
<1>2. ASSUME NEW p \in Daemon,
             Start(p) \/ WriteFails(p) \/ Fail(p) \/ Crash(p) \/ Check(p) \/ Initialize(p)
             \/ Drain(p) \/ Release(p) \/ Probe(p)
      PROVE  TypeOK'
  BY <1>2 DEF Start, WriteFails, Fail, Crash, Check, Initialize, Drain, Release, Probe, Goto
<1>3. ASSUME NEW p \in Daemon, Open(p) \/ Unlock(p)
      PROVE  TypeOK'
  BY <1>3 DEF Open, Unlock, Goto
<1>4. ASSUME NEW p \in Daemon, Unlink(p)
      PROVE  TypeOK'
  <2>1. tries[p] \in 0..Tries /\ tries[p] < Tries
    BY <1>4 DEF Unlink
  <2>2. tries' = [tries EXCEPT ![p] = tries[p] + 1] /\ tries[p] + 1 \in 0..Tries
    BY <1>4, <2>1 DEF Unlink
  <2>3. tries' \in [Daemon -> 0..Tries]
    BY <2>2
  <2>4. pc' = [pc EXCEPT ![p] = IF tries[p] + 1 < Tries THEN "open" ELSE "failed"]
    BY <1>4 DEF Unlink, Goto
  <2>5. \A q \in Daemon : pc'[q] \in Acquiring \cup {"off"} => tries'[q] < Tries
    BY <2>2, <2>4
  <2> QED
    BY <1>4, <2>3, <2>4, <2>5 DEF Unlink
<1>5. ASSUME NEW p \in Daemon, Write(p) \/ Expire(p)
      PROVE  TypeOK'
  BY <1>5 DEF Write, Expire, Goto
<1>6. ASSUME NEW p \in Daemon, ReadOwner(p)
      PROVE  TypeOK'
  BY <1>6 DEF ReadOwner, Goto
<1>7. ASSUME NEW p \in Daemon, Remove(p) \/ Listen(p) \/ Terminate(p) \/ Cleanup(p)
      PROVE  TypeOK'
  BY <1>7 DEF Remove, Listen, Terminate, Cleanup, Goto
<1> QED
  BY <1>1, <1>2, <1>3, <1>4, <1>5, <1>6, <1>7 DEF Next, Step

(* With one process alive, a step that keeps its process alive keeps all    *)
(* the others dead.                                                         *)
LEMMA OneStaysAlive ==
  ASSUME TypeOK, OneAlive, NEW p \in Daemon, Alive(p), NEW step, Goto(p, step)
  PROVE  OneAlive' /\ \A q \in Daemon \ {p} : ~Alive(q)'
BY OthersStay DEF OneAlive, Alive, Over

LEMMA PathsInit == Init => PathsInv
BY DEF Init, PathsInv, OneAlive, Alive, Over, Starting

LEMMA PathsStep ==
  ASSUME Launch = "removal", TypeOK, PathsInv, [Next]_vars
  PROVE  PathsInv'
<1> DEFINE Rest(q) == /\ pc[q] \in Starting \cup {"serving"} => lock = q
                      /\ pc[q] = "serving" => socket = q
<1>a. \A q \in Daemon : Rest(q)
  BY DEF PathsInv
<1>b. ASSUME OneAlive', \A q \in Daemon : Rest(q)'
      PROVE  PathsInv'
  BY <1>b DEF PathsInv
<1>c. \A q \in Daemon : ~Alive(q)' => Rest(q)'
  BY DEF Alive, Over, Starting
<1>d. OneAlive
  BY DEF PathsInv
<1>1. CASE UNCHANGED vars
  BY <1>1 DEF vars, PathsInv, OneAlive, Alive
<1>2. ASSUME NEW p \in Daemon, Start(p)
      PROVE  PathsInv'
  <2>1. \A q \in Daemon : ~Alive(q)
    BY <1>2 DEF Start, MayStart
  <2>2. pc'[p] = "open" /\ \A q \in Daemon \ {p} : pc'[q] = pc[q]
    BY <1>2, OthersStay DEF Start
  <2>3. OneAlive' /\ \A q \in Daemon : Rest(q)'
    BY <2>1, <2>2 DEF OneAlive, Alive, Over, Starting
  <2> QED
    BY <1>b, <2>3
<1>3. ASSUME NEW p \in Daemon, Expire(p)
      PROVE  PathsInv'
  BY <1>3 DEF Expire, PathsInv, OneAlive, Alive
<1>4. ASSUME NEW p \in Daemon,
             Step(p) \/ WriteFails(p) \/ Fail(p) \/ Terminate(p) \/ Crash(p)
      PROVE  PathsInv'
  <2>1. Alive(p)
    BY <1>4 DEF Step, Open, Write, ReadOwner, Probe, Unlink, Check, Remove, Initialize, Listen,
       Drain, Cleanup, Release, Unlock, WriteFails, Fail, Terminate, Crash, Alive, Over
  <2>2. PICK step : Goto(p, step)
    BY <1>4 DEF Step, Open, Write, ReadOwner, Probe, Unlink, Check, Remove, Initialize, Listen,
       Drain, Cleanup, Release, Unlock, WriteFails, Fail, Terminate, Crash
  <2>3. OneAlive' /\ \A q \in Daemon \ {p} : Rest(q)'
    BY <1>c, <1>d, <2>1, <2>2, OneStaysAlive
  <2>4. Rest(p)'
    <3> USE <1>a DEF Starting, Goto, TypeOK
    <3>1. CASE Open(p) \/ Write(p) \/ ReadOwner(p) \/ Probe(p) \/ Unlink(p)
      BY <3>1 DEF Open, Write, ReadOwner, Probe, Unlink
    <3>2. CASE Check(p) \/ Remove(p) \/ Initialize(p) \/ Listen(p)
      BY <3>2 DEF Check, Remove, Initialize, Listen
    <3>3. CASE Drain(p) \/ Cleanup(p) \/ Release(p) \/ Unlock(p)
      BY <3>3 DEF Drain, Cleanup, Release, Unlock
    <3>4. CASE WriteFails(p) \/ Fail(p) \/ Terminate(p) \/ Crash(p)
      BY <3>4 DEF WriteFails, Fail, Terminate, Crash
    <3> QED
      BY <1>4, <3>1, <3>2, <3>3, <3>4 DEF Step
  <2> QED
    BY <1>b, <2>3, <2>4
<1> QED
  BY <1>1, <1>2, <1>3, <1>4 DEF Next

(***************************************************************************)
(* As long as the manager waits for the old process to be gone, a daemon   *)
(* that serves owns the lock file and the socket path, for any number of   *)
(* daemons, crashes and leftovers.                                         *)
(***************************************************************************)
THEOREM ServingIsReachable ==
  ASSUME Launch = "removal"
  PROVE  Spec => []ServingOwnsPaths
<1>1. PathsInv => ServingOwnsPaths
  BY DEF PathsInv, ServingOwnsPaths
<1>2. TypeOK /\ PathsInv /\ [Next]_vars => PathsInv'
  BY PathsStep
<1> QED
  BY <1>1, <1>2, PathsInit, TypeInit, TypeStep, PTL DEF Spec

(* A step that leaves a serving daemon serving is its own or that of the    *)
(* clock: no other process is alive.                                        *)
LEMMA SocketStep ==
  ASSUME Launch = "removal", TypeOK, PathsInv, [Next]_vars
  PROVE  \A p \in Daemon :
           socket = p /\ pc[p] = "serving" /\ pc'[p] = "serving" => socket' = p
<1> SUFFICES ASSUME NEW p \in Daemon, socket = p, pc[p] = "serving", pc'[p] = "serving"
             PROVE  socket' = p
  OBVIOUS
<1>a. Alive(p)
  BY DEF Alive, Over
<1>1. CASE UNCHANGED vars
  BY <1>1 DEF vars
<1>2. ASSUME NEW q \in Daemon, Start(q) \/ Expire(q)
      PROVE  socket' = p
  BY <1>2 DEF Start, Expire
<1>3. ASSUME NEW q \in Daemon,
             Step(q) \/ WriteFails(q) \/ Fail(q) \/ Terminate(q) \/ Crash(q)
      PROVE  socket' = p
  <2>1. Alive(q)
    BY <1>3 DEF Step, Open, Write, ReadOwner, Probe, Unlink, Check, Remove, Initialize, Listen,
       Drain, Cleanup, Release, Unlock, WriteFails, Fail, Terminate, Crash, Alive, Over
  <2>2. pc[q] = "serving"
    BY <1>a, <2>1 DEF PathsInv, OneAlive
  <2>3. ~Step(q) /\ ~WriteFails(q) /\ ~Fail(q)
    BY <2>2 DEF Step, Open, Write, ReadOwner, Probe, Unlink, Check, Remove, Initialize, Listen,
       Drain, Cleanup, Release, Unlock, WriteFails, Fail
  <2>4. q = p
    BY <1>a, <2>1 DEF PathsInv, OneAlive
  <2>5. ~Terminate(q) /\ ~Crash(q)
    BY <2>4 DEF Terminate, Crash, Goto, TypeOK
  <2> QED
    BY <1>3, <2>3, <2>5
<1> QED
  BY <1>1, <1>2, <1>3 DEF Next

(***************************************************************************)
(* Only sockets that cannot be reached are removed, as the error of        *)
(* removeStaleSocket and cleanupDaemonFiles would have it, once the manager*)
(* waits for the old process to be gone: the socket path of a daemon that  *)
(* goes on serving stays where it is.  Where the manager waits for the     *)
(* endpoint only, a daemon that still stops removes its successor's.       *)
(***************************************************************************)
THEOREM LiveSocketStays ==
  ASSUME Launch = "removal"
  PROVE  Spec => LiveSocketNeverRemoved
<1>1. TypeOK /\ PathsInv /\ [Next]_vars => PathsInv'
  BY PathsStep
<1>2. TypeOK /\ PathsInv /\ [Next]_vars =>
        [\A p \in Daemon :
           socket = p /\ pc[p] = "serving" /\ pc'[p] = "serving" => socket' = p]_vars
  BY SocketStep
<1> QED
  BY <1>1, <1>2, PathsInit, TypeInit, TypeStep, PTL DEF Spec, LiveSocketNeverRemoved

-----------------------------------------------------------------------------
(* The launch.  The marker is written before the daemon is spawned and     *)
(* cleared only while no detached daemon serves: from the step that has    *)
(* found no daemon to the one that spawns it, none appears (NoneBefore).   *)

Marked == daemonBy = "detached" /\ Serves => marker

\* The steps between finding no daemon and waiting for the one just started.
Launching ==
  desk \in {"install", "bootout", "removal", "bootstrap", "kickstart", "clear", "mark", "spawn"}

NoneBefore == Launching => ~(daemonBy = "detached" /\ Serves)

MarkedToSpawn == desk = "spawn" => marker

DeskInv == MarkedToSpawn /\ (~misjudged => Marked /\ NoneBefore)

LEMMA DeskInitial == DeskInit => DeskInv
BY DEF DeskInit, DeskInv, MarkedToSpawn, Marked, NoneBefore, Launching

(* The daemon goes on by itself: it serves no longer, or as it did.        *)
LEMMA DaemonOn ==
  ASSUME DeskInv, UNCHANGED <<marker, desk, misjudged>>,
         (daemonBy' = "detached" /\ Serves') => (daemonBy = "detached" /\ Serves)
  PROVE  DeskInv'
BY DEF DeskInv, MarkedToSpawn, Marked, NoneBefore, Launching

LEMMA DeskStep == DeskInv /\ [DeskNext]_deskVars => DeskInv'
<1> SUFFICES ASSUME DeskInv, [DeskNext]_deskVars PROVE DeskInv'
  OBVIOUS
<1> USE DEF Serves, Present
<1>1. CASE UNCHANGED deskVars
  BY <1>1, DaemonOn DEF deskVars
<1>2. CASE DaemonAges \/ DaemonDrains \/ ApplicationUpdated
  BY <1>2, DaemonOn DEF DaemonAges, DaemonDrains, ApplicationUpdated, RestUnchanged
<1>3. CASE DaemonGone
  BY <1>3, DaemonOn DEF DaemonGone, RestUnchanged
<1>4. CASE RestrictionChanges
  BY <1>4, DaemonOn DEF RestrictionChanges, DaemonUnchanged
<1> USE DEF DeskInv, MarkedToSpawn, Marked, NoneBefore, Launching, DaemonUnchanged, Then
<1>5. CASE DesktopStarts \/ DesktopEnds
  BY <1>5 DEF DesktopStarts, DesktopEnds
<1>6. CASE HealthProbed
  BY <1>6 DEF HealthProbed
<1>7. CASE DaemonAskedToStop
  BY <1>7 DEF DaemonAskedToStop
<1>8. CASE EndpointGone
  BY <1>8 DEF EndpointGone, MayReplace
<1>9. CASE LaunchdDenied \/ LaunchAgentWritten \/ JobRemoved
  BY <1>9 DEF LaunchdDenied, LaunchAgentWritten, JobRemoved
<1>10. CASE BootedOut
  BY <1>10 DEF BootedOut
<1>11. CASE Bootstrapped \/ Kickstarted
  BY <1>11 DEF Bootstrapped, Kickstarted, DaemonStartedBy
<1>12. CASE FallbackCleared
  BY <1>12 DEF FallbackCleared
<1>13. CASE FallbackMarked
  BY <1>13 DEF FallbackMarked
<1>14. CASE FallbackSpawned
  BY <1>14 DEF FallbackSpawned, DaemonStartedBy
<1>15. CASE FallbackNotSpawned
  BY <1>15 DEF FallbackNotSpawned
<1>16. CASE DesktopConnected
  BY <1>16 DEF DesktopConnected
<1> QED
  BY <1>1, <1>2, <1>3, <1>4, <1>5, <1>6, <1>7, <1>8, <1>9, <1>10, <1>11, <1>12, <1>13, <1>14,
     <1>15, <1>16 DEF DeskNext

LEMMA DeskTypesInitial == DeskInit => DeskTypeOK
<1> SUFFICES ASSUME DeskInit PROVE DeskTypeOK
  OBVIOUS
<1>1. /\ current \in BOOLEAN /\ young \in BOOLEAN /\ job \in BOOLEAN /\ marker \in BOOLEAN
      /\ restricted \in BOOLEAN /\ misjudged \in BOOLEAN
  BY DEF DeskInit
<1>2. {current, young, job, marker, restricted, misjudged} \subseteq BOOLEAN
  BY <1>1, Zenon
<1> QED
  BY <1>2, LaunchesAssumption DEF DeskInit, DeskTypeOK

LEMMA DeskTypesStep == DeskTypeOK /\ [DeskNext]_deskVars => DeskTypeOK'
<1> SUFFICES ASSUME DeskTypeOK, [DeskNext]_deskVars PROVE DeskTypeOK'
  OBVIOUS
<1> USE LaunchesAssumption DEF DeskTypeOK, DaemonUnchanged, RestUnchanged, Then
<1>1. CASE UNCHANGED deskVars
  BY <1>1 DEF deskVars
<1>2. CASE DaemonAges \/ DaemonGone \/ DaemonDrains \/ RestrictionChanges \/ ApplicationUpdated
  BY <1>2 DEF DaemonAges, DaemonGone, DaemonDrains, RestrictionChanges, ApplicationUpdated
<1>3. CASE DesktopStarts \/ DesktopEnds
  BY <1>3 DEF DesktopStarts, DesktopEnds
<1>4. CASE HealthProbed
  BY <1>4 DEF HealthProbed, Serves, Present
<1>5. CASE DaemonAskedToStop \/ EndpointGone \/ LaunchdDenied \/ LaunchAgentWritten
           \/ BootedOut \/ JobRemoved
  BY <1>5 DEF DaemonAskedToStop, EndpointGone, LaunchdDenied, LaunchAgentWritten, BootedOut,
             JobRemoved
<1>6. CASE Bootstrapped \/ Kickstarted \/ FallbackSpawned
  BY <1>6 DEF Bootstrapped, Kickstarted, FallbackSpawned, DaemonStartedBy
<1>7. CASE FallbackCleared \/ FallbackMarked \/ FallbackNotSpawned \/ DesktopConnected
  BY <1>7 DEF FallbackCleared, FallbackMarked, FallbackNotSpawned, DesktopConnected
<1> QED
  BY <1>1, <1>2, <1>3, <1>4, <1>5, <1>6, <1>7 DEF DeskNext

(***************************************************************************)
(* A detached daemon that serves is marked, for any number of launches     *)
(* that end or fail at any step, unless one has taken a daemon that was    *)
(* slow to answer for absent.                                              *)
(***************************************************************************)
THEOREM DetachedStaysMarked == DeskSpec => []DetachedIsMarked
<1>1. DeskInv => DetachedIsMarked
  BY DEF DeskInv, Marked, DetachedIsMarked
<1> QED
  BY <1>1, DeskInitial, DeskStep, PTL DEF DeskSpec
-----------------------------------------------------------------------------
(* The stream.                                                             *)

StreamInv ==
  /\ timers \in Nat /\ used \in Nat
  /\ ~disposed => \/ timers = 1 /\ open = {}
                  \/ timers = 0 /\ \E c \in Conn : open = {c}

LEMMA StreamInitial == StreamInit => StreamInv
BY DEF StreamInit, StreamInv

LEMMA StreamStep == StreamInv /\ [StreamNext]_streamVars => StreamInv'
<1> SUFFICES ASSUME StreamInv, [StreamNext]_streamVars PROVE StreamInv'
  OBVIOUS
<1> USE DEF StreamInv
<1>1. CASE UNCHANGED <<timers, used, open, disposed>>
  BY <1>1
<1>2. CASE Reconnects
  <2>1. /\ timers = 1 /\ open = {} /\ ~disposed
        /\ used' = used + 1 /\ timers' = timers - 1 /\ open' = open \cup {used + 1}
        /\ disposed' = disposed /\ used < MaxConns
    BY <1>2 DEF Reconnects
  <2>2. open' = {used + 1} /\ timers' = 0 /\ used' \in Nat
    BY <2>1
  <2>3. used + 1 \in Conn
    BY <2>1, StreamAssumption DEF Conn
  <2> QED
    BY <2>2, <2>3
<1>3. ASSUME NEW c \in Conn, ConnectionEnds(c)
      PROVE  StreamInv'
  <2>1. /\ c \in open /\ open' = open \ {c} /\ UNCHANGED <<used, disposed>>
        /\ timers' = Scheduled(timers, 1)
    BY <1>3 DEF ConnectionEnds, Scheduled
  <2>2. timers' \in Nat
    BY <2>1 DEF Scheduled
  <2>3. ~disposed => timers' = 1 /\ open' = {}
    BY <2>1 DEF Scheduled
  <2> QED
    BY <2>1, <2>2, <2>3
<1>4. CASE Disposes
  BY <1>4 DEF Disposes
<1>5. ASSUME NEW c \in Conn, SnapshotShown(c) \/ WatchdogFires(c)
      PROVE  StreamInv'
  BY <1>1, <1>5 DEF SnapshotShown, WatchdogFires, UnchangedDesktop
<1> QED
  BY <1>1, <1>2, <1>3, <1>4, <1>5
     DEF StreamNext, streamVars, UnchangedDesktop, StateChanges, Broadcast, BroadcastFails,
         SubscriptionSkipped, SubscriptionBegins, SubscriptionAnswered, DaemonStops, DaemonStarts

(***************************************************************************)
(* Until the desktop gives up its subscription it has one connection or    *)
(* one reconnection scheduled, in whatever order connections end and       *)
(* however often each reports its end.                                     *)
(***************************************************************************)
THEOREM StreamIsOne == StreamSpec => []OneStream
<1>1. StreamInv => OneStream
  <2>1. Cardinality({}) = 0 /\ \A c \in Conn : Cardinality({c}) = 1
    BY FS_EmptySet, FS_Singleton
  <2>2. ASSUME StreamInv, ~disposed
        PROVE  Cardinality(open) + timers = 1
    <3>1. CASE timers = 1 /\ open = {}
      <4>1. Cardinality(open) = 0
        BY <2>1, <3>1, FS_EmptySet
      <4> QED
        BY <3>1, <4>1
    <3>2. CASE timers = 0 /\ \E c \in Conn : open = {c}
      <4>1. Cardinality(open) = 1
        BY <2>1, <3>2
      <4> QED
        BY <3>2, <4>1
    <3> QED
      BY <2>2, <3>1, <3>2 DEF StreamInv
  <2> QED
    BY <2>2 DEF OneStream
<1> QED
  BY <1>1, StreamInitial, StreamStep, PTL DEF StreamSpec
-----------------------------------------------------------------------------
(* What the stream shows.  The last update queued is the state of the      *)
(* service; a first snapshot is answered before anything else is written,  *)
(* and nothing newer is there unless an update is queued; so a connection  *)
(* waits for its subscription, for its first snapshot or for an update, or *)
(* what it wrote last is the state.                                        *)

Task ==
  [kind : {"update"}, conn : {0}, version : Versions]
    \cup [kind : {"subscribe", "greet"}, conn : Conn, version : Versions]

IsUpdate(i) == updates[i].kind = "update"

Settled == \A i \in DOMAIN updates : ~IsUpdate(i)

QueueInv ==
  /\ updates \in Seq(Task)
  /\ \A i \in DOMAIN updates : IsUpdate(i) =>
       updates[i].version = version \/ \E j \in DOMAIN updates : j > i /\ IsUpdate(j)
  /\ \A i \in DOMAIN updates : updates[i].kind = "greet" =>
       i = 1 /\ (Settled => updates[i].version = version)

LastWritten(c) == IF wire[c] = <<>> THEN view ELSE wire[c][Len(wire[c])]

WaitsForAnswer(c) ==
  \E i \in DOMAIN updates : updates[i].kind = "subscribe" /\ updates[i].conn = c

WaitsForSnapshot(c) ==
  updates # <<>> /\ updates[1].kind = "greet" /\ updates[1].conn = c

IsFollowed(c) == Settled => LastWritten(c) = version \/ version \in dropped

Follows(c) ==
  \/ WaitsForAnswer(c)
  \/ c \in subscribers /\ WaitsForSnapshot(c)
  \/ c \in subscribers /\ IsFollowed(c)

ViewInv ==
  /\ StreamTypeOK /\ QueueInv
  /\ disposed => open = {}
  /\ ~serving => open \subseteq ended
  /\ \A c \in open \ ended : Follows(c)

LEMMA ViewInitial == StreamInit => ViewInv
<1> SUFFICES ASSUME StreamInit PROVE ViewInv
  OBVIOUS
<1>1. StreamTypeOK
  <2>1. 0 \in Versions /\ 0 \in 0..MaxConns /\ <<>> \in Seq(Versions)
    BY StreamAssumption DEF Versions
  <2>2. wire \in [Conn -> Seq(Versions)]
    BY <2>1 DEF StreamInit
  <2>3. {serving, disposed} \subseteq BOOLEAN
    BY DEF StreamInit
  <2>4. \A i \in DOMAIN updates :
          updates[i] \in [kind : {"update", "subscribe", "greet"}, conn : Conn \cup {0},
                          version : Versions]
    BY DEF StreamInit
  <2>5. timers \in Nat
    BY DEF StreamInit
  <2>6. subscribers = {} /\ ended = {} /\ open = {} /\ dropped = {}
    BY DEF StreamInit
  <2>7. version = 0 /\ view = 0 /\ used = 0
    BY DEF StreamInit
  <2> QED
    BY <2>1, <2>2, <2>3, <2>4, <2>5, <2>6, <2>7 DEF StreamTypeOK
<1>2. QueueInv
  BY DEF StreamInit, QueueInv
<1> QED
  BY <1>1, <1>2 DEF StreamInit, ViewInv

(* Taking the first task, and adding one.                                  *)
LEMMA QueueTail ==
  ASSUME updates \in Seq(Task), updates # <<>>
  PROVE  /\ Tail(updates) \in Seq(Task) /\ Head(updates) = updates[1] /\ updates[1] \in Task
         /\ Len(updates) \in Nat \ {0} /\ DOMAIN updates = 1..Len(updates)
         /\ Len(Tail(updates)) = Len(updates) - 1
         /\ DOMAIN Tail(updates) = 1..(Len(updates) - 1)
         /\ \A i \in DOMAIN Tail(updates) : Tail(updates)[i] = updates[i + 1]
<1>1. /\ Tail(updates) \in Seq(Task) /\ Len(Tail(updates)) = Len(updates) - 1
      /\ \A i \in 1..Len(Tail(updates)) : Tail(updates)[i] = updates[i + 1]
  BY HeadTailProperties
<1>2. Len(updates) \in Nat \ {0} /\ DOMAIN updates = 1..Len(updates)
  BY LenProperties, EmptySeq
<1>3. Head(updates) = updates[1] /\ updates[1] \in Task
  BY <1>2, ElementOfSeq
<1>4. DOMAIN Tail(updates) = 1..(Len(updates) - 1)
  BY <1>1, LenProperties
<1> QED
  BY <1>1, <1>2, <1>3, <1>4

LEMMA QueueAppend ==
  ASSUME updates \in Seq(Task), NEW task \in Task
  PROVE  /\ Append(updates, task) \in Seq(Task)
         /\ Len(updates) \in Nat /\ DOMAIN updates = 1..Len(updates)
         /\ DOMAIN Append(updates, task) = 1..(Len(updates) + 1)
         /\ Append(updates, task)[Len(updates) + 1] = task
         /\ \A i \in DOMAIN updates : Append(updates, task)[i] = updates[i]
BY AppendProperties, LenProperties

(* A subscription is answered in its place.                                *)
LEMMA QueueGreet ==
  ASSUME updates \in Seq(Task), updates # <<>>, NEW task \in Task
  PROVE  /\ <<task>> \o Tail(updates) \in Seq(Task)
         /\ DOMAIN (<<task>> \o Tail(updates)) = DOMAIN updates
         /\ (<<task>> \o Tail(updates))[1] = task
         /\ \A i \in DOMAIN updates : i # 1 => (<<task>> \o Tail(updates))[i] = updates[i]
<1>1. /\ Tail(updates) \in Seq(Task) /\ Len(Tail(updates)) = Len(updates) - 1
      /\ Len(updates) \in Nat \ {0} /\ DOMAIN updates = 1..Len(updates)
      /\ \A i \in 1..(Len(updates) - 1) : Tail(updates)[i] = updates[i + 1]
  BY QueueTail
<1>2. <<task>> \in Seq(Task) /\ Len(<<task>>) = 1 /\ <<task>>[1] = task
  OBVIOUS
<1>3. /\ <<task>> \o Tail(updates) \in Seq(Task)
      /\ Len(<<task>> \o Tail(updates)) = Len(updates)
      /\ \A i \in 1..Len(updates) : (<<task>> \o Tail(updates))[i] =
           IF i <= 1 THEN <<task>>[i] ELSE Tail(updates)[i - 1]
  BY <1>1, <1>2, ConcatProperties
<1>4. DOMAIN (<<task>> \o Tail(updates)) = 1..Len(updates)
  BY <1>3, LenProperties
<1> QED
  BY <1>1, <1>2, <1>3, <1>4

(* The queue keeps its order, whatever is taken from it or added to it.    *)
LEMMA QueueTaken ==
  ASSUME QueueInv, updates # <<>>, updates' = Tail(updates), version' = version
  PROVE  QueueInv'
<1> USE QueueTail DEF QueueInv
<1>1. updates' \in Seq(Task)
  OBVIOUS
<1>2. ASSUME NEW i \in DOMAIN updates', IsUpdate(i)'
      PROVE  updates'[i].version = version' \/ \E j \in DOMAIN updates' : j > i /\ IsUpdate(j)'
  <2>1. i \in Nat /\ i + 1 \in DOMAIN updates /\ updates'[i] = updates[i + 1] /\ IsUpdate(i + 1)
    BY <1>2 DEF IsUpdate
  <2>2. CASE updates[i + 1].version = version
    BY <2>1, <2>2
  <2>3. ASSUME NEW j \in DOMAIN updates, j > i + 1, IsUpdate(j)
        PROVE  \E k \in DOMAIN updates' : k > i /\ IsUpdate(k)'
    <3>1. j - 1 \in DOMAIN updates' /\ j - 1 > i /\ updates'[j - 1] = updates[j]
      BY <2>1, <2>3
    <3> QED
      BY <2>3, <3>1 DEF IsUpdate
  <2> QED
    BY <2>1, <2>2, <2>3
<1>3. ASSUME NEW i \in DOMAIN updates'
      PROVE  updates'[i].kind # "greet"
  <2>1. i + 1 \in DOMAIN updates /\ i + 1 # 1 /\ updates'[i] = updates[i + 1]
    OBVIOUS
  <2> QED
    BY <2>1
<1> QED
  BY <1>1, <1>2, <1>3

LEMMA QueueGrows ==
  ASSUME QueueInv, NEW task \in Task, updates' = Append(updates, task),
         \/ task.kind = "subscribe" /\ version' = version
         \/ task.kind = "update" /\ task.version = version'
  PROVE  QueueInv'
<1>0. PICK n \in Nat : n = Len(updates) + 1
  BY QueueAppend DEF QueueInv
<1>1. /\ updates' \in Seq(Task) /\ n \in DOMAIN updates' /\ updates'[n] = task
      /\ \A i \in DOMAIN updates' :
           /\ i \in Nat
           /\ i # n => i \in DOMAIN updates /\ updates'[i] = updates[i] /\ n > i
      /\ \A i \in DOMAIN updates : i \in DOMAIN updates' /\ updates'[i] = updates[i]
  BY <1>0, QueueAppend DEF QueueInv
<1>2. CASE task.kind = "update" /\ task.version = version'
  <2>1. IsUpdate(n)' /\ updates'[n].version = version'
    BY <1>1, <1>2 DEF IsUpdate
  <2>2. ASSUME NEW i \in DOMAIN updates', IsUpdate(i)'
        PROVE  updates'[i].version = version' \/ \E j \in DOMAIN updates' : j > i /\ IsUpdate(j)'
    BY <1>1, <2>1, <2>2
  <2>3. ~Settled'
    BY <1>1, <2>1 DEF Settled
  <2>4. ASSUME NEW i \in DOMAIN updates', updates'[i].kind = "greet"
        PROVE  i = 1
    BY <1>1, <1>2, <2>4 DEF QueueInv
  <2> QED
    BY <1>1, <2>2, <2>3, <2>4 DEF QueueInv
<1>3. CASE task.kind = "subscribe" /\ version' = version
  <2>1. \A i \in DOMAIN updates : IsUpdate(i)' <=> IsUpdate(i)
    BY <1>1 DEF IsUpdate
  <2>2. ~IsUpdate(n)'
    BY <1>1, <1>3 DEF IsUpdate
  <2>3. ASSUME NEW i \in DOMAIN updates', IsUpdate(i)'
        PROVE  updates'[i].version = version' \/ \E j \in DOMAIN updates' : j > i /\ IsUpdate(j)'
    BY <1>1, <1>3, <2>1, <2>2, <2>3 DEF QueueInv
  <2>4. Settled' => Settled
    BY <1>1, <2>1 DEF Settled
  <2>5. ASSUME NEW i \in DOMAIN updates', updates'[i].kind = "greet"
        PROVE  i = 1 /\ (Settled' => updates'[i].version = version')
    BY <1>1, <1>3, <2>4, <2>5 DEF QueueInv
  <2> QED
    BY <1>1, <2>3, <2>5 DEF QueueInv
<1> QED
  BY <1>2, <1>3

LEMMA QueueAnswers ==
  ASSUME QueueInv, updates # <<>>, NEW task \in Task, task.kind = "greet",
         task.version = version, ~IsUpdate(1), updates' = <<task>> \o Tail(updates),
         version' = version
  PROVE  QueueInv'
<1>1. /\ updates' \in Seq(Task) /\ DOMAIN updates' = DOMAIN updates /\ updates'[1] = task
      /\ \A i \in DOMAIN updates : i # 1 => updates'[i] = updates[i]
  BY QueueGreet DEF QueueInv
<1>2. \A i \in DOMAIN updates : IsUpdate(i)' <=> IsUpdate(i)
  BY <1>1 DEF IsUpdate
<1>3. ASSUME NEW i \in DOMAIN updates', IsUpdate(i)'
      PROVE  updates'[i].version = version' \/ \E j \in DOMAIN updates' : j > i /\ IsUpdate(j)'
  <2>1. i \in DOMAIN updates /\ IsUpdate(i) /\ i # 1
    BY <1>1, <1>2, <1>3
  <2> QED
    BY <1>1, <1>2, <2>1 DEF QueueInv
<1>4. ASSUME NEW i \in DOMAIN updates', updates'[i].kind = "greet"
      PROVE  i = 1 /\ (Settled' => updates'[i].version = version')
  BY <1>1, <1>4 DEF QueueInv
<1> QED
  BY <1>1, <1>3, <1>4 DEF QueueInv

LEMMA TailShift ==
  ASSUME updates \in Seq(Task), updates # <<>>, updates' = Tail(updates)
  PROVE  \A i \in DOMAIN updates : i # 1 =>
           i - 1 \in DOMAIN updates' /\ updates'[i - 1] = updates[i]
BY QueueTail

(* A connection that waits, still waits when another task is taken or added.*)
LEMMA StillFollows ==
  ASSUME QueueInv, NEW c, Follows(c), c \in subscribers => c \in subscribers',
         LastWritten(c)' = LastWritten(c), version' = version, dropped \subseteq dropped',
         \/ updates' = updates
         \/ \E task \in Task : task.kind = "subscribe" /\ updates' = Append(updates, task)
         \/ /\ updates # <<>> /\ updates' = Tail(updates) /\ ~IsUpdate(1)
            /\ updates[1].conn # c
  PROVE  Follows(c)'
<1>1. CASE updates' = updates
  BY <1>1 DEF Follows, WaitsForAnswer, WaitsForSnapshot, IsFollowed, Settled, IsUpdate
<1>2. ASSUME NEW task \in Task, task.kind = "subscribe", updates' = Append(updates, task)
      PROVE  Follows(c)'
  <2>1. /\ \A i \in DOMAIN updates : i \in DOMAIN updates' /\ updates'[i] = updates[i]
        /\ updates # <<>> => 1 \in DOMAIN updates /\ updates' # <<>>
    BY <1>2, QueueAppend, LenProperties, EmptySeq DEF QueueInv
  <2>2. Settled' => Settled
    BY <2>1 DEF Settled, IsUpdate
  <2> QED
    BY <2>1, <2>2 DEF Follows, WaitsForAnswer, WaitsForSnapshot, IsFollowed
<1>3. CASE /\ updates # <<>> /\ updates' = Tail(updates) /\ ~IsUpdate(1)
           /\ updates[1].conn # c
  <2>0. \A i \in DOMAIN updates : i # 1 =>
          i - 1 \in DOMAIN updates' /\ updates'[i - 1] = updates[i]
    BY <1>3, TailShift DEF QueueInv
  <2>1. WaitsForAnswer(c) => WaitsForAnswer(c)'
    <3> SUFFICES ASSUME NEW i \in DOMAIN updates, updates[i].kind = "subscribe",
                        updates[i].conn = c
                 PROVE  WaitsForAnswer(c)'
      BY DEF WaitsForAnswer
    <3>1. i # 1
      BY <1>3
    <3>2. i - 1 \in DOMAIN updates' /\ updates'[i - 1] = updates[i]
      BY <2>0, <3>1
    <3> QED
      BY <3>2 DEF WaitsForAnswer
  <2>2. ~WaitsForSnapshot(c)
    BY <1>3 DEF WaitsForSnapshot
  <2>3. Settled' => Settled
    <3> SUFFICES ASSUME Settled', NEW i \in DOMAIN updates PROVE ~IsUpdate(i)
      BY DEF Settled
    <3> QED
      BY <1>3, <2>0 DEF Settled, IsUpdate
  <2> QED
    BY <2>1, <2>2, <2>3 DEF Follows, IsFollowed
<1> QED
  BY <1>1, <1>2, <1>3

(* When the last update is taken, it was the state of the service.         *)
LEMMA LastUpdate ==
  ASSUME QueueInv, updates # <<>>, IsUpdate(1), updates' = Tail(updates)
  PROVE  Settled' => updates[1].version = version
<1> SUFFICES ASSUME Settled' PROVE \A j \in DOMAIN updates : j > 1 => ~IsUpdate(j)
  BY QueueTail DEF QueueInv
<1> SUFFICES ASSUME NEW j \in DOMAIN updates, j > 1 PROVE ~IsUpdate(j)
  OBVIOUS
<1>1. j - 1 \in DOMAIN updates' /\ updates'[j - 1] = updates[j]
  BY QueueTail DEF QueueInv
<1> QED
  BY <1>1 DEF Settled, IsUpdate

LEMMA TakenAnswer ==
  ASSUME QueueInv, NEW c, updates # <<>>, updates' = Tail(updates), IsUpdate(1), Follows(c)
  PROVE  WaitsForAnswer(c)' \/ c \in subscribers
<1> SUFFICES ASSUME NEW i \in DOMAIN updates, updates[i].kind = "subscribe",
                    updates[i].conn = c
             PROVE  WaitsForAnswer(c)'
  BY DEF Follows, WaitsForAnswer
<1>1. i - 1 \in DOMAIN updates' /\ updates'[i - 1] = updates[i]
  BY QueueTail DEF QueueInv, IsUpdate
<1> QED
  BY <1>1 DEF WaitsForAnswer

(* What a connection wrote last.                                           *)
LEMMA WrittenLast ==
  ASSUME StreamTypeOK, NEW c \in Conn, NEW v \in Versions, wire'[c] = Append(wire[c], v)
  PROVE  LastWritten(c)' = v
<1>1. wire[c] \in Seq(Versions)
  BY DEF StreamTypeOK
<1>2. /\ wire'[c] # <<>> /\ Len(wire'[c]) = Len(wire[c]) + 1
      /\ wire'[c][Len(wire[c]) + 1] = v
  BY <1>1, AppendProperties
<1> QED
  BY <1>2 DEF LastWritten

LEMMA ShownLast ==
  ASSUME StreamTypeOK, NEW c \in Conn, wire[c] # <<>>, view' = Head(wire[c]),
         wire'[c] = Tail(wire[c])
  PROVE  LastWritten(c)' = LastWritten(c)
<1>1. wire[c] \in Seq(Versions) /\ Len(wire[c]) \in Nat \ {0} /\ Head(wire[c]) = wire[c][1]
  BY LenProperties, EmptySeq DEF StreamTypeOK
<1>2. PICK n \in Nat \ {0} : n = Len(wire[c])
  BY <1>1
<1>3. /\ Len(wire'[c]) = n - 1 /\ wire'[c] \in Seq(Versions)
      /\ \A i \in 1..(n - 1) : wire'[c][i] = wire[c][i + 1]
  BY <1>1, <1>2, HeadTailProperties
<1>4. wire'[c] = <<>> <=> n - 1 = 0
  BY <1>3, EmptySeq
<1>5. CASE n = 1
  BY <1>1, <1>2, <1>4, <1>5 DEF LastWritten
<1>6. CASE n # 1
  <2>1. wire'[c] # <<>> /\ n - 1 \in 1..(n - 1)
    BY <1>4, <1>6
  <2>2. wire'[c][n - 1] = wire[c][n]
    BY <1>3, <2>1
  <2> QED
    BY <1>2, <1>3, <2>1, <2>2 DEF LastWritten
<1> QED
  BY <1>5, <1>6

LEMMA QueueKept ==
  ASSUME ViewInv, StreamNext \/ UNCHANGED streamVars
  PROVE  QueueInv'
<1> USE DEF UnchangedDesktop
<1>0. QueueInv /\ version \in Versions
  BY DEF ViewInv, StreamTypeOK
<1>1. UNCHANGED <<updates, version>> => QueueInv'
  BY <1>0 DEF QueueInv, IsUpdate, Settled
<1>2. updates' = <<>> => QueueInv'
  BY EmptySeq DEF QueueInv
<1>3. CASE StateChanges
  <2>1. Update(version + 1) \in Task
    BY <1>0, <1>3, StreamAssumption DEF StateChanges, Update, Task, Versions
  <2> QED
    BY <1>0, <1>3, <2>1, QueueGrows DEF StateChanges, Update
<1>4. CASE Broadcast \/ BroadcastFails \/ SubscriptionSkipped \/ SubscriptionAnswered
  BY <1>0, <1>4, QueueTaken
     DEF Broadcast, BroadcastFails, SubscriptionSkipped, SubscriptionAnswered
<1>5. CASE SubscriptionBegins
  <2>1. updates # <<>> /\ Head(updates) = updates[1] /\ updates[1] \in Task
    BY <1>0, <1>5, QueueTail DEF SubscriptionBegins, QueueInv
  <2>2. updates[1].kind = "subscribe" /\ updates[1].conn \in Conn
    BY <1>5, <2>1 DEF SubscriptionBegins, Task
  <2>3. Greet(updates[1].conn, version) \in Task
    BY <1>0, <2>2 DEF Greet, Task
  <2> QED
    BY <1>0, <1>5, <2>1, <2>2, <2>3, QueueAnswers
       DEF SubscriptionBegins, FirstSnapshot, Greet, IsUpdate
<1>6. CASE Reconnects
  <2>1. used + 1 \in Conn /\ 0 \in Versions
    BY <1>6, StreamAssumption DEF ViewInv, StreamTypeOK, Reconnects, Versions, Conn
  <2>2. Subscribe(used + 1) \in Task /\ Subscribe(used + 1).kind = "subscribe"
    BY <2>1 DEF Subscribe, Task
  <2>3. CASE updates' = Append(updates, Subscribe(used + 1))
    BY <1>0, <1>6, <2>2, <2>3, QueueGrows DEF Reconnects
  <2>4. CASE updates' = updates
    BY <1>1, <1>6, <2>4 DEF Reconnects
  <2> QED
    BY <1>6, <2>3, <2>4 DEF Reconnects
<1>7. CASE DaemonStops
  BY <1>2, <1>7 DEF DaemonStops
<1>8. CASE DaemonStarts \/ Disposes \/ UNCHANGED streamVars
  BY <1>1, <1>8 DEF DaemonStarts, Disposes, streamVars
<1>9. ASSUME NEW c \in Conn, SnapshotShown(c) \/ ConnectionEnds(c) \/ WatchdogFires(c)
      PROVE  QueueInv'
  BY <1>1, <1>9 DEF SnapshotShown, ConnectionEnds, WatchdogFires
<1> QED
  BY <1>3, <1>4, <1>5, <1>6, <1>7, <1>8, <1>9 DEF StreamNext

LEMMA StreamTypes ==
  ASSUME ViewInv, QueueInv', StreamNext \/ UNCHANGED streamVars
  PROVE  StreamTypeOK'
<1> USE DEF UnchangedDesktop
<1>0. /\ version \in Versions /\ view \in Versions /\ dropped \subseteq Versions
      /\ subscribers \subseteq Conn /\ ended \subseteq Conn /\ open \subseteq Conn
      /\ wire \in [Conn -> Seq(Versions)] /\ timers \in Nat /\ used \in 0..MaxConns
      /\ {serving, disposed} \subseteq BOOLEAN
  BY DEF ViewInv, StreamTypeOK
<1>1. \A i \in DOMAIN updates' :
        updates'[i] \in [kind : {"update", "subscribe", "greet"}, conn : Conn \cup {0},
                         version : Versions]
  BY ElementOfSeq, LenProperties DEF QueueInv, Task
<1>2. \A task \in Task : task.version \in Versions /\ (task.kind # "update" => task.conn \in Conn)
  BY DEF Task
<1>3. updates # <<>> => Head(updates) \in Task
  BY QueueTail DEF ViewInv, QueueInv
<1>4. CASE StateChanges
  <2>1. version' \in Versions
    BY <1>0, <1>4, StreamAssumption DEF StateChanges, Versions
  <2> QED
    BY <1>0, <1>1, <1>4, <2>1 DEF StateChanges, StreamTypeOK
<1>5. CASE Broadcast
  <2>1. wire' \in [Conn -> Seq(Versions)]
    BY <1>0, <1>2, <1>3, <1>5, AppendProperties DEF Broadcast
  <2>2. ended' \subseteq Conn /\ subscribers' \subseteq Conn
    BY <1>0, <1>5 DEF Broadcast
  <2> QED
    BY <1>0, <1>1, <1>5, <2>1, <2>2 DEF Broadcast, StreamTypeOK
<1>6. CASE BroadcastFails
  BY <1>0, <1>1, <1>2, <1>3, <1>6 DEF BroadcastFails, StreamTypeOK
<1>7. CASE SubscriptionSkipped \/ DaemonStarts \/ UNCHANGED streamVars
  BY <1>0, <1>1, <1>7 DEF SubscriptionSkipped, DaemonStarts, streamVars, StreamTypeOK
<1>8. CASE SubscriptionBegins
  BY <1>0, <1>1, <1>2, <1>3, <1>8 DEF SubscriptionBegins, StreamTypeOK
<1>9. CASE SubscriptionAnswered
  <2>1. Head(updates).version \in Versions /\ Head(updates).conn \in Conn
    BY <1>2, <1>3, <1>9 DEF SubscriptionAnswered
  <2>2. Append(wire[Head(updates).conn], Head(updates).version) \in Seq(Versions)
    BY <1>0, <2>1, AppendProperties
  <2>3. wire' \in [Conn -> Seq(Versions)]
    BY <1>0, <1>9, <2>2 DEF SubscriptionAnswered
  <2> QED
    BY <1>0, <1>1, <1>9, <2>1, <2>3 DEF SubscriptionAnswered, StreamTypeOK
<1>10. CASE DaemonStops
  BY <1>0, <1>1, <1>10 DEF DaemonStops, StreamTypeOK
<1>11. CASE Reconnects
  <2>1. used + 1 \in Conn /\ used + 1 \in 0..MaxConns /\ timers - 1 \in Nat
    BY <1>0, <1>11, StreamAssumption DEF Reconnects, Conn
  <2>2. ended' \subseteq Conn /\ open' \subseteq Conn
    BY <1>0, <1>11, <2>1 DEF Reconnects
  <2> QED
    BY <1>0, <1>1, <1>11, <2>1, <2>2 DEF Reconnects, StreamTypeOK
<1>12. CASE Disposes
  BY <1>0, <1>1, <1>12 DEF Disposes, StreamTypeOK
<1>13. ASSUME NEW c \in Conn, SnapshotShown(c)
       PROVE  StreamTypeOK'
  <2>1. wire[c] \in Seq(Versions) /\ wire[c] # <<>>
    BY <1>0, <1>13 DEF SnapshotShown
  <2>2. Head(wire[c]) \in Versions /\ Tail(wire[c]) \in Seq(Versions)
    BY <2>1, HeadTailProperties
  <2>3. wire' \in [Conn -> Seq(Versions)]
    BY <1>0, <1>13, <2>2 DEF SnapshotShown
  <2> QED
    BY <1>0, <1>1, <1>13, <2>2, <2>3 DEF SnapshotShown, StreamTypeOK
<1>14. ASSUME NEW c \in Conn, ConnectionEnds(c)
       PROVE  StreamTypeOK'
  <2>1. timers' \in Nat
    BY <1>0, <1>14 DEF ConnectionEnds, Scheduled
  <2>2. wire' \in [Conn -> Seq(Versions)]
    BY <1>0, <1>14, EmptySeq DEF ConnectionEnds
  <2> QED
    BY <1>0, <1>1, <1>14, <2>1, <2>2 DEF ConnectionEnds, StreamTypeOK
<1>15. ASSUME NEW c \in Conn, WatchdogFires(c)
       PROVE  StreamTypeOK'
  BY <1>0, <1>1, <1>15 DEF WatchdogFires, StreamTypeOK
<1> QED
  BY <1>4, <1>5, <1>6, <1>7, <1>8, <1>9, <1>10, <1>11, <1>12, <1>13, <1>14, <1>15 DEF StreamNext

(* Whoever is connected after a step follows the state.                    *)
LEMMA FollowsKept ==
  ASSUME ViewInv, StreamInv, StreamNext \/ UNCHANGED streamVars,
         NEW c \in Conn, c \in open', c \notin ended'
  PROVE  Follows(c)'
<1> USE DEF UnchangedDesktop
<1>0. /\ StreamTypeOK /\ QueueInv /\ updates \in Seq(Task)
      /\ c \in open /\ c \notin ended => Follows(c) /\ serving
  BY DEF ViewInv, QueueInv
<1>1. \A d : wire'[d] = wire[d] /\ view' = view => LastWritten(d)' = LastWritten(d)
  BY DEF LastWritten
<1>2. CASE StateChanges
  <2>1. Follows(c) /\ subscribers' = subscribers
    BY <1>0, <1>2 DEF StateChanges
  <2>2. Update(version + 1) \in Task /\ Update(version + 1).kind = "update"
    BY <1>0, <1>2, StreamAssumption DEF StateChanges, Update, Task, Versions, StreamTypeOK
  <2>3. /\ \A i \in DOMAIN updates : i \in DOMAIN updates' /\ updates'[i] = updates[i]
        /\ updates # <<>> => 1 \in DOMAIN updates /\ updates' # <<>>
        /\ \E i \in DOMAIN updates' : updates'[i] = Update(version + 1)
    BY <1>0, <1>2, <2>2, QueueAppend, LenProperties, EmptySeq DEF StateChanges
  <2>4. ~Settled'
    BY <2>2, <2>3 DEF Settled, IsUpdate
  <2> QED
    BY <2>1, <2>3, <2>4 DEF Follows, WaitsForAnswer, WaitsForSnapshot, IsFollowed
<1>3. CASE Broadcast
  <2>1. /\ updates # <<>> /\ updates' = Tail(updates) /\ Head(updates) = updates[1]
        /\ IsUpdate(1) /\ updates[1] \in Task /\ c \notin ended /\ Follows(c)
        /\ c \in subscribers => c \in subscribers'
    BY <1>0, <1>3, QueueTail DEF Broadcast, IsUpdate
  <2>2. WaitsForAnswer(c)' \/ c \in subscribers
    BY <1>0, <2>1, TakenAnswer
  <2>3. ASSUME c \in subscribers
        PROVE  IsFollowed(c)'
    <3>1. wire'[c] = Append(wire[c], updates[1].version) /\ updates[1].version \in Versions
      BY <1>3, <2>1, <2>3 DEF Broadcast, Task
    <3>2. LastWritten(c)' = updates[1].version
      BY <1>0, <3>1, WrittenLast
    <3>3. Settled' => updates[1].version = version
      BY <1>0, <2>1, LastUpdate
    <3> QED
      BY <1>3, <3>2, <3>3 DEF Broadcast, IsFollowed
  <2> QED
    BY <2>1, <2>2, <2>3 DEF Follows
<1>4. CASE BroadcastFails
  <2>1. /\ updates # <<>> /\ updates' = Tail(updates) /\ Head(updates) = updates[1]
        /\ IsUpdate(1) /\ Follows(c) /\ subscribers' = subscribers
    BY <1>0, <1>4, QueueTail DEF BroadcastFails, IsUpdate
  <2>2. WaitsForAnswer(c)' \/ c \in subscribers
    BY <1>0, <2>1, TakenAnswer
  <2>3. Settled' => updates[1].version = version
    BY <1>0, <2>1, LastUpdate
  <2>4. IsFollowed(c)'
    BY <1>4, <2>1, <2>3 DEF BroadcastFails, IsFollowed
  <2> QED
    BY <2>1, <2>2, <2>4 DEF Follows
<1>5. CASE SubscriptionSkipped
  <2>1. /\ updates # <<>> /\ updates' = Tail(updates) /\ Head(updates) = updates[1]
        /\ ~IsUpdate(1) /\ updates[1].conn # c /\ Follows(c)
    BY <1>0, <1>5, QueueTail DEF SubscriptionSkipped, IsUpdate
  <2> QED
    BY <1>0, <1>1, <1>5, <2>1, StillFollows DEF SubscriptionSkipped
<1>6. CASE SubscriptionBegins
  <2>1. /\ updates # <<>> /\ Head(updates) = updates[1] /\ updates[1] \in Task
        /\ updates[1].kind = "subscribe" /\ Follows(c)
    BY <1>0, <1>6, QueueTail DEF SubscriptionBegins
  <2>2. Greet(updates[1].conn, version) \in Task
    BY <1>0, <2>1 DEF Greet, Task, StreamTypeOK
  <2>3. updates' = <<Greet(updates[1].conn, version)>> \o Tail(updates)
    BY <1>6, <2>1 DEF SubscriptionBegins, FirstSnapshot
  <2>4. /\ DOMAIN updates' = DOMAIN updates /\ updates'[1] = Greet(updates[1].conn, version)
        /\ \A i \in DOMAIN updates : i # 1 => updates'[i] = updates[i]
        /\ 1 \in DOMAIN updates /\ updates' # <<>>
    BY <1>0, <2>1, <2>2, <2>3, QueueGreet, QueueTail, LenProperties, EmptySeq
  <2>5. CASE updates[1].conn = c
    <3>1. c \in subscribers' /\ WaitsForSnapshot(c)'
      BY <1>6, <2>1, <2>4, <2>5 DEF SubscriptionBegins, WaitsForSnapshot, Greet
    <3> QED
      BY <3>1 DEF Follows
  <2>6. CASE updates[1].conn # c
    <3>1. WaitsForAnswer(c) => WaitsForAnswer(c)'
      BY <2>4, <2>6 DEF WaitsForAnswer
    <3>2. ~WaitsForSnapshot(c)
      BY <2>6 DEF WaitsForSnapshot
    <3>3. Settled' => Settled
      BY <2>1, <2>4 DEF Settled, IsUpdate
    <3>4. IsFollowed(c) => IsFollowed(c)'
      BY <1>1, <1>6, <3>3 DEF SubscriptionBegins, IsFollowed
    <3> QED
      BY <1>6, <2>1, <3>1, <3>2, <3>4 DEF SubscriptionBegins, Follows
  <2> QED
    BY <2>5, <2>6
<1>7. CASE SubscriptionAnswered
  <2>1. /\ updates # <<>> /\ updates' = Tail(updates) /\ Head(updates) = updates[1]
        /\ updates[1].kind = "greet" /\ updates[1] \in Task /\ Follows(c) /\ c \notin ended
    BY <1>0, <1>7, QueueTail DEF SubscriptionAnswered
  <2>2. ~IsUpdate(1)
    BY <2>1 DEF IsUpdate
  <2>3. CASE updates[1].conn # c
    <3>1. wire'[c] = wire[c] /\ (c \in subscribers => c \in subscribers')
      BY <1>0, <1>7, <2>1, <2>3 DEF SubscriptionAnswered, StreamTypeOK
    <3> QED
      BY <1>0, <1>1, <1>7, <2>1, <2>2, <2>3, <3>1, StillFollows DEF SubscriptionAnswered
  <2>4. CASE updates[1].conn = c
    <3>1. wire'[c] = Append(wire[c], updates[1].version) /\ subscribers' = subscribers
      BY <1>0, <1>7, <2>1, <2>4 DEF SubscriptionAnswered, StreamTypeOK
    <3>2. LastWritten(c)' = updates[1].version
      BY <1>0, <2>1, <3>1, WrittenLast DEF Task
    <3>3. Settled' => Settled
      BY <1>0, <2>1, <2>2, TailShift DEF Settled, IsUpdate
    <3>4. Settled => updates[1].version = version
      BY <1>0, <2>1, QueueTail DEF QueueInv
    <3>5. IsFollowed(c)'
      BY <1>7, <3>2, <3>3, <3>4 DEF SubscriptionAnswered, IsFollowed
    <3>6. WaitsForAnswer(c) => WaitsForAnswer(c)'
      <4> SUFFICES ASSUME NEW i \in DOMAIN updates, updates[i].kind = "subscribe",
                          updates[i].conn = c
                   PROVE  WaitsForAnswer(c)'
        BY DEF WaitsForAnswer
      <4>1. i - 1 \in DOMAIN updates' /\ updates'[i - 1] = updates[i]
        BY <1>0, <2>1, TailShift
      <4> QED
        BY <4>1 DEF WaitsForAnswer
    <3> QED
      BY <2>1, <3>1, <3>5, <3>6 DEF Follows
  <2> QED
    BY <2>3, <2>4
<1>8. CASE DaemonStops
  BY <1>8 DEF DaemonStops
<1>9. CASE DaemonStarts
  BY <1>9 DEF DaemonStarts, ViewInv
<1>10. CASE Reconnects
  <2>1. c = used + 1 /\ serving
    BY <1>10 DEF Reconnects, StreamInv
  <2>2. Subscribe(c) \in Task
    BY <1>0, <2>1, StreamAssumption DEF Subscribe, Task, Versions
  <2>3. updates' = Append(updates, Subscribe(c))
    BY <1>10, <2>1 DEF Reconnects
  <2>4. \E i \in DOMAIN updates' : updates'[i] = Subscribe(c)
    BY <1>0, <2>2, <2>3, QueueAppend
  <2> QED
    BY <2>4 DEF Follows, WaitsForAnswer, Subscribe
<1>11. CASE Disposes
  BY <1>11 DEF Disposes
<1>12. CASE UNCHANGED streamVars
  BY <1>0, <1>1, <1>12, StillFollows DEF streamVars
<1>13. ASSUME NEW d \in Conn, SnapshotShown(d)
       PROVE  Follows(c)'
  <2>1. d \in open /\ c \in open /\ ~disposed
    BY <1>13 DEF SnapshotShown, ViewInv
  <2>2. c = d
    BY <2>1 DEF StreamInv
  <2>3. wire'[c] = Tail(wire[c]) /\ wire[c] # <<>> /\ view' = Head(wire[c])
    BY <1>0, <1>13, <2>2 DEF SnapshotShown, StreamTypeOK
  <2>4. LastWritten(c)' = LastWritten(c)
    BY <1>0, <2>3, ShownLast
  <2> QED
    BY <1>0, <1>13, <2>1, <2>4, StillFollows DEF SnapshotShown
<1>14. ASSUME NEW d \in Conn, ConnectionEnds(d)
       PROVE  Follows(c)'
  <2>1. c # d /\ c \in open /\ wire'[c] = wire[c]
    BY <1>0, <1>14 DEF ConnectionEnds, StreamTypeOK
  <2> QED
    BY <1>0, <1>1, <1>14, <2>1, StillFollows DEF ConnectionEnds
<1>15. ASSUME NEW d \in Conn, WatchdogFires(d)
       PROVE  Follows(c)'
  <2>1. c # d
    BY <1>15 DEF WatchdogFires
  <2> QED
    BY <1>0, <1>1, <1>15, <2>1, StillFollows DEF WatchdogFires
<1> QED
  BY <1>2, <1>3, <1>4, <1>5, <1>6, <1>7, <1>8, <1>9, <1>10, <1>11, <1>12, <1>13, <1>14, <1>15
     DEF StreamNext

LEMMA ViewStep == ViewInv /\ StreamInv /\ [StreamNext]_streamVars => ViewInv'
<1> SUFFICES ASSUME ViewInv, StreamInv, StreamNext \/ UNCHANGED streamVars
             PROVE  ViewInv'
  OBVIOUS
<1>1. QueueInv' /\ StreamTypeOK'
  BY QueueKept, StreamTypes
<1>2. \A c \in open' \ ended' : Follows(c)'
  BY <1>1, FollowsKept DEF StreamTypeOK
<1>3. (disposed' => open' = {}) /\ (~serving' => open' \subseteq ended')
  <2> USE DEF ViewInv, UnchangedDesktop
  <2>1. CASE Reconnects
    <3>1. open' = open \cup {used + 1} /\ ~disposed' /\ serving' = serving
      BY <2>1 DEF Reconnects
    <3>2. ~serving => ended' = ended \cup {used + 1}
      BY <2>1 DEF Reconnects
    <3> QED
      BY <3>1, <3>2
  <2>2. CASE DaemonStops \/ DaemonStarts \/ Disposes
    BY <2>2 DEF DaemonStops, DaemonStarts, Disposes
  <2>3. CASE StateChanges \/ SubscriptionSkipped \/ SubscriptionBegins
    <3>1. UNCHANGED <<open, ended, serving, disposed>>
      BY <2>3 DEF StateChanges, SubscriptionSkipped, SubscriptionBegins
    <3> QED
      BY <3>1
  <2>4. CASE Broadcast \/ BroadcastFails \/ SubscriptionAnswered
    BY <2>4 DEF Broadcast, BroadcastFails, SubscriptionAnswered
  <2>5. CASE \E c \in Conn : SnapshotShown(c) \/ ConnectionEnds(c) \/ WatchdogFires(c)
    BY <2>5 DEF SnapshotShown, ConnectionEnds, WatchdogFires
  <2>6. CASE UNCHANGED streamVars
    BY <2>6 DEF streamVars
  <2> QED
    BY <2>1, <2>2, <2>3, <2>4, <2>5, <2>6 DEF StreamNext
<1> QED
  BY <1>1, <1>2, <1>3 DEF ViewInv

(***************************************************************************)
(* When the daemon's queue is empty and nothing is under way, a desktop    *)
(* that is connected shows the state of the service, over every order of   *)
(* updates, subscriptions, slow connections, restarts and reconnections    *)
(* (publishUpdate, broadcastEvent, and the subscription's scheduleReconnect).*)
(***************************************************************************)
THEOREM DesktopFollows == StreamSpec => []StreamCatchesUp
<1>1. ViewInv => StreamCatchesUp
  <2> SUFFICES ASSUME ViewInv, serving, updates = <<>>, NEW c \in open \ ended, wire[c] = <<>>
               PROVE  view = version \/ version \in dropped
    BY DEF StreamCatchesUp
  <2>1. Settled /\ ~WaitsForAnswer(c) /\ ~WaitsForSnapshot(c)
    BY DEF Settled, WaitsForAnswer, WaitsForSnapshot
  <2>2. IsFollowed(c)
    BY <2>1 DEF ViewInv, Follows
  <2> QED
    BY <2>1, <2>2 DEF IsFollowed, LastWritten
<1> QED
  BY <1>1, StreamInitial, StreamStep, ViewInitial, ViewStep, PTL DEF StreamSpec

-----------------------------------------------------------------------------
(* The runner of the agent.  A leader lives only while its run is          *)
(* registered; once signalled, a run is swept when it closes; a shutdown   *)
(* awaits every run there still is.                                        *)

Fresh(v) == v.leader = "none" /\ v.child = "none" /\ ~v.signalled

RunTidy(t) ==
  LET v == tests[t]
  IN /\ v.leader = "alive" => v.stage = "running"
     /\ v.stage \in {"idle", "removing"} /\ v.signalled => v.child = "none"
     /\ v.stage = "running" /\ v.signalled => v.timer # "set" \/ runner # "up"
     /\ v.stage \in {"checking", "trust", "prepare", "ready"} => Fresh(v)

Awaits(t) == runner # "up" /\ Active(t) => t \in awaited

RunnerInv ==
  /\ RunnerTypeOK
  /\ \A t \in Test : RunTidy(t) /\ Awaits(t)
  /\ runner = "done" => awaited = {}

Run ==
  [stage : {"idle", "checking", "trust", "prepare", "ready", "running", "removing"},
   leader : {"none", "alive", "gone"}, child : {"none", "holding", "apart"},
   timer : {"off", "set", "force"}, signalled : BOOLEAN]

LEMMA RunnerInitial == RunnerInit => RunnerInv
<1> SUFFICES ASSUME RunnerInit PROVE RunnerInv
  OBVIOUS
<1>1. RunnerTypeOK /\ runner = "up"
  BY DEF RunnerInit, RunnerTypeOK, NoTest
<1>2. \A t \in Test : RunTidy(t) /\ Awaits(t)
  BY DEF RunnerInit, NoTest, RunTidy, Awaits, Fresh
<1> QED
  BY <1>1, <1>2 DEF RunnerInv

(* What is asked of a run after a step.                                    *)
TidyAs(v) ==
  /\ v \in Run
  /\ v.leader = "alive" => v.stage = "running"
  /\ v.stage \in {"idle", "removing"} /\ v.signalled => v.child = "none"
  /\ v.stage = "running" /\ v.signalled => v.timer # "set" \/ runner # "up"
  /\ v.stage \in {"checking", "trust", "prepare", "ready"} => Fresh(v)

(* A step of one run, which goes on if it was under way, and the end of it.*)
LEMMA RunGoesOn ==
  ASSUME RunnerInv, NEW t \in Test, NEW v, TidyAs(v), tests' = [tests EXCEPT ![t] = v],
         UNCHANGED <<runner, daemon>>, cooling' \in BOOLEAN,
         \/ /\ awaited' = awaited
            /\ \/ runner = "up"
               \/ Active(t)
               \/ v.stage \notin {"trust", "prepare", "ready", "running", "removing"}
         \/ awaited' = awaited \ {t} /\ v.stage = "idle"
  PROVE  RunnerInv'
<1>1. /\ tests' \in [Test -> Run] /\ tests'[t] = v
      /\ \A q \in Test : q # t => tests'[q] = tests[q]
  BY DEF RunnerInv, RunnerTypeOK, TidyAs, Run
<1>2. RunnerTypeOK'
  BY <1>1 DEF RunnerInv, RunnerTypeOK, Run
<1>3. \A q \in Test : RunTidy(q)'
  BY <1>1 DEF RunnerInv, RunTidy, TidyAs, Fresh
<1>4. \A q \in Test : Awaits(q)'
  BY <1>1 DEF RunnerInv, Awaits, Active
<1> QED
  BY <1>2, <1>3, <1>4 DEF RunnerInv

LEMMA Tidy ==
  ASSUME RunnerInv, NEW t \in Test
  PROVE  TidyAs(tests[t])
BY DEF RunnerInv, RunnerTypeOK, RunTidy, TidyAs, Run

(* Signals and sweeps keep a registered run tidy.                          *)
LEMMA Signals ==
  ASSUME NEW v \in Run, v.stage = "running"
  PROVE  /\ \A w \in Terminated(v) :
              w \in Run /\ w.stage = "running" /\ w.timer = v.timer
         /\ Killed(v) \in Run /\ Killed(v).stage = "running" /\ Killed(v).timer = v.timer
         /\ Killed(v).leader = "gone" /\ Killed(v).child = "none"
BY DEF Run, Terminated, Killed

(* A run that takes its next step towards its process, or gives up.        *)
LEMMA Prepares ==
  ASSUME RunnerInv, NEW t \in Test,
         tests[t].stage \in {"checking", "trust", "prepare", "ready"},
         NEW stage \in {"trust", "prepare", "ready", "removing"},
         tests[t].stage = "checking" => runner = "up",
         tests' = [tests EXCEPT ![t].stage = stage], UNCHANGED <<cooling, runner, awaited, daemon>>
  PROVE  RunnerInv'
<1>1. PICK v : v = [tests[t] EXCEPT !.stage = stage]
  OBVIOUS
<1>2. TidyAs(tests[t])
  BY Tidy
<1>3. TidyAs(v)
  BY <1>1, <1>2 DEF TidyAs, Run, Fresh
<1>4. tests' = [tests EXCEPT ![t] = v]
  BY <1>1
<1>5. runner = "up" \/ Active(t)
  BY DEF Active
<1> QED
  BY <1>3, <1>4, <1>5, RunGoesOn DEF RunnerInv, RunnerTypeOK

(* The end of a test, with what its processes have left.                   *)
LEMMA Ends ==
  ASSUME RunnerInv, NEW t \in Test, NEW v, TidyAs(v), v.leader # "alive",
         v.signalled => v.child = "none", Released(t, v)
  PROVE  RunnerInv'
<1>1. PICK w : w = [v EXCEPT !.stage = "idle", !.timer = "off"]
  OBVIOUS
<1>2. TidyAs(w) /\ w.stage = "idle"
  BY <1>1 DEF TidyAs, Run
<1>3. tests' = [tests EXCEPT ![t] = w]
  BY <1>1 DEF Released, Becomes
<1> QED
  BY <1>2, <1>3, RunGoesOn DEF Released

LEMMA TestSteps ==
  ASSUME RunnerInv, NEW t \in Test,
         \/ CheckFails(t) \/ RunRefused(t) \/ TrustFails(t) \/ RunBegins(t) \/ DirectoryMade(t)
         \/ ConfigurationWritten(t) \/ ConfigurationFails(t) \/ ExecutableRefused(t)
         \/ DirectoryRemoved(t)
  PROVE  RunnerInv'
<1>1. TidyAs(tests[t])
  BY Tidy
<1>2. CASE CheckFails(t) \/ RunRefused(t) \/ TrustFails(t)
  <2>1. tests[t].stage \in {"checking", "trust"} /\ Released(t, tests[t])
    BY <1>2 DEF CheckFails, RunRefused, TrustFails, At
  <2> QED
    BY <1>1, <2>1, Ends DEF TidyAs, Fresh
<1>3. CASE RunBegins(t)
  BY <1>3, Prepares DEF RunBegins, At, Accepted, ShuttingDown
<1>4. CASE DirectoryMade(t)
  BY <1>4, Prepares DEF DirectoryMade, At
<1>5. CASE ConfigurationWritten(t)
  BY <1>5, Prepares DEF ConfigurationWritten, At
<1>6. CASE ConfigurationFails(t) \/ ExecutableRefused(t)
  BY <1>6, Prepares DEF ConfigurationFails, ExecutableRefused, GivesUp, At
<1>7. CASE DirectoryRemoved(t)
  <2>1. tests[t].leader # "alive" /\ (tests[t].signalled => tests[t].child = "none")
    BY <1>1, <1>7 DEF DirectoryRemoved, At, TidyAs
  <2>2. TidyAs(NoTest) /\ NoTest.leader # "alive" /\ ~NoTest.signalled
    BY DEF NoTest, TidyAs, Run, Fresh
  <2>3. Released(t, tests[t]) \/ Released(t, NoTest)
    BY <1>7 DEF DirectoryRemoved
  <2> QED
    BY <1>1, <2>1, <2>2, <2>3, Ends
<1> QED
  BY <1>2, <1>3, <1>4, <1>5, <1>6, <1>7

LEMMA ProcessSteps ==
  ASSUME RunnerInv, NEW t \in Test,
         \/ TestBegins(t) \/ Spawns(t) \/ LeaderForks(t) \/ ProcessEnds(t) \/ TimerFires(t)
         \/ ForceKillTimerFires(t) \/ Closes(t)
  PROVE  RunnerInv'
<1>1. TidyAs(tests[t])
  BY Tidy
<1>c. cooling \in BOOLEAN
  BY DEF RunnerInv, RunnerTypeOK
<1>2. CASE TestBegins(t)
  <2>1. PICK v : v = [NoTest EXCEPT !.stage = "checking"]
    OBVIOUS
  <2>2. TidyAs(v) /\ v.stage = "checking"
    BY <2>1 DEF NoTest, TidyAs, Run, Fresh
  <2>3. tests' = [tests EXCEPT ![t] = v] /\ UNCHANGED <<cooling, runner, awaited, daemon>>
    BY <1>2, <2>1 DEF TestBegins
  <2> QED
    BY <1>c, <2>2, <2>3, RunGoesOn
<1>3. CASE Spawns(t)
  <2>1. PICK v : v = [tests[t] EXCEPT !.stage = "running", !.leader = "alive", !.timer = "set"]
    OBVIOUS
  <2>2. v \in Run /\ v.stage = "running" /\ ~v.signalled /\ Active(t)
    BY <1>1, <1>3, <2>1 DEF TidyAs, Run, Fresh, Spawns, At, Active
  <2>3. PICK w \in IF ShuttingDown THEN Terminated(v) ELSE {v} : tests' = [tests EXCEPT ![t] = w]
    BY <1>3, <2>1 DEF Spawns, Becomes
  <2>4. TidyAs(w)
    BY <2>2, <2>3, Signals DEF TidyAs, ShuttingDown
  <2> QED
    BY <1>3, <1>c, <2>2, <2>3, <2>4, RunGoesOn DEF Spawns
<1>4. CASE LeaderForks(t)
  <2>1. PICK c \in {"holding", "apart"} : tests' = [tests EXCEPT ![t].child = c]
    BY <1>4 DEF LeaderForks
  <2>2. PICK v : v = [tests[t] EXCEPT !.child = c]
    OBVIOUS
  <2>3. tests[t].stage = "running" /\ Active(t)
    BY <1>1, <1>4 DEF LeaderForks, TidyAs, Active
  <2>4. TidyAs(v) /\ tests' = [tests EXCEPT ![t] = v]
    BY <1>1, <2>1, <2>2, <2>3 DEF TidyAs, Run
  <2> QED
    BY <1>4, <1>c, <2>3, <2>4, RunGoesOn DEF LeaderForks
<1>5. CASE ProcessEnds(t)
  <2>1. PICK v : v \in {[tests[t] EXCEPT !.leader = "gone"], [tests[t] EXCEPT !.child = "none"]}
                 /\ tests' = [tests EXCEPT ![t] = v]
                 /\ (tests[t].leader = "alive" \/ v = [tests[t] EXCEPT !.child = "none"])
    BY <1>5 DEF ProcessEnds
  <2>2. TidyAs(v) /\ v.stage = tests[t].stage
    BY <1>1, <2>1 DEF TidyAs, Run, Fresh
  <2>3. Active(t) \/ v.stage \notin {"trust", "prepare", "ready", "running", "removing"}
    BY <2>2 DEF Active
  <2> QED
    BY <1>5, <1>c, <2>1, <2>2, <2>3, RunGoesOn DEF ProcessEnds
<1>6. CASE TimerFires(t) \/ ForceKillTimerFires(t) \/ Closes(t)
  <2>1. tests[t] \in Run /\ tests[t].stage = "running" /\ Active(t)
    BY <1>1, <1>6 DEF TimerFires, ForceKillTimerFires, Closes, At, TidyAs, Active
  <2>2. UNCHANGED <<cooling, runner, awaited, daemon>>
    BY <1>6 DEF TimerFires, ForceKillTimerFires, Closes
  <2>3. CASE TimerFires(t)
    <3>1. PICK w \in Terminated(tests[t]) :
            tests' = [tests EXCEPT ![t] = [w EXCEPT !.timer = ThenForced]]
      BY <2>3 DEF TimerFires, Becomes
    <3>2. w \in Run /\ w.stage = "running"
      BY <2>1, Signals
    <3>3. TidyAs([w EXCEPT !.timer = ThenForced])
      BY <3>2 DEF TidyAs, Run, ThenForced
    <3> QED
      BY <1>c, <2>1, <2>2, <3>1, <3>3, RunGoesOn
  <2>4. CASE ForceKillTimerFires(t)
    <3>1. PICK v : v = [Killed(tests[t]) EXCEPT !.timer = "off"]
      OBVIOUS
    <3>2. tests' = [tests EXCEPT ![t] = v]
      BY <2>4, <3>1 DEF ForceKillTimerFires, Becomes
    <3>3. Killed(tests[t]) \in Run /\ Killed(tests[t]).stage = "running"
      BY <2>1, Signals
    <3>4. TidyAs(v)
      BY <3>1, <3>3 DEF TidyAs, Run
    <3> QED
      BY <1>c, <2>1, <2>2, <3>2, <3>4, RunGoesOn
  <2>5. CASE Closes(t)
    <3>1. PICK w : w = Swept(tests[t])
      OBVIOUS
    <3>2. w \in Run /\ w.leader = "gone" /\ (w.signalled => w.child = "none")
      <4>1. CASE TimedOut(tests[t]) \/ ShuttingDown
        BY <2>1, <3>1, <4>1, Signals DEF Swept
      <4>2. CASE ~(TimedOut(tests[t]) \/ ShuttingDown)
        BY <1>1, <2>1, <2>5, <3>1, <4>2 DEF Swept, Closes, TidyAs, TimedOut, ShuttingDown
      <4> QED
        BY <4>1, <4>2
    <3>3. PICK v : v = [w EXCEPT !.stage = "removing", !.timer = "off"]
      OBVIOUS
    <3>4. TidyAs(v)
      BY <3>2, <3>3 DEF TidyAs, Run
    <3>5. tests' = [tests EXCEPT ![t] = v]
      BY <2>5, <3>1, <3>3 DEF Closes, Becomes
    <3> QED
      BY <1>c, <2>1, <2>2, <3>4, <3>5, RunGoesOn
  <2> QED
    BY <1>6, <2>3, <2>4, <2>5
<1> QED
  BY <1>2, <1>3, <1>4, <1>5, <1>6

(* Every run as it was, or signalled while it is registered.               *)
LEMMA ShutdownSteps ==
  ASSUME RunnerInv, ShutdownBegins \/ SecondPasses
  PROVE  RunnerInv'
<1>1. \A t \in Test : TidyAs(tests[t])
  BY Tidy
<1>2. /\ DOMAIN tests' = Test /\ tests' = [t \in Test |-> tests'[t]]
      /\ \A t \in Test : \/ tests'[t] = tests[t] /\ tests[t].stage # "running"
                         \/ /\ tests'[t] \in Terminated(tests[t]) \cup {Killed(tests[t])}
                            /\ tests[t].stage = "running"
  <2>1. CASE ShutdownBegins
    <3> DEFINE outcomes(t) == IF Registered(t) THEN Terminated(tests[t]) ELSE {tests[t]}
    <3>1. /\ tests' \in [Test -> UNION {outcomes(t) : t \in Test}]
          /\ \A t \in Test : tests'[t] \in outcomes(t)
      BY <2>1 DEF ShutdownBegins, SignalledAll
    <3> QED
      BY <3>1 DEF Registered
  <2>2. CASE SecondPasses
    BY <2>2 DEF SecondPasses, Registered
  <2> QED
    BY <2>1, <2>2
<1>3. runner' # "up" /\ runner' \in {"term", "kill", "done"} /\ daemon' = "closing"
  BY DEF ShutdownBegins, SecondPasses
<1>4. \A t \in Test : tests'[t] \in Run /\ tests'[t].stage = tests[t].stage
  BY <1>1, <1>2, Signals DEF TidyAs
<1>5. \A t \in Test : RunTidy(t)'
  <2>1. ASSUME NEW t \in Test, tests'[t] = tests[t], tests[t].stage # "running"
        PROVE  RunTidy(t)'
    BY <1>1, <2>1 DEF RunTidy, TidyAs, Fresh
  <2>2. ASSUME NEW t \in Test, tests[t].stage = "running"
        PROVE  RunTidy(t)'
    BY <1>3, <1>4, <2>2 DEF RunTidy
  <2> QED
    BY <1>2, <2>1, <2>2
<1>6. /\ \A t \in Test : Active(t) => t \in awaited'
      /\ awaited' \subseteq Test /\ (runner' = "done" => awaited' = {})
  BY DEF ShutdownBegins, SecondPasses, RunnerInv, RunnerTypeOK, Awaits
<1>7. \A t \in Test : Awaits(t)'
  BY <1>4, <1>6 DEF Awaits, Active
<1>8. RunnerTypeOK'
  <2>1. tests' \in [Test -> Run]
    BY <1>2, <1>4
  <2>2. cooling' \in BOOLEAN
    BY DEF ShutdownBegins, SecondPasses, RunnerInv, RunnerTypeOK
  <2> QED
    BY <1>3, <1>6, <2>1, <2>2 DEF RunnerTypeOK, Run
<1> QED
  BY <1>5, <1>6, <1>7, <1>8 DEF RunnerInv

LEMMA RunnerStep == RunnerInv /\ [RunnerNext]_runnerVars => RunnerInv'
<1> SUFFICES ASSUME RunnerInv, [RunnerNext]_runnerVars PROVE RunnerInv'
  OBVIOUS
<1>1. CASE UNCHANGED <<tests, runner, awaited>> /\ cooling' \in BOOLEAN
           /\ daemon' \in {"up", "closing", "gone", "cut"}
  BY <1>1 DEF RunnerInv, RunnerTypeOK, RunTidy, Awaits, Active, Fresh
<1>2. CASE UNCHANGED runnerVars \/ CooldownEnds \/ DaemonExits \/ DaemonCutOff
  BY <1>1, <1>2 DEF runnerVars, CooldownEnds, DaemonExits, DaemonCutOff, RunnerInv, RunnerTypeOK
<1>3. CASE RunsSettled
  BY <1>3 DEF RunsSettled, RunnerInv, RunnerTypeOK, RunTidy, Awaits, Active, Fresh
<1> QED
  BY <1>2, <1>3, TestSteps, ProcessSteps, ShutdownSteps DEF RunnerNext

(***************************************************************************)
(* A run that was cut short leaves no process behind once it has settled,  *)
(* and a runner that has shut down has no run and no leader left, for any  *)
(* number of tests and whatever their processes ignore or fork.            *)
(***************************************************************************)
THEOREM NothingStaysRunning == RunnerSpec => []NothingLeftRunning
<1>1. RunnerInv => NothingLeftRunning
  BY DEF RunnerInv, RunTidy, Awaits, Active, NothingLeftRunning
<1> QED
  BY <1>1, RunnerInitial, RunnerStep, PTL DEF RunnerSpec
=============================================================================
