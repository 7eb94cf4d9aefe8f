---------------------------- MODULE EventStream ----------------------------
(***************************************************************************)
(* The event stream that shows the desktop the state of the daemon: the    *)
(* daemon's queue of updates and subscriptions (src/daemon/index.ts,       *)
(* src/daemon/protocol.ts) and the desktop's subscription, which connects  *)
(* again whenever its connection ends (src/main/daemon-client.ts).         *)
(*                                                                         *)
(* A snapshot is the number of the state it was taken of; the parsing of   *)
(* the stream is left out.  A connection is used once.                     *)
(***************************************************************************)
EXTENDS Naturals, Sequences, FiniteSets

CONSTANTS
  MaxVersion,   \* bound of the model: changes of the state
  MaxConns      \* bound of the model: connections tried

ASSUME StreamAssumption == MaxVersion \in Nat /\ MaxConns \in Nat \ {0}

VARIABLES
  version,      \* the state of the service
  updates,      \* updateQueue: the task at its head is being executed
  subscribers,  \* connections the daemon writes events to
  wire,         \* events under way on each connection
  ended,        \* connections one side has ended
  open,         \* connections the desktop holds
  timers,       \* reconnections the desktop has scheduled
  used,         \* connections tried
  view,         \* the snapshot the desktop shows
  serving,      \* the daemon is up
  disposed,     \* the desktop has given up its subscription
  \* remembered for the properties only
  dropped       \* updates the daemon could not put together

streamVars == <<version, updates, subscribers, wire, ended, open, timers, used, view,
                serving, disposed, dropped>>

Versions == 0..MaxVersion
Conn == 1..MaxConns

Update(v) == [kind |-> "update", conn |-> 0, version |-> v]
Subscribe(c) == [kind |-> "subscribe", conn |-> c, version |-> 0]
Greet(c, v) == [kind |-> "greet", conn |-> c, version |-> v]

StreamTypeOK ==
  /\ version \in Versions /\ view \in Versions /\ dropped \subseteq Versions
  /\ \A i \in DOMAIN updates :
       updates[i] \in [kind : {"update", "subscribe", "greet"}, conn : Conn \cup {0},
                       version : Versions]
  /\ subscribers \subseteq Conn /\ ended \subseteq Conn /\ open \subseteq Conn
  /\ wire \in [Conn -> Seq(Versions)]
  /\ timers \in Nat /\ used \in 0..MaxConns
  /\ {serving, disposed} \subseteq BOOLEAN

StreamInit ==
  /\ version = 0 /\ updates = <<>> /\ subscribers = {}
  /\ wire = [c \in Conn |-> <<>>] /\ ended = {} /\ open = {}
  /\ timers = 1 /\ used = 0 /\ view = 0
  /\ serving = TRUE /\ disposed = FALSE /\ dropped = {}

UnchangedDesktop == UNCHANGED <<open, timers, used, view, disposed>>

-----------------------------------------------------------------------------
(* The daemon.                                                             *)

\* onUpdate, publishUpdate
StateChanges ==
  /\ serving /\ version < MaxVersion
  /\ version' = version + 1 /\ updates' = Append(updates, Update(version + 1))
  /\ UNCHANGED <<subscribers, wire, ended, serving, dropped>> /\ UnchangedDesktop

\* broadcastEvent, writeEventChunk: a subscriber that does not keep up is ended,
\* with what was written.
Broadcast ==
  /\ updates # <<>> /\ Head(updates).kind = "update"
  /\ updates' = Tail(updates)
  /\ \E slow \in SUBSET subscribers :
       /\ wire' = [c \in Conn |-> IF c \in subscribers /\ c \notin ended
                                  THEN Append(wire[c], Head(updates).version) ELSE wire[c]]
       /\ ended' = ended \cup slow
       /\ subscribers' = subscribers \ (slow \cup ended)
  /\ UNCHANGED <<version, serving, dropped>> /\ UnchangedDesktop

\* The keychain cannot be read and the update is lost.
BroadcastFails ==
  /\ updates # <<>> /\ Head(updates).kind = "update"
  /\ updates' = Tail(updates) /\ dropped' = dropped \cup {Head(updates).version}
  /\ UNCHANGED <<version, subscribers, wire, ended, serving>> /\ UnchangedDesktop

\* The connection was given up while its subscription waited.
SubscriptionSkipped ==
  /\ updates # <<>> /\ Head(updates).kind = "subscribe" /\ Head(updates).conn \in ended
  /\ updates' = Tail(updates)
  /\ UNCHANGED <<version, subscribers, wire, ended, serving, dropped>> /\ UnchangedDesktop

\* The stream begins with the next update.
NoFirstSnapshot(c) == <<>>

\* The stream begins with a snapshot, read once the subscriber is entered.
FirstSnapshot(c) == <<Greet(c, version)>>

SubscriptionBegins ==
  LET c == Head(updates).conn
  IN /\ updates # <<>> /\ Head(updates).kind = "subscribe" /\ c \notin ended
     /\ subscribers' = subscribers \cup {c}
     /\ updates' = FirstSnapshot(c) \o Tail(updates)
     /\ UNCHANGED <<version, wire, ended, serving, dropped>> /\ UnchangedDesktop

\* The first snapshot is written, or the connection is ended because it cannot be.
SubscriptionAnswered ==
  LET c == Head(updates).conn
  IN /\ updates # <<>> /\ Head(updates).kind = "greet"
     /\ updates' = Tail(updates)
     /\ \/ /\ c \notin ended
           /\ wire' = [wire EXCEPT ![c] = Append(@, Head(updates).version)]
           /\ UNCHANGED <<subscribers, ended>>
        \/ ended' = ended \cup {c} /\ subscribers' = subscribers \ {c} /\ UNCHANGED wire
     /\ UNCHANGED <<version, serving, dropped>> /\ UnchangedDesktop

\* The daemon stops, in an orderly way or not, and its connections end.
DaemonStops ==
  /\ serving /\ serving' = FALSE
  /\ ended' = ended \cup open /\ subscribers' = {} /\ updates' = <<>>
  /\ UNCHANGED <<version, wire, dropped>> /\ UnchangedDesktop

DaemonStarts ==
  /\ ~serving /\ serving' = TRUE
  /\ UNCHANGED <<version, updates, subscribers, wire, ended, dropped>> /\ UnchangedDesktop

-----------------------------------------------------------------------------
(* The desktop.                                                            *)

\* Every event of a connection that ended schedules a reconnection.
ScheduledEach(n, events) == n + events

\* scheduleReconnect: not while one is scheduled already.
Scheduled(n, events) == IF n > 0 THEN n ELSE 1

Reconnects ==
  LET c == used + 1
  IN /\ timers > 0 /\ ~disposed /\ used < MaxConns
     /\ used' = c /\ timers' = timers - 1 /\ open' = open \cup {c}
     /\ updates' = IF serving THEN Append(updates, Subscribe(c)) ELSE updates
     /\ ended' = IF serving THEN ended ELSE ended \cup {c}
     /\ UNCHANGED <<version, subscribers, wire, view, serving, disposed, dropped>>

SnapshotShown(c) ==
  /\ c \in open /\ wire[c] # <<>>
  /\ view' = Head(wire[c]) /\ wire' = [wire EXCEPT ![c] = Tail(@)]
  /\ UNCHANGED <<version, updates, subscribers, ended, open, timers, used, serving,
                 disposed, dropped>>

\* end, error and close of a response, or the error of a request: those of one
\* connection follow each other long before a reconnection is due (250 ms).
ConnectionEnds(c) ==
  /\ c \in open /\ c \in ended
  /\ open' = open \ {c} /\ wire' = [wire EXCEPT ![c] = <<>>]
  /\ \E events \in 1..2 : timers' = Scheduled(timers, events)
  /\ UNCHANGED <<version, updates, subscribers, ended, used, view, serving, disposed, dropped>>

\* No heartbeat for 45 seconds, or an event that is too large.
WatchdogFires(c) ==
  /\ c \in open \ ended /\ c \in subscribers
  /\ ended' = ended \cup {c} /\ subscribers' = subscribers \ {c}
  /\ UNCHANGED <<version, updates, wire, serving, dropped>> /\ UnchangedDesktop

Disposes ==
  /\ ~disposed /\ disposed' = TRUE
  /\ timers' = 0 /\ open' = {} /\ ended' = ended \cup open
  /\ subscribers' = subscribers \ open
  /\ UNCHANGED <<version, updates, wire, used, view, serving, dropped>>

StreamNext ==
  \/ StateChanges \/ Broadcast \/ BroadcastFails \/ SubscriptionSkipped
  \/ SubscriptionBegins \/ SubscriptionAnswered \/ DaemonStops \/ DaemonStarts
  \/ Reconnects \/ Disposes
  \/ \E c \in Conn : SnapshotShown(c) \/ ConnectionEnds(c) \/ WatchdogFires(c)

StreamSpec == StreamInit /\ [][StreamNext]_streamVars

-----------------------------------------------------------------------------
(* Properties.                                                             *)

\* As long as the desktop has not given up its subscription, and the daemon
\* accepts its token, it has one connection or one reconnection scheduled: it is
\* never left without either, and no end of a connection leads to two streams.
OneStream == ~disposed => Cardinality(open) + timers = 1

\* When the daemon's queue is empty and nothing is under way, a desktop that is
\* connected shows the state of the service, over reconnections, slow
\* connections and restarts; only an update the daemon could not put together
\* is missing until the next one.
StreamCatchesUp ==
  serving /\ updates = <<>>
    => \A c \in open \ ended : wire[c] = <<>> => view = version \/ version \in dropped
=============================================================================
