----------------------------- MODULE DaemonLock -----------------------------
(***************************************************************************)
(* How one daemon replaces another: the lock file and the socket path of   *)
(* src/daemon/index.ts (main, acquireDaemonLock, shutdown) and the two     *)
(* ways src/main/daemon-manager.ts decides that the next daemon may start. *)
(* A daemon process lives once.  A step runs from one await to the next.   *)
(***************************************************************************)
EXTENDS Naturals

CONSTANTS
  Daemon,   \* the daemon processes, in no particular order
  None,     \* no file at a path
  Tries,    \* attempts at creating the lock file
  Launch    \* "removal" or "endpoint": what the manager waits for

ASSUME DaemonAssumption ==
  None \notin Daemon /\ Tries \in Nat \ {0} /\ Launch \in {"removal", "endpoint"}

VARIABLES
  pc,       \* where each process is
  tries,    \* attempts a process has used up
  owner,    \* the owner a process read from the lock file
  lock,     \* the process whose lock file the path names
  written,  \* processes whose lock file has its content
  expired,  \* processes whose lock file is older than 30 seconds
  socket    \* the process whose socket the path names

vars == <<pc, tries, owner, lock, written, expired, socket>>

Acquiring == {"open", "owner", "probe", "unlink"}
Starting == {"write", "check", "remove", "initialize", "listen"}
Stopping == {"drain", "cleanup", "release", "unlock"}
Over == {"gone", "yielded", "failed"}

TypeOK ==
  /\ pc \in [Daemon -> Acquiring \cup Starting \cup Stopping \cup Over \cup {"off", "serving"}]
  /\ tries \in [Daemon -> 0..Tries]
  /\ \A p \in Daemon : pc[p] \in Acquiring \cup {"off"} => tries[p] < Tries
  /\ owner \in [Daemon -> Daemon \cup {None}]
  /\ lock \in Daemon \cup {None} /\ socket \in Daemon \cup {None}
  /\ written \subseteq Daemon /\ expired \subseteq written

Init ==
  /\ pc = [p \in Daemon |-> "off"] /\ tries = [p \in Daemon |-> 0]
  /\ owner = [p \in Daemon |-> None]
  /\ lock = None /\ written = {} /\ expired = {} /\ socket = None

Alive(p) == pc[p] \notin Over \cup {"off"}

Connects == socket # None /\ pc[socket] = "serving"

Goto(p, step) == pc' = [pc EXCEPT ![p] = step]

-----------------------------------------------------------------------------
(* Starting and stopping a process.                                         *)

\* The manager does not wait for the previous daemon.
MayStartAtOnce == TRUE

\* waitForLaunchAgentRemoval waits until launchd has lost the old job;
\* waitForDaemonStop is content when nothing answers at the socket.
MayStart ==
  IF Launch = "removal" THEN \A q \in Daemon : ~Alive(q)
  ELSE ~Connects /\ \A q \in Daemon : pc[q] \notin Acquiring \cup Starting

Start(p) ==
  /\ pc[p] = "off" /\ MayStart
  /\ Goto(p, "open")
  /\ UNCHANGED <<tries, owner, lock, written, expired, socket>>

\* A crash, or the exit forced ten seconds after a signal.
Crash(p) ==
  /\ Alive(p)
  /\ Goto(p, "gone")
  /\ UNCHANGED <<tries, owner, lock, written, expired, socket>>

\* The age of a lock is that of its file, whatever the file says.
ExpireFile(p) ==
  /\ lock = p /\ p \notin expired /\ pc[p] \notin Starting
  /\ expired' = expired \cup {p}
  /\ UNCHANGED <<pc, tries, owner, lock, written, socket>>

\* The creation time in a lock file turns 30 seconds old; a daemon is up by
\* then.
Expire(p) ==
  /\ p \in written \ expired /\ pc[p] \notin Starting
  /\ expired' = expired \cup {p}
  /\ UNCHANGED <<pc, tries, owner, lock, written, socket>>

-----------------------------------------------------------------------------
(* acquireDaemonLock                                                        *)

Open(p) ==
  /\ pc[p] = "open"
  /\ IF lock = None THEN lock' = p /\ Goto(p, "write") ELSE UNCHANGED lock /\ Goto(p, "owner")
  /\ UNCHANGED <<tries, owner, written, expired, socket>>

Write(p) ==
  /\ pc[p] = "write"
  /\ written' = written \cup {p}
  /\ Goto(p, "check")
  /\ UNCHANGED <<tries, owner, lock, expired, socket>>

\* The error leaves the lock file behind.
WriteFails(p) ==
  /\ pc[p] = "write"
  /\ Goto(p, "gone")
  /\ UNCHANGED <<tries, owner, lock, written, expired, socket>>

\* A file that is missing or not written yet has no owner.  The process
\* number of a dead owner may belong to some other process by now.
ReadOwner(p) ==
  /\ pc[p] = "owner"
  /\ \/ lock \in written /\ owner' = [owner EXCEPT ![p] = lock] /\ Goto(p, "probe")
     \/ /\ lock \notin {q \in written : Alive(q)}
        /\ UNCHANGED owner /\ Goto(p, "unlink")
  /\ UNCHANGED <<tries, lock, written, expired, socket>>

\* Whoever runs under the recorded number keeps the lock for good.
HeldByNumber(q) == TRUE

\* Without a socket the lock is respected for 30 seconds only.
Held(q) == Connects \/ q \notin expired

Probe(p) ==
  /\ pc[p] = "probe"
  /\ IF Held(owner[p]) THEN Goto(p, "yielded") ELSE Goto(p, "unlink")
  /\ UNCHANGED <<tries, owner, lock, written, expired, socket>>

Unlink(p) ==
  /\ pc[p] = "unlink"
  /\ lock' = None
  /\ tries' = [tries EXCEPT ![p] = @ + 1]
  /\ Goto(p, IF tries[p] + 1 < Tries THEN "open" ELSE "failed")
  /\ UNCHANGED <<owner, written, expired, socket>>

-----------------------------------------------------------------------------
(* main                                                                     *)

Check(p) ==
  /\ pc[p] = "check"
  /\ Goto(p, IF Connects THEN "release" ELSE "remove")
  /\ UNCHANGED <<tries, owner, lock, written, expired, socket>>

\* removeStaleSocket
Remove(p) ==
  /\ pc[p] = "remove"
  /\ socket' = None
  /\ Goto(p, "initialize")
  /\ UNCHANGED <<tries, owner, lock, written, expired>>

\* service.initialize resumes the worker.
Initialize(p) ==
  /\ pc[p] = "initialize"
  /\ Goto(p, "listen")
  /\ UNCHANGED <<tries, owner, lock, written, expired, socket>>

Listen(p) ==
  /\ pc[p] = "listen"
  /\ IF socket = None THEN socket' = p /\ Goto(p, "serving")
                      ELSE UNCHANGED socket /\ Goto(p, "release")
  /\ UNCHANGED <<tries, owner, lock, written, expired>>

Fail(p) ==
  /\ pc[p] \in {"check", "remove", "initialize"}
  /\ Goto(p, "release")
  /\ UNCHANGED <<tries, owner, lock, written, expired, socket>>

\* The signal handler: server.close removes the path it was bound to.
Terminate(p) ==
  /\ pc[p] = "serving"
  /\ socket' = None
  /\ Goto(p, "drain")
  /\ UNCHANGED <<tries, owner, lock, written, expired>>

\* Connections end, then the agent runner and the service stop.
Drain(p) ==
  /\ pc[p] = "drain"
  /\ Goto(p, "cleanup")
  /\ UNCHANGED <<tries, owner, lock, written, expired, socket>>

\* cleanupDaemonFiles removes the socket path, whoever bound it.
Cleanup(p) ==
  /\ pc[p] = "cleanup"
  /\ socket' = None
  /\ Goto(p, "release")
  /\ UNCHANGED <<tries, owner, lock, written, expired>>

\* releaseDaemonLock compares the file with its own, then removes the path.
Release(p) ==
  /\ pc[p] = "release"
  /\ Goto(p, IF lock = p THEN "unlock" ELSE "gone")
  /\ UNCHANGED <<tries, owner, lock, written, expired, socket>>

Unlock(p) ==
  /\ pc[p] = "unlock"
  /\ lock' = None
  /\ Goto(p, "gone")
  /\ UNCHANGED <<tries, owner, written, expired, socket>>

-----------------------------------------------------------------------------
Step(p) ==
  \/ Open(p) \/ Write(p) \/ ReadOwner(p) \/ Probe(p) \/ Unlink(p)
  \/ Check(p) \/ Remove(p) \/ Initialize(p) \/ Listen(p)
  \/ Drain(p) \/ Cleanup(p) \/ Release(p) \/ Unlock(p)

Next ==
  \E p \in Daemon :
    Start(p) \/ Step(p) \/ WriteFails(p) \/ Fail(p) \/ Terminate(p) \/ Crash(p) \/ Expire(p)

Spec == Init /\ [][Next]_vars

\* The operating system runs every process.
FairSpec == Spec /\ \A p \in Daemon : WF_vars(Step(p))

-----------------------------------------------------------------------------
(* Properties.                                                              *)

(***************************************************************************)
(* A daemon that serves is the one the lock file and the socket path name: *)
(* the desktop reaches it and no other daemon takes its place, whatever    *)
(* files crashed, failed or stopped daemons left.                          *)
(***************************************************************************)
ServingOwnsPaths == \A p \in Daemon : pc[p] = "serving" => lock = p /\ socket = p

(***************************************************************************)
(* Files a dead daemon left do not keep the next one out: once they are 30 *)
(* seconds old it serves unless it fails or is stopped, even if the        *)
(* process number in the lock file is in use again.                        *)
(***************************************************************************)
LeftoversDoNotBlock ==
  \A p \in Daemon :
    pc[p] = "open" /\ (lock = None \/ lock \in expired) ~> pc[p] \in {"serving", "gone"}

(***************************************************************************)
(* Only sockets that cannot be reached are removed: the path of a daemon   *)
(* that goes on serving stays where it is.                                 *)
(***************************************************************************)
LiveSocketNeverRemoved ==
  [][\A p \in Daemon :
       socket = p /\ pc[p] = "serving" /\ pc'[p] = "serving" => socket' = p]_vars

-----------------------------------------------------------------------------
(* The inductive strengthening of ServingOwnsPaths where the manager waits  *)
(* for the previous process to be gone: one process is alive, and what it   *)
(* created stays at its path.                                               *)

OneAlive == \A p, q \in Daemon : Alive(p) /\ Alive(q) => p = q

PathsInv ==
  /\ OneAlive
  /\ \A p \in Daemon :
       /\ pc[p] \in Starting \cup {"serving"} => lock = p
       /\ pc[p] = "serving" => socket = p
=============================================================================
