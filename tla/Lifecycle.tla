----------------------------- MODULE Lifecycle -----------------------------
(***************************************************************************)
(* When the automatic-reply worker runs: the timer, the run in progress    *)
(* and the lifecycle queue of src/main/core/worker.ts (initialize, start,  *)
(* stop, reschedule, suspendForShutdown, runOnce), the saves of            *)
(* src/main/core/service.ts and the shutdown of src/daemon/index.ts.       *)
(*                                                                         *)
(* The daemon has one event loop.  The database driver is synchronous, so  *)
(* what one event starts goes on, commit after commit, until everything    *)
(* waits for a connector or for the run in progress; only then is the next *)
(* event taken (Quiet).  The process may end between any two commits.      *)
(***************************************************************************)
EXTENDS Sequences, Naturals

CONSTANTS
  MaxQueue,      \* bound of the model: lifecycle operations waiting at once
  StartupCrash   \* whether the process may end while it starts

ASSUME LifecycleAssumption == MaxQueue \in Nat \ {0} /\ StartupCrash \in BOOLEAN

VARIABLES
  \* persisted
  intent,      \* runtime.running
  processing,  \* runtime.processing
  config,      \* the reply policy's switch, and whether a group is enabled
  \* in memory
  up,          \* where the process is
  timer,       \* the polling timer is installed
  run,         \* stage of activeRun
  copy,        \* runtime.running as the run read it
  queue,       \* lifecycleQueue: the first operation is being executed
  waiting,     \* the first operation waits for activeRun
  \* what the operator asked for
  asked,       \* the last command: start or stop
  answered     \* it was carried out

persisted == <<intent, processing, config>>
memory == <<timer, run, copy, queue, waiting>>
operator == <<asked, answered>>
vars == <<persisted, up, memory, operator>>

Config == [enabled : BOOLEAN, groups : BOOLEAN]

\* "off" is the stop that ends a save, the others carry their own names.
Operation == {"start", "stop", "off", "reschedule", "suspend"}

QueueOK == queue \in Seq(Operation) /\ Len(queue) <= MaxQueue + 1

TypeOK ==
  /\ intent \in BOOLEAN /\ processing \in BOOLEAN /\ config \in Config
  /\ up \in {"down", "starting", "resuming", "serving", "stopping", "suspending"}
  /\ timer \in BOOLEAN /\ run \in {"none", "begin", "mark", "io", "end", "close"}
  /\ copy \in BOOLEAN /\ waiting \in BOOLEAN
  /\ asked \in {"none", "start", "stop"} /\ answered \in BOOLEAN
  /\ QueueOK

Init ==
  /\ intent = FALSE /\ processing = FALSE /\ config \in Config
  /\ up = "down" /\ timer = FALSE /\ run = "none" /\ copy = FALSE
  /\ queue = <<>> /\ waiting = FALSE
  /\ asked = "none" /\ answered = FALSE

Allows(c) == c.enabled /\ c.groups

Has(s, ops) == \E i \in DOMAIN s : s[i] \in ops

Queued(ops) == Has(queue, ops)

\* Nothing is left to do before the next event.
Quiet ==
  /\ up \notin {"down", "starting"}
  /\ run \in {"none", "io"}
  /\ queue = <<>> \/ (waiting /\ run = "io")

-----------------------------------------------------------------------------
(* The lifecycle queue.                                                     *)

Executing(ops) == queue # <<>> /\ Head(queue) \in ops

\* The first operation is done; its answer counts if the operator has asked
\* for nothing else meanwhile.
Answers(op) == asked = op /\ ~Has(Tail(queue), {"start", "stop"})

Done == queue' = Tail(queue) /\ waiting' = FALSE

Launch == run' = IF run = "none" THEN "begin" ELSE run

Start ==
  /\ Executing({"start"})
  /\ \/ /\ ~timer /\ Allows(config)
        /\ intent' = TRUE /\ processing' = FALSE
        /\ timer' = TRUE /\ Launch
        /\ answered' = (answered \/ Answers("start"))
        /\ UNCHANGED asked
     \/ /\ timer
        /\ answered' = (answered \/ Answers("start"))
        /\ UNCHANGED <<intent, processing, timer, run, asked>>
     \/ /\ ~timer /\ ~Allows(config)
        /\ asked' = IF Answers("start") THEN "none" ELSE asked
        /\ answered' = (answered /\ ~Answers("start"))
        /\ UNCHANGED <<intent, processing, timer, run>>
  /\ Done
  /\ UNCHANGED <<config, up, copy>>

\* stop, suspendForShutdown and a reschedule that finds the policy off clear
\* the timer and wait for the run in progress.
Halting(op) ==
  \/ op \in {"stop", "off", "suspend"}
  \/ op = "reschedule" /\ timer /\ ~Allows(config)

ClearTimer ==
  /\ queue # <<>> /\ ~waiting /\ Halting(Head(queue))
  /\ timer' = FALSE /\ waiting' = TRUE
  /\ UNCHANGED <<persisted, up, run, copy, queue, operator>>

Stop ==
  /\ waiting /\ run = "none" /\ Executing({"stop", "off", "reschedule"})
  /\ intent' = FALSE /\ processing' = FALSE
  /\ answered' = (answered \/ Answers("stop"))
  /\ Done
  /\ UNCHANGED <<config, up, timer, run, copy, asked>>

\* The old timer is cleared and no new one installed.
RescheduleDropsTimer ==
  /\ Executing({"reschedule"}) /\ ~waiting
  /\ timer' = FALSE /\ intent' = (intent \/ timer)
  /\ Done
  /\ UNCHANGED <<processing, config, up, run, copy, operator>>

Reschedule ==
  /\ Executing({"reschedule"}) /\ ~waiting
  /\ \/ /\ timer /\ Allows(config)
        /\ intent' = TRUE
     \/ /\ ~timer
        /\ UNCHANGED intent
  /\ Done
  /\ UNCHANGED <<processing, config, up, timer, run, copy, operator>>

\* The process ends with what it had in memory.
Gone ==
  /\ up' = "down" /\ timer' = FALSE /\ run' = "none" /\ copy' = FALSE
  /\ queue' = <<>> /\ waiting' = FALSE

\* A shutdown is a stop.
SuspendAsStop ==
  /\ waiting /\ run = "none" /\ Executing({"suspend"})
  /\ intent' = FALSE /\ processing' = FALSE
  /\ Gone
  /\ UNCHANGED <<config, operator>>

\* The intent to poll survives a shutdown; the database is closed after it.
Suspend ==
  /\ waiting /\ run = "none" /\ Executing({"suspend"})
  /\ processing' = FALSE
  /\ Gone
  /\ UNCHANGED <<intent, config, operator>>

-----------------------------------------------------------------------------
(* A run (executeRun) copies the intent twice: it reads the document, and   *)
(* writes what it read with the next update.                                *)

RunBegins ==
  /\ run = "begin"
  /\ copy' = intent /\ run' = "mark"
  /\ UNCHANGED <<persisted, up, timer, queue, waiting, operator>>

\* A run declares the worker running.
RunMarksRunning ==
  /\ run = "mark"
  /\ intent' = TRUE /\ processing' = TRUE
  /\ run' = IF Allows(config) THEN "io" ELSE "end"
  /\ UNCHANGED <<config, up, timer, copy, queue, waiting, operator>>

\* With the policy off or no group there is nothing to fetch.
RunMarks ==
  /\ run = "mark"
  /\ intent' = copy /\ processing' = TRUE
  /\ run' = IF Allows(config) THEN "io" ELSE "end"
  /\ UNCHANGED <<config, up, timer, copy, queue, waiting, operator>>

\* The answer of the last connector call arrives.
Fetched ==
  /\ Quiet /\ run = "io"
  /\ run' = "end"
  /\ UNCHANGED <<persisted, up, timer, copy, queue, waiting, operator>>

RunEnds ==
  /\ run = "end"
  /\ copy' = intent /\ run' = "close"
  /\ UNCHANGED <<persisted, up, timer, queue, waiting, operator>>

\* A run that finds the policy off awaits a stop of the worker.
RunStopsWorker ==
  /\ run = "close"
  /\ intent' = copy /\ processing' = FALSE
  /\ run' = IF Allows(config) THEN "none" ELSE "close"
  /\ queue' = IF Allows(config) \/ Queued({"off"}) THEN queue ELSE Append(queue, "off")
  /\ UNCHANGED <<config, up, timer, copy, waiting, operator>>

RunCloses ==
  /\ run = "close"
  /\ intent' = copy /\ processing' = FALSE
  /\ run' = "none"
  /\ UNCHANGED <<config, up, timer, copy, queue, waiting, operator>>

-----------------------------------------------------------------------------
(* Events.                                                                  *)

TimerFires ==
  /\ Quiet /\ timer
  /\ Launch
  /\ UNCHANGED <<persisted, up, timer, copy, queue, waiting, operator>>

\* A request that came in before the signal is still served.
Connected == up \in {"serving", "stopping"}

RunOnce ==
  /\ Quiet /\ Connected
  /\ Launch
  /\ UNCHANGED <<persisted, up, timer, copy, queue, waiting, operator>>

Command(op) ==
  /\ Quiet /\ Connected /\ Len(queue) < MaxQueue
  /\ queue' = Append(queue, op)
  /\ asked' = op /\ answered' = FALSE
  /\ UNCHANGED <<persisted, up, timer, run, copy, waiting>>

\* Only the policy's own switch stops the worker.
PolicySwitchedOff(old, new) == old.enabled /\ ~new.enabled

\* The save switches polling off: not only the policy, also its last group.
SwitchedOff(old, new) == old.enabled /\ ~Allows(new)

(***************************************************************************)
(* saveConfig, one at a time (configurationMutations): it writes the       *)
(* settings, then stops or reschedules the worker and waits for that.      *)
(* interval: the polling interval has changed.                             *)
(***************************************************************************)
SaveConfig(c, interval) ==
  /\ Quiet /\ Connected /\ Len(queue) < MaxQueue
  /\ ~Queued({"off", "reschedule"})
  /\ config' = c
  /\ queue' = IF SwitchedOff(config, c) THEN Append(queue, "off")
              ELSE IF interval THEN Append(queue, "reschedule") ELSE queue
  /\ asked' = IF SwitchedOff(config, c) THEN "none" ELSE asked
  /\ answered' = (answered /\ ~SwitchedOff(config, c))
  /\ UNCHANGED <<intent, processing, up, timer, run, copy, waiting>>

\* A second signal closes the server again.
TerminateAgain ==
  /\ Quiet
  /\ up' = "stopping"
  /\ UNCHANGED <<persisted, memory, operator>>

\* The signal handler closes the server; the timer still runs.
Terminate ==
  /\ Quiet /\ up = "serving"
  /\ up' = "stopping"
  /\ UNCHANGED <<persisted, memory, operator>>

\* The last connection is gone, perhaps before its request was answered.
ServerClosed ==
  /\ Quiet /\ up = "stopping"
  /\ up' = "suspending"
  /\ queue' = Append(queue, "suspend")
  /\ UNCHANGED <<persisted, timer, run, copy, waiting, operator>>

\* A crash, a signal before the handler is installed, or the exit forced ten
\* seconds after one.
Crash ==
  /\ up # "down" /\ (up \in {"starting", "resuming"} => StartupCrash)
  /\ Gone
  /\ UNCHANGED <<persisted, operator>>

-----------------------------------------------------------------------------
(* Starting the process (service.initialize, worker.initialize).            *)

Boot ==
  /\ up = "down"
  /\ up' = "starting"
  /\ UNCHANGED <<persisted, memory, operator>>

Initialize ==
  /\ up = "starting"
  /\ intent' = FALSE /\ processing' = FALSE
  /\ queue' = IF intent THEN <<"start">> ELSE <<>>
  /\ up' = "resuming"
  /\ UNCHANGED <<config, timer, run, copy, waiting, operator>>

\* A resumed start that fails leaves the worker stopped.
Listen ==
  /\ up = "resuming" /\ queue = <<>> /\ run \in {"none", "io"}
  /\ up' = "serving"
  /\ UNCHANGED <<persisted, memory, operator>>

-----------------------------------------------------------------------------
Execute ==
  \/ Start \/ ClearTimer \/ Stop \/ Reschedule \/ Suspend
  \/ RunBegins \/ RunMarks \/ RunEnds \/ RunCloses
  \/ Boot \/ Initialize \/ Listen

Events ==
  \/ Fetched \/ TimerFires \/ RunOnce
  \/ \E op \in {"start", "stop"} : Command(op)
  \/ \E c \in Config, interval \in BOOLEAN : SaveConfig(c, interval)
  \/ Terminate \/ ServerClosed \/ Crash

Next == Execute \/ Events

Spec == Init /\ [][Next]_vars

(***************************************************************************)
(* Fairness: the event loop carries out what it has begun, launchd starts  *)
(* the process again, a connector answers within its time limit however    *)
(* many other events come first, and the server's connections end.         *)
(***************************************************************************)
FairSpec == Spec /\ WF_vars(Execute) /\ SF_vars(Fetched) /\ SF_vars(ServerClosed)

-----------------------------------------------------------------------------
(* Properties.                                                              *)

(***************************************************************************)
(* While the daemon serves and nothing is under way, what it persisted and *)
(* what it does agree: runtime.running says whether the timer is there,    *)
(* although runs copy it and saves, commands and restarts all change it.   *)
(***************************************************************************)
SchedulerMatchesIntent ==
  up = "serving" /\ Quiet /\ queue = <<>> => (timer <=> intent)

(***************************************************************************)
(* The timer never outlives the settings that allow it, except until the   *)
(* stop its save asked for is executed; polling resumes after a restart    *)
(* only if the settings still allow it.                                    *)
(***************************************************************************)
SchedulerRespectsSettings ==
  timer => Allows(config) \/ Queued({"stop", "off"})

(***************************************************************************)
(* A stop that was answered is durable: no run still in progress, no save  *)
(* and no restart brings the scheduler back.                               *)
(***************************************************************************)
StopIsDurable == asked = "stop" /\ answered => ~timer /\ ~intent

(***************************************************************************)
(* A start that was answered is durable: until the operator stops it, the  *)
(* intent survives runs, saves, shutdowns and restarts.                    *)
(***************************************************************************)
StartIsDurable == asked = "start" /\ answered => intent \/ Queued({"start"})

(***************************************************************************)
(* The lifecycle queue does not block: a stop is answered, unless the      *)
(* operator changes his mind or the process ends.                          *)
(***************************************************************************)
StopIsAnswered ==
  asked = "stop" /\ Queued({"stop"}) ~> answered \/ asked # "stop" \/ up = "down"

(***************************************************************************)
(* A stop is final from the moment the operator asks for it.               *)
(***************************************************************************)
StopRequestIsFinal ==
  asked = "stop" /\ up = "serving" /\ Quiet /\ queue = <<>> => ~timer

-----------------------------------------------------------------------------
(***************************************************************************)
(* The inductive strengthening: the timer implies the intent, a waiting    *)
(* operation has cleared the timer, and what a run copied is what is there *)
(* when it writes, because operations beside it find the timer installed.  *)
(***************************************************************************)
WaitingInv ==
  waiting => /\ queue # <<>> /\ ~timer
             /\ Head(queue) \in {"stop", "off", "suspend", "reschedule"}
             /\ Head(queue) = "reschedule" => Queued({"stop", "off"})

ProcessInv ==
  /\ up \in {"down", "starting"} => ~timer /\ ~waiting /\ run = "none" /\ queue = <<>>
  /\ up # "suspending" => Len(queue) <= MaxQueue

RunInv ==
  /\ run \in {"mark", "close"} => copy = intent
  /\ run \notin {"none", "io"} => queue = <<>> \/ waiting \/ timer

IntentInv ==
  /\ timer => intent
  /\ asked = "stop" /\ answered => ~intent /\ ~Queued({"start"})

LifecycleInv ==
  TypeOK /\ WaitingInv /\ ProcessInv /\ RunInv /\ IntentInv /\ SchedulerRespectsSettings

(* Why an answered start survives: the stops still queued when it was asked *)
(* for come before it.                                                      *)
StartLast ==
  \A i \in DOMAIN queue :
    queue[i] \in {"stop", "off"} => \E j \in DOMAIN queue : j > i /\ queue[j] = "start"

StartInv ==
  asked = "start" =>
    /\ StartLast
    /\ answered => /\ ~Queued({"stop", "off"})
                   /\ intent \/ (up = "resuming" /\ queue = <<"start">>)
=============================================================================
