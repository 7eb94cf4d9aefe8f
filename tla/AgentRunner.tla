---------------------------- MODULE AgentRunner ----------------------------
(***************************************************************************)
(* Tests of the agent's configuration: the gate that lets one test run at  *)
(* a time (src/daemon/index.ts), the runner that executes it as a process  *)
(* group with a directory of its own (src/daemon/agent-runtime.ts), and    *)
(* the shutdown of both with the daemon.                                   *)
(*                                                                         *)
(* A group has its leader and at most one descendant at a time, which holds*)
(* the leader's pipes or has let go of them; descendants that leave the    *)
(* group are out of the code's reach and left out.  A process may ignore   *)
(* SIGTERM.  What the agent is asked and answers is left out, and so is    *)
(* how an executable is found and trusted.                                 *)
(***************************************************************************)
EXTENDS Naturals, FiniteSets

CONSTANT Test   \* test requests

VARIABLES
  tests,      \* each test request and the processes it has started
  cooling,    \* a test ended less than 30 seconds ago
  runner,     \* how far the shutdown of the runner is
  awaited,    \* runs the shutdown waits for
  daemon      \* the daemon's process

runnerVars == <<tests, cooling, runner, awaited, daemon>>

RunnerTypeOK ==
  /\ tests \in [Test -> [stage : {"idle", "checking", "trust", "prepare", "ready", "running",
                                  "removing"},
                         leader : {"none", "alive", "gone"},
                         child : {"none", "holding", "apart"},
                         timer : {"off", "set", "force"},
                         signalled : BOOLEAN]]
  /\ cooling \in BOOLEAN
  /\ runner \in {"up", "term", "kill", "done"}
  /\ awaited \subseteq Test
  /\ daemon \in {"up", "closing", "gone", "cut"}

NoTest == [stage |-> "idle", leader |-> "none", child |-> "none", timer |-> "off",
           signalled |-> FALSE]

RunnerInit ==
  /\ tests = [t \in Test |-> NoTest] /\ cooling = FALSE
  /\ runner = "up" /\ awaited = {} /\ daemon = "up"

\* The daemon is there to take the next step of a test.
At(t, stage) == daemon \in {"up", "closing"} /\ tests[t].stage = stage

ShuttingDown == runner # "up"
Active(t) == tests[t].stage \in {"trust", "prepare", "ready", "running", "removing"}
Registered(t) == tests[t].stage = "running"

Becomes(t, v) == tests' = [tests EXCEPT ![t] = v]

-----------------------------------------------------------------------------
(* killProcessTree, for the group of a test.                               *)

\* SIGTERM: a process that does not ignore it ends.
Terminated(v) ==
  {w \in [stage : {v.stage}, leader : {v.leader, "gone"}, child : {v.child, "none"},
          timer : {v.timer}, signalled : {TRUE}] : w.leader = "gone" => v.leader # "none"}

Killed(v) == [v EXCEPT !.leader = "gone", !.child = "none", !.signalled = TRUE]

-----------------------------------------------------------------------------
(* The gate, and what is checked before the run.                           *)

\* The test is refused while another one runs or one has just ended.
TestBegins(t) ==
  /\ daemon \in {"up", "closing"} /\ tests[t] = NoTest
  /\ \A u \in Test : tests[u].stage = "idle"
  /\ ~cooling
  /\ tests' = [tests EXCEPT ![t].stage = "checking"]
  /\ UNCHANGED <<cooling, runner, awaited, daemon>>

\* However the test ends, the gate is released and the cooldown begins.
Released(t, v) ==
  /\ Becomes(t, [v EXCEPT !.stage = "idle", !.timer = "off"])
  /\ cooling' = TRUE /\ awaited' = awaited \ {t}
  /\ UNCHANGED <<runner, daemon>>

\* The configuration is off, its runtime does not answer (probe), or its key
\* cannot be read.
CheckFails(t) == At(t, "checking") /\ Released(t, tests[t])

CooldownEnds ==
  /\ cooling /\ cooling' = FALSE
  /\ UNCHANGED <<tests, runner, awaited, daemon>>

Accepted == ~ShuttingDown

RunBegins(t) ==
  /\ At(t, "checking") /\ Accepted
  /\ tests' = [tests EXCEPT ![t].stage = "trust"]
  /\ UNCHANGED <<cooling, runner, awaited, daemon>>

RunRefused(t) == At(t, "checking") /\ ~Accepted /\ Released(t, tests[t])

-----------------------------------------------------------------------------
(* executeRun.                                                             *)

\* The executable is not the one that was verified, or no directory can be made.
TrustFails(t) == At(t, "trust") /\ Released(t, tests[t])

DirectoryMade(t) ==
  /\ At(t, "trust") /\ tests' = [tests EXCEPT ![t].stage = "prepare"]
  /\ UNCHANGED <<cooling, runner, awaited, daemon>>

GivesUp(t) ==
  /\ tests' = [tests EXCEPT ![t].stage = "removing"]
  /\ UNCHANGED <<cooling, runner, awaited, daemon>>

\* prepareRuntimeConfiguration
ConfigurationWritten(t) ==
  /\ At(t, "prepare") /\ tests' = [tests EXCEPT ![t].stage = "ready"]
  /\ UNCHANGED <<cooling, runner, awaited, daemon>>

\* The request is incomplete or its configuration cannot be written.
ConfigurationFails(t) == At(t, "prepare") /\ GivesUp(t)

\* No trusted executable is found, or it cannot be started.
ExecutableRefused(t) == At(t, "ready") /\ GivesUp(t)

\* A child that is registered while the runner shuts down is signalled at once.
Spawns(t) ==
  LET v == [tests[t] EXCEPT !.stage = "running", !.leader = "alive", !.timer = "set"]
  IN /\ At(t, "ready")
     /\ \E w \in IF ShuttingDown THEN Terminated(v) ELSE {v} : Becomes(t, w)
     /\ UNCHANGED <<cooling, runner, awaited, daemon>>

LeaderForks(t) ==
  /\ tests[t].leader = "alive" /\ tests[t].child = "none"
  /\ \E c \in {"holding", "apart"} : tests' = [tests EXCEPT ![t].child = c]
  /\ UNCHANGED <<cooling, runner, awaited, daemon>>

ProcessEnds(t) ==
  /\ \/ tests[t].leader = "alive" /\ tests' = [tests EXCEPT ![t].leader = "gone"]
     \/ tests[t].child # "none" /\ tests' = [tests EXCEPT ![t].child = "none"]
  /\ UNCHANGED <<cooling, runner, awaited, daemon>>

\* SIGTERM is all there is to a time limit.
NeverForced == "off"

\* SIGKILL is to follow SIGTERM a second later.
ThenForced == "force"

TimerFires(t) ==
  /\ At(t, "running") /\ tests[t].timer = "set"
  /\ \E w \in Terminated(tests[t]) : Becomes(t, [w EXCEPT !.timer = ThenForced])
  /\ UNCHANGED <<cooling, runner, awaited, daemon>>

ForceKillTimerFires(t) ==
  /\ At(t, "running") /\ tests[t].timer = "force"
  /\ Becomes(t, [Killed(tests[t]) EXCEPT !.timer = "off"])
  /\ UNCHANGED <<cooling, runner, awaited, daemon>>

TimedOut(v) == v.timer # "set"

\* The group is not looked at again.
NotSwept(v) == v

\* The final sweep, after a time limit or in a shutdown.
Swept(v) == IF TimedOut(v) \/ ShuttingDown THEN Killed(v) ELSE v

\* The leader has ended and nobody holds its pipes.
Closes(t) ==
  /\ At(t, "running") /\ tests[t].leader = "gone" /\ tests[t].child # "holding"
  /\ Becomes(t, [Swept(tests[t]) EXCEPT !.stage = "removing", !.timer = "off"])
  /\ UNCHANGED <<cooling, runner, awaited, daemon>>

DirectoryRemoved(t) ==
  /\ At(t, "removing")
  /\ Released(t, IF tests[t].child = "none" THEN NoTest ELSE tests[t])

-----------------------------------------------------------------------------
(* shutdown of the daemon and performShutdown of the runner.               *)

\* signalActiveChildren
SignalledAll ==
  LET outcomes(t) == IF Registered(t) THEN Terminated(tests[t]) ELSE {tests[t]}
  IN {f \in [Test -> UNION {outcomes(t) : t \in Test}] : \A t \in Test : f[t] \in outcomes(t)}

ShutdownBegins ==
  /\ daemon = "up" /\ daemon' = "closing"
  /\ tests' \in SignalledAll
  /\ awaited' = {t \in Test : Active(t)}
  /\ runner' = IF awaited' = {} THEN "done" ELSE "term"
  /\ UNCHANGED cooling

\* A second later, what is still registered is killed.
SecondPasses ==
  /\ daemon = "closing" /\ runner = "term" /\ runner' = "kill"
  /\ tests' = [t \in Test |-> IF Registered(t) THEN Killed(tests[t]) ELSE tests[t]]
  /\ UNCHANGED <<cooling, awaited, daemon>>

RunsSettled ==
  /\ daemon = "closing" /\ runner \in {"term", "kill"} /\ awaited = {}
  /\ runner' = "done"
  /\ UNCHANGED <<tests, cooling, awaited, daemon>>

\* The last request is answered and the runner is done.
DaemonExits ==
  /\ daemon = "closing" /\ runner = "done"
  /\ \A t \in Test : tests[t].stage = "idle"
  /\ daemon' = "gone"
  /\ UNCHANGED <<tests, cooling, runner, awaited>>

\* Ten seconds have passed.
DaemonCutOff ==
  /\ daemon = "closing" /\ runner # "term" /\ daemon' = "cut"
  /\ UNCHANGED <<tests, cooling, runner, awaited>>

RunnerNext ==
  \/ CooldownEnds \/ ShutdownBegins \/ SecondPasses \/ RunsSettled
  \/ DaemonExits \/ DaemonCutOff
  \/ \E t \in Test :
       \/ TestBegins(t) \/ CheckFails(t) \/ RunBegins(t) \/ RunRefused(t)
       \/ TrustFails(t) \/ DirectoryMade(t) \/ ConfigurationWritten(t)
       \/ ConfigurationFails(t) \/ ExecutableRefused(t) \/ Spawns(t)
       \/ LeaderForks(t) \/ ProcessEnds(t) \/ TimerFires(t) \/ ForceKillTimerFires(t)
       \/ Closes(t) \/ DirectoryRemoved(t)

\* Timers fire and what the runner awaits by itself goes on; the processes of an
\* agent need not ever end.
RunnerFairness ==
  /\ WF_runnerVars(SecondPasses) /\ WF_runnerVars(RunsSettled)
  /\ \A t \in Test :
       /\ WF_runnerVars(DirectoryMade(t) \/ TrustFails(t))
       /\ WF_runnerVars(ConfigurationWritten(t) \/ ConfigurationFails(t))
       /\ WF_runnerVars(Spawns(t) \/ ExecutableRefused(t))
       /\ WF_runnerVars(TimerFires(t)) /\ WF_runnerVars(ForceKillTimerFires(t))
       /\ WF_runnerVars(Closes(t)) /\ WF_runnerVars(DirectoryRemoved(t))

RunnerSpec == RunnerInit /\ [][RunnerNext]_runnerVars /\ RunnerFairness

-----------------------------------------------------------------------------
(* Properties.                                                             *)

\* A run that was cut short leaves no process behind once it has settled, not
\* even a descendant forked after the signal; when the runner has shut down no
\* run is under way and no leader lives.  Only descendants of runs that ended by
\* themselves may stay.
NothingLeftRunning ==
  daemon # "cut" =>
    \A t \in Test :
      /\ tests[t].stage \in {"idle", "removing"} =>
           /\ tests[t].leader # "alive"
           /\ tests[t].signalled => tests[t].child = "none"
      /\ runner = "done" => ~Active(t) /\ tests[t].leader # "alive"

\* The shutdown of the runner ends by itself whatever the agent's processes do:
\* also when the agent is started after the running ones were killed, ignores
\* SIGTERM and leaves a descendant that holds its pipes.
RunnerShutdownEnds == runner = "term" ~> runner = "done" \/ daemon = "cut"
=============================================================================
