---------------------------- MODULE DesktopStart ---------------------------
(***************************************************************************)
(* How the packaged desktop makes sure that a daemon of its own build runs *)
(* (src/main/daemon-manager.ts, ensureRunning): it installs the daemon as a*)
(* job of launchd, or, where launchd is denied to it, starts it detached   *)
(* and leaves a marker, so that the next launch tries launchd again.       *)
(*                                                                         *)
(* At most one daemon serves (module DaemonLock); a daemon that is started *)
(* while another serves, or while a young one drains, ends at once.  The   *)
(* token and the contents of the job are left out, and so is the desktop   *)
(* that is not packaged.                                                   *)
(***************************************************************************)
EXTENDS Naturals

CONSTANT MaxLaunches   \* bound of the model: launches of the desktop

ASSUME LaunchesAssumption == MaxLaunches \in Nat

VARIABLES
  daemonBy,    \* who started the daemon that runs, or "nobody"
  current,     \* it is of the desktop's build
  phase,       \* it serves, was told to shut down, or has closed its socket
  young,       \* it was started less than 30 seconds ago
  job,         \* the job launchd has
  marker,      \* launchd-fallback
  restricted,  \* the desktop is denied launchd
  desk,        \* the step of ensureRunning
  launches,    \* launches so far
  \* remembered for the properties only
  misjudged    \* a daemon that served was taken for absent

deskVars == <<daemonBy, current, phase, young, job, marker, restricted, desk, launches,
              misjudged>>

Present == daemonBy # "nobody"
Serves == Present /\ phase # "draining"

DeskTypeOK ==
  /\ daemonBy \in {"nobody", "launchd", "detached"}
  /\ phase \in {"serving", "told", "draining"}
  /\ {current, young, job, marker, restricted, misjudged} \subseteq BOOLEAN
  /\ desk \in {"off", "probe", "stop", "stopping", "install", "bootout", "removal",
               "bootstrap", "kickstart", "clear", "mark", "spawn", "wait"}
  /\ launches \in 0..MaxLaunches

DeskInit ==
  /\ daemonBy = "nobody" /\ current = FALSE /\ phase = "serving" /\ young = FALSE
  /\ job = FALSE /\ marker = FALSE /\ restricted \in BOOLEAN
  /\ desk = "off" /\ launches = 0 /\ misjudged = FALSE

DaemonUnchanged == UNCHANGED <<daemonBy, current, phase, young>>
RestUnchanged == UNCHANGED <<restricted, launches>>

-----------------------------------------------------------------------------
(* The daemon and its surroundings.                                        *)

\* A daemon is started; it ends at once when it must yield to another.
DaemonStartedBy(who) ==
  \/ /\ ~Serves /\ (Present => ~young)
     /\ daemonBy' = who /\ current' = TRUE /\ phase' = "serving" /\ young' = TRUE
  \/ (Serves \/ (Present /\ young)) /\ DaemonUnchanged

DaemonAges ==
  /\ young /\ young' = FALSE
  /\ UNCHANGED <<daemonBy, current, phase, job, marker, desk, misjudged>> /\ RestUnchanged

\* launchd starts a job again that ended with a failure, and after a login.
DaemonGone ==
  /\ Present
  /\ \/ daemonBy' = "nobody" /\ current' = FALSE /\ young' = FALSE
     \/ daemonBy = "launchd" /\ Serves /\ job /\ young' = TRUE /\ UNCHANGED <<daemonBy, current>>
  /\ phase' = "serving"
  /\ UNCHANGED <<job, marker, desk, misjudged>> /\ RestUnchanged

\* The daemon that was told to shut down closes its socket and finishes its work.
DaemonDrains ==
  /\ Present /\ phase = "told" /\ phase' = "draining"
  /\ UNCHANGED <<daemonBy, current, young, job, marker, desk, misjudged>> /\ RestUnchanged

RestrictionChanges ==
  /\ desk = "off" /\ restricted' = ~restricted
  /\ UNCHANGED <<job, marker, desk, launches, misjudged>> /\ DaemonUnchanged

\* The application is replaced: the daemon that runs is of an older build.
ApplicationUpdated ==
  /\ desk = "off" /\ Serves /\ current /\ current' = FALSE
  /\ UNCHANGED <<daemonBy, phase, young, job, marker, desk, misjudged>> /\ RestUnchanged

-----------------------------------------------------------------------------
(* ensureRunning.                                                          *)

DesktopStarts ==
  /\ desk = "off" /\ launches < MaxLaunches
  /\ desk' = "probe" /\ launches' = launches + 1
  /\ UNCHANGED <<job, marker, restricted, misjudged>> /\ DaemonUnchanged

\* The desktop ends, or ensureRunning fails at a step.
DesktopEnds ==
  /\ desk # "off" /\ desk' = "off"
  /\ UNCHANGED <<job, marker, misjudged>> /\ RestUnchanged /\ DaemonUnchanged

Then(step) == desk' = step /\ RestUnchanged

\* probeHealth and daemonRequiresPackagedDaemonRestart.  A daemon that does not
\* answer within a second counts as absent.
HealthProbed ==
  /\ desk = "probe"
  /\ \/ /\ Serves
        /\ Then(IF ~current \/ marker THEN "stop" ELSE "off") /\ UNCHANGED misjudged
     \/ Then("install") /\ misjudged' = (misjudged \/ Serves)
  /\ UNCHANGED <<job, marker>> /\ DaemonUnchanged

\* promoteFallbackDaemon: the daemon is asked to shut down, and must answer.
DaemonAskedToStop ==
  /\ desk = "stop" /\ Then("stopping")
  /\ Serves /\ phase' = "told"
  /\ UNCHANGED <<daemonBy, current, young, job, marker, misjudged>>

\* The next daemon is started as soon as the old one was told to stop.
ReplacedAtOnce == TRUE

\* waitForDaemonStop: its endpoint goes before the process does.
MayReplace == ~Serves

EndpointGone ==
  /\ desk = "stopping" /\ MayReplace /\ Then("install")
  /\ UNCHANGED <<job, marker, misjudged>> /\ DaemonUnchanged

\* installLaunchAgentWithPermissionFallback: the job cannot be written or loaded.
LaunchdDenied ==
  /\ desk \in {"install", "bootout", "bootstrap", "kickstart"} /\ restricted
  /\ Then("mark")
  /\ UNCHANGED <<job, marker, misjudged>> /\ DaemonUnchanged

LaunchAgentWritten ==
  /\ desk = "install" /\ ~restricted /\ Then("bootout")
  /\ UNCHANGED <<job, marker, misjudged>> /\ DaemonUnchanged

\* replaceLaunchAgentJob: launchd may report before the old process is gone.
BootedOut ==
  /\ desk = "bootout" /\ ~restricted /\ job' = FALSE
  /\ Then(IF job THEN "removal" ELSE "bootstrap")
  /\ IF daemonBy = "launchd" THEN phase' = "draining" ELSE UNCHANGED phase
  /\ UNCHANGED <<daemonBy, current, young, marker, misjudged>>

\* waitForLaunchAgentRemoval
JobRemoved ==
  /\ desk = "removal" /\ daemonBy # "launchd" /\ Then("bootstrap")
  /\ UNCHANGED <<job, marker, misjudged>> /\ DaemonUnchanged

\* launchd starts the job as it loads it (RunAtLoad).
Bootstrapped ==
  /\ desk = "bootstrap" /\ ~restricted /\ job' = TRUE /\ Then("kickstart")
  /\ DaemonStartedBy("launchd")
  /\ UNCHANGED <<marker, misjudged>>

\* enable, and kickstart -k, which ends the daemon of the job and starts another.
Kickstarted ==
  /\ desk = "kickstart" /\ ~restricted /\ Then("clear")
  /\ \/ /\ daemonBy = "launchd" /\ UNCHANGED daemonBy
        /\ current' = TRUE /\ phase' = "serving" /\ young' = TRUE
     \/ DaemonStartedBy("launchd")
  /\ UNCHANGED <<job, marker, misjudged>>

\* clearLaunchdFallbackMarker, then waitForDaemon.
FallbackCleared ==
  /\ desk = "clear" /\ marker' = FALSE /\ Then("wait")
  /\ UNCHANGED <<job, misjudged>> /\ DaemonUnchanged

\* writeLaunchdFallbackMarker, before the daemon is spawned.
FallbackMarked ==
  /\ desk = "mark" /\ marker' = TRUE /\ Then("spawn")
  /\ UNCHANGED <<job, misjudged>> /\ DaemonUnchanged

FallbackSpawned ==
  /\ desk = "spawn" /\ Then("wait") /\ DaemonStartedBy("detached")
  /\ UNCHANGED <<job, marker, misjudged>>

\* The daemon cannot be spawned.
FallbackNotSpawned ==
  /\ desk = "spawn" /\ marker' = FALSE /\ Then("off")
  /\ UNCHANGED <<job, misjudged>> /\ DaemonUnchanged

\* waitForDaemon
DesktopConnected ==
  /\ desk = "wait" /\ Serves /\ current /\ Then("off")
  /\ UNCHANGED <<job, marker, misjudged>> /\ DaemonUnchanged

DeskNext ==
  \/ DaemonAges \/ DaemonGone \/ DaemonDrains \/ RestrictionChanges \/ ApplicationUpdated
  \/ DesktopStarts \/ DesktopEnds \/ HealthProbed \/ DaemonAskedToStop \/ EndpointGone
  \/ LaunchdDenied \/ LaunchAgentWritten \/ BootedOut \/ JobRemoved \/ Bootstrapped
  \/ Kickstarted \/ FallbackCleared \/ FallbackMarked \/ FallbackSpawned
  \/ FallbackNotSpawned \/ DesktopConnected

DeskSpec == DeskInit /\ [][DeskNext]_deskVars

-----------------------------------------------------------------------------
(* Properties.                                                             *)

\* A detached daemon that serves is marked, so that a later launch of the desktop
\* brings it back under launchd, although launches may end or fail at any step;
\* unless a launch has taken a daemon that was slow to answer for absent.
DetachedIsMarked ==
  daemonBy = "detached" /\ Serves /\ ~misjudged => marker
=============================================================================
