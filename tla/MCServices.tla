----------------------------- MODULE MCServices -----------------------------
(***************************************************************************)
(* Finite instances, for TLC, of the parts of the daemon and the desktop   *)
(* around the worker.  They share no state, so a behaviour takes the steps *)
(* of one of them, and the others stay as they begin.                      *)
(***************************************************************************)
EXTENDS DaemonLock, DesktopStart, EventStream, AgentConfiguration, AgentRunner,
        Identity, RequirementDrafts

CONSTANTS d1, d2, d3, s1, s2, k1, k2, m1, t1, t2, r1, r2, r3, c1, c2

VARIABLE part

allVars == <<part, vars, deskVars, streamVars, agentVars, runnerVars, identityVars, draftVars>>

Parts == {"lock", "desk", "stream", "agent", "runner", "identity", "drafts"}

ServicesInit ==
  /\ part \in Parts
  /\ Init /\ DeskInit /\ StreamInit /\ AgentInit /\ RunnerInit /\ IdentityInit /\ DraftsInit
  /\ part # "desk" => ~restricted
  /\ part # "agent" => settings.scope = s1
  /\ part # "identity" => session = "out"

ServicesNext ==
  \/ part = "lock" /\ Next
     /\ UNCHANGED <<part, deskVars, streamVars, agentVars, runnerVars, identityVars, draftVars>>
  \/ part = "desk" /\ DeskNext
     /\ UNCHANGED <<part, vars, streamVars, agentVars, runnerVars, identityVars, draftVars>>
  \/ part = "stream" /\ StreamNext
     /\ UNCHANGED <<part, vars, deskVars, agentVars, runnerVars, identityVars, draftVars>>
  \/ part = "agent" /\ AgentNext
     /\ UNCHANGED <<part, vars, deskVars, streamVars, runnerVars, identityVars, draftVars>>
  \/ part = "runner" /\ RunnerNext
     /\ UNCHANGED <<part, vars, deskVars, streamVars, agentVars, identityVars, draftVars>>
  \/ part = "identity" /\ IdentityNext
     /\ UNCHANGED <<part, vars, deskVars, streamVars, agentVars, runnerVars, draftVars>>
  \/ part = "drafts" /\ DraftsNext
     /\ UNCHANGED <<part, vars, deskVars, streamVars, agentVars, runnerVars, identityVars>>

\* The operating system runs every process; the runner's timers fire.
ServicesSpec ==
  /\ ServicesInit /\ [][ServicesNext]_allVars
  /\ \A p \in Daemon : WF_vars(Step(p))
  /\ RunnerFairness

\* Every part keeps the types of its variables.
ServicesTypeOK ==
  /\ TypeOK /\ DeskTypeOK /\ StreamTypeOK /\ AgentTypeOK /\ RunnerTypeOK
  /\ IdentityTypeOK /\ DraftsTypeOK
=============================================================================
