SPECIFICATION ServicesSpec
CONSTANTS
  d1 = d1
  d2 = d2
  d3 = d3
  Daemon = {d1, d2, d3}
  None = None
  Tries = 3
  Launch = "removal"
  MaxLaunches = 3
  MaxVersion = 3
  MaxConns = 3
  s1 = s1
  s2 = s2
  Scope = {s1, s2}
  k1 = k1
  k2 = k2
  Key = {k1, k2}
  NoKey = NoKey
  m1 = m1
  Mutation = {m1}
  t1 = t1
  t2 = t2
  Test = {t1, t2}
  r1 = r1
  r2 = r2
  r3 = r3
  Req = {r1, r2, r3}
  NoReq = NoReq
  c1 = c1
  c2 = c2
  Draft = {d1, d2}
  Confirm = {c1, c2}
  MaxCreates = 2
INVARIANTS ServicesTypeOK ServingOwnsPaths DetachedIsMarked OneStream StreamCatchesUp
  StaleKeyNeverUsed AnsweredSavesStand NothingLeftRunning LogoutWins NewestAnswerShown OneRequirement
PROPERTIES LeftoversDoNotBlock RunnerShutdownEnds
CHECK_DEADLOCK FALSE
