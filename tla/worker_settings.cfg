SPECIFICATION Spec
CONSTANTS
  m1 = m1
  m2 = m2
  g1 = g1
  g2 = g2
  a1 = a1
  m3 = m3
  alice = alice
  bob = bob
  None = None
  Msg = {m1}
  Group = {g1, g2}
  GroupOf <- OneGroup
  Sender = {alice, bob}
  SenderOf <- OneSender
  Mentions = {m1}
  Own = {}
  Blank = {}
  Configs <- Switching
  Answers = {a1}
  Window = 2
  Lease = 1
  Hour = 1
  Retention = 1
  FollowUp = 1
  Page = 3
  Stall = 0
  Flight = 0
  MaxAttempts = 1
  MaxFaults = 0
PROPERTIES SendNeedsBothSettings KeepsPromise
CHECK_DEADLOCK FALSE
