SPECIFICATION Spec
CONSTANTS
  m1 = m1
  m2 = m2
  g1 = g1
  g2 = g2
  a1 = a1
  m3 = m3
  alice = alice
  bob = bob
  None = None
  Msg = {m1, m2}
  Group = {g1}
  GroupOf <- OneGroup
  Sender = {alice, bob}
  SenderOf <- OneSender
  Mentions = {m1, m2}
  Own = {}
  Blank = {}
  Configs <- Live
  Answers = {a1}
  Window = 3
  Lease = 1
  Hour = 1
  Retention = 1
  FollowUp = 2
  Page = 3
  Stall = 0
  Flight = 0
  MaxAttempts = 2
  MaxFaults = 0
INVARIANT HourlyReservation
PROPERTY ProtectedNeverEvicted
SYMMETRY Messages
CHECK_DEADLOCK FALSE
