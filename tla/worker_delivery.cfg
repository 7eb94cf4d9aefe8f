SPECIFICATION FairSpec
CONSTANTS
  m1 = m1
  m2 = m2
  g1 = g1
  g2 = g2
  None = None
  Msg = {m1}
  Group = {g1}
  GroupOf <- OneGroup
  Sender = {alice, bob}
  SenderOf <- OneSender
  Mentions = {m1}
  Own = {}
  Blank = {}
  Configs <- ShortLookback
  a1 = a1
  m3 = m3
  alice = alice
  bob = bob
  Answers = {a1}
  Window = 7
  Lease = 2
  Hour = 1
  Retention = 1
  FollowUp = 4
  Page = 3
  Stall = 1
  Flight = 1
  MaxAttempts = 2
  MaxFaults = 1
INVARIANTS TypeOK AtMostOnceDelivered OneRequestPerMessage AttemptsBounded
PROPERTIES KeepsPromise EveryRecordSettles
CHECK_DEADLOCK FALSE
