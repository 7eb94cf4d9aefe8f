SPECIFICATION FairSpec
CONSTANTS
  r1 = r1
  c1 = c1
  c2 = c2
  s1 = s1
  s2 = s2
  Id = {r1}
  Setting = {s1, s2}
  Default = s1
  MaxAttempts = 2
  Now = 2
  Caller = {c1, c2}
  EarlyReplies <- Copies
INVARIANTS StorageTypeOK
PROPERTIES NoSendForgotten ImplementsStateStore CallsAnswered
CHECK_DEADLOCK FALSE
