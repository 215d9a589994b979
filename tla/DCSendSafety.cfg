SPECIFICATION Spec
CONSTANTS
  s1 = s1
  s2 = s2
  Sessions <- TwoSessions
  Tuners = {}
  Reaper = reaper
  None = none
  QueueDepth = 2
  Thresholds = {0}
  InitThreshold = 0
  MaxSends <- TwoAndOneSends
  MaxTunes = 0
INVARIANTS
  TypeOK
  NeverAnsweredTwice
  NoRequestLost
  NoStrandedWork
  SendOrder
  ClosedBeforeSendIsUnsent
  AckAfterDrain
CHECK_DEADLOCK FALSE
