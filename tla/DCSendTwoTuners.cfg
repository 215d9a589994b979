SPECIFICATION FairSpec
CONSTANTS
  s1 = s1
  s2 = s2
  Sessions <- TwoSessions
  Tuners <- TwoSessions
  Reaper = reaper
  None = none
  QueueDepth = 1
  Thresholds = {0, 1}
  InitThreshold = 0
  MaxSends <- OneAndNoSends
  MaxTunes = 2
PROPERTIES
  WaitEndsWhenDrained
CHECK_DEADLOCK FALSE
