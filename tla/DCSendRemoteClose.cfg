SPECIFICATION FairSpec
CONSTANTS
  s1 = s1
  s2 = s2
  Sessions <- OneSession
  Tuners = {}
  Reaper = reaper
  None = none
  QueueDepth = 1
  Thresholds = {0}
  InitThreshold = 0
  MaxSends <- TwoSends
  MaxTunes = 0
PROPERTIES
  WaitEndsWhenClosed
CHECK_DEADLOCK FALSE
