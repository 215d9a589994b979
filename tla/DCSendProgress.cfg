SPECIFICATION FairSpec
CONSTANTS
  s1 = s1
  s2 = s2
  Sessions <- OneSession
  Tuners <- OneSession
  Reaper = reaper
  None = none
  QueueDepth = 1
  Thresholds = {0, 1}
  InitThreshold = 0
  MaxSends <- TwoSends
  MaxTunes = 1
INVARIANTS
  NoLostWakeup
PROPERTIES
  AnsweredWhileOpen
  WaitEndsWhenDrained
  ShutdownAnswersAll
  ShutdownEndsSender
  ImplementsService
CHECK_DEADLOCK FALSE
