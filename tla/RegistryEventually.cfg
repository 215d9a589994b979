SPECIFICATION FairSpec
CONSTANTS
  PCs = {p1}
  DCs = {d1}
  Sessions = {s1}
  Callbacks = {c1}
  Sweeper = sweeper
  Requests = {"createDc", "pcClose", "delete", "other"}
  MaxAge = 0
  Coalesce = 0
  None = none
PROPERTIES
  ExpiredIsSettled
  RemovedIsClosed
CHECK_DEADLOCK FALSE
