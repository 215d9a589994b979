SPECIFICATION FairSpec
CONSTANTS
  PCs = {p1}
  DCs = {d1}
  Sessions = {s1}
  Callbacks = {c1}
  Sweeper = sweeper
  Requests = {"delete"}
  MaxAge = 1
  Coalesce = 0
  None = none
PROPERTIES
  SenderEndsWithChannel
CHECK_DEADLOCK FALSE
