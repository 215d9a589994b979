SPECIFICATION Spec
CONSTANTS
  PCs = {p1}
  DCs = {d1}
  Sessions = {s1}
  Callbacks = {}
  Sweeper = sweeper
  Requests = {"other"}
  MaxAge = 1
  Coalesce = 0
  None = none
PROPERTIES
  ConnectedNotReaped
CHECK_DEADLOCK FALSE
