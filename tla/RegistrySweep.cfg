SPECIFICATION SweepSpec
CONSTANTS
  PCs = {p1}
  DCs = {d1}
  Sessions = {s1}
  Callbacks = {c1}
  Sweeper = sweeper
  Requests = {"delete"}
  MaxAge = 2
  Coalesce = 1
  None = none
INVARIANTS
  ActiveNotReaped
  SteadyNotReaped
CHECK_DEADLOCK FALSE
