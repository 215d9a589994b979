SPECIFICATION Spec
CONSTANTS
  PCs = {p1}
  DCs = {d1, d2}
  Sessions = {s1}
  Callbacks = {c1}
  Sweeper = sweeper
  Requests = {"dcClose", "delete"}
  MaxAge = 0
  Coalesce = 0
  None = none
SYMMETRY Interchangeable
INVARIANTS
  TreeConsistent
  EverySenderHasCloser
PROPERTIES
  CascadeTakesAll
CHECK_DEADLOCK FALSE
