SPECIFICATION Spec
CONSTANTS
  EndA = EndA
  EndB = EndB
  None = None
  Endpoints <- MCEndpoints
  Scenarios <- MCScenarios
  MaxInitRetrans = 1
INVARIANTS
  NobodyLeftWaiting
  HandshakeAgrees
  GracefulMeansDelivered
  NoTimerOutlivesTheLoops
PROPERTIES
  LateTimersAreHarmless
CHECK_DEADLOCK FALSE
