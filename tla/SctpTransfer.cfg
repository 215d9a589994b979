SPECIFICATION Spec
CONSTANTS
  None = None
  Streams <- MCStreams
  Scenarios <- MCScenarios
  TSNMod = 64
  SSNMod = 8
  WordSize = 4
  Words = 2
  MaxMIDEntries = 3
  AcceptBacklog = 1
INVARIANTS
  DeliveredInOrderOnce
  
  
  
  EOFIsLast
  WindowExact
  
  
CHECK_DEADLOCK FALSE
