SPECIFICATION Spec
CONSTANTS
  None = None
  ChanSize = 1
  NetSize = 1
  MaxBuffered = 2
  Scenarios <- MCScenarios
INVARIANTS
  NothingAfterClose
  AnswersInOrder
  EventsInOrder
  
  
  
  
CHECK_DEADLOCK FALSE
