SPECIFICATION Spec
CONSTANTS
  caller = caller
  other = other
  Clients = {caller, other}
  None = None
  Wake = Wake
  Ack = Ack
  MaxCalls <- CallsOfEach
  MaxStarts = 2
INVARIANTS
  StopIsOrderly
PROPERTIES
  AnswersAreRead
  CallsAreServed
  PipeIsFreed
  StopsWhenAsked
CHECK_DEADLOCK FALSE
