SPECIFICATION Spec
CONSTANTS
  Keys = {k1, k2}
  None = None
  MaxElsewhere = 1
INVARIANTS
  RemovesTheKeyClicked
  ChangesAreConfirmed
  WorkerHasItsWindow
PROPERTIES
  ClosingAsksNothing
  CloseEnds
CHECK_DEADLOCK FALSE
