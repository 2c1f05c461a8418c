SPECIFICATION Spec
CONSTANTS
  Scenarios <- MCScenarios
  MaxEdits = 2
  MaxDisturbances = 1
INVARIANTS
  TypeOK
  OnIsComplete
  OffIsGone
  DeletedLeavesNothing
PROPERTIES
  HandlingCompletes
CHECK_DEADLOCK FALSE
