SPECIFICATION Spec
CONSTANTS
  Machines <- MCMachines
  Foreign <- MCForeign
  Local = "m1"
  Detachable <- MCMachines
  MaxErrors = 2
INVARIANTS
  TypeOK
  AnswerCoversSteady
  AnswerFromGroup
PROPERTIES
  ImplementsContract
CHECK_DEADLOCK FALSE
