SPECIFICATION Spec
CONSTANTS
  Targets <- MCTargets
  Names <- MCNames
  Unnamed = Unnamed
  MaxErrors = 1
  MaxChanges = 2
INVARIANTS
  TypeOK
  LocalResolvesHere
PROPERTIES
  ImplementsContract
CHECK_DEADLOCK FALSE
