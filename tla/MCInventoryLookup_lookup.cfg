SPECIFICATION Spec
CONSTANTS
  Machines <- MCMachines
  Local = "m1"
  Zones <- MCZones
  Zone <- MCZone
  MaxErrors = 2
INVARIANTS
  TypeOK
  LocalIsListed
PROPERTIES
  ImplementsContract
