SPECIFICATION Spec
CONSTANTS
  Names <- MCNames
  Hosts <- MCHosts
  Instances <- ThreeAndTwo
  Initial <- Three
  Capacity = 5
  ListsStopped = FALSE
  Faults <- AllFaults
  MaxFaults = 1
  Protocol = "http"
  StrictReconfig = FALSE
  MaxAdds = 3
  Formed = TRUE
INVARIANTS
  TypeOK
  FoundersKept
  OwnEntryEstablished
  NewConfigEarned
  ExistingIncludesLocal
  MemberRerunHarmless
PROPERTIES
  ImplementsMembership
CHECK_DEADLOCK FALSE
