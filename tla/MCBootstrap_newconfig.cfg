SPECIFICATION Spec
CONSTANTS
  Names <- MCNames
  Hosts <- MCHosts
  Instances <- ThreeAndOne
  Initial <- Three
  Capacity = 3
  ListsStopped = TRUE
  Faults <- AllFaults
  MaxFaults = 2
  Protocol = "http"
  StrictReconfig = FALSE
  MaxAdds = 2
  Formed = TRUE
INVARIANTS
  NewConfigOnlyForMembers
CHECK_DEADLOCK FALSE
