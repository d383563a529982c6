SPECIFICATION Spec
CONSTANTS
  Names <- MCNames
  Hosts <- MCHosts
  Instances <- Three
  Initial <- One
  Capacity = 3
  ListsStopped = TRUE
  Faults <- NoFaults
  MaxFaults = 0
  Protocol = "http"
  StrictReconfig = TRUE
  MaxAdds = 1
  Formed = FALSE
INVARIANTS
  NoSecondCluster
CHECK_DEADLOCK FALSE
