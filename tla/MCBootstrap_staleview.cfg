SPECIFICATION Spec
CONSTANTS
  Names <- MCNames
  Hosts <- MCHosts
  Instances <- OneAndTwo
  Initial <- One
  Capacity = 3
  ListsStopped = TRUE
  Faults <- NoFaults
  MaxFaults = 0
  Protocol = "http"
  StrictReconfig = TRUE
  MaxAdds = 2
  Formed = TRUE
INVARIANTS
  RemovedAreGone
CHECK_DEADLOCK FALSE
