SPECIFICATION Spec
CONSTANTS
  Names <- MCNames
  Hosts <- MCHosts
  Instances <- ThreeAndReuse
  Initial <- Three
  Capacity = 3
  ListsStopped = TRUE
  Faults <- AllFaults
  MaxFaults = 2
  Protocol = "http"
  StrictReconfig = TRUE
  MaxAdds = 2
  Formed = TRUE
INVARIANTS
  AddressIsOwn
CHECK_DEADLOCK FALSE
