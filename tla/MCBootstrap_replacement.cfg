SPECIFICATION FairSpec
CONSTANTS
  Names <- MCNames
  Hosts <- MCHosts
  Instances <- ThreeAndTwo
  Initial <- Three
  Capacity = 3
  ListsStopped = TRUE
  Faults <- AllFaults
  MaxFaults = 2
  Protocol = "http"
  StrictReconfig = TRUE
  MaxAdds = 3
  Formed = TRUE
INVARIANTS
  FoundersKept
  OwnEntryEstablished
PROPERTIES
  ReplacementJoins
CHECK_DEADLOCK FALSE
