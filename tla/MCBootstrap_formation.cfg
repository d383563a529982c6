SPECIFICATION FairSpec
CONSTANTS
  Names <- MCNames
  Hosts <- MCHosts
  Instances <- Three
  Initial <- Two
  Capacity = 3
  ListsStopped = TRUE
  Faults <- FormationFaults
  MaxFaults = 2
  Protocol = "http"
  StrictReconfig = FALSE
  MaxAdds = 1
  Formed = FALSE
INVARIANTS
  NoSecondCluster
PROPERTIES
  ClusterForms
  FormationConverges
CHECK_DEADLOCK FALSE
