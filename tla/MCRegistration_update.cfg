SPECIFICATION Spec
CONSTANTS
  Names <- MCNames
  Hosts <- MCHosts
  Instances <- TwoAndTwo
  Initial <- Two
  Capacity = 3
  ListsStopped = TRUE
  Faults <- AllFaults
  MaxFaults = 2
  Providers <- AllProviders
INVARIANTS
  TypeOK
  LoneRunPublishesFleet
PROPERTIES
  EstablishedStayPublished
CHECK_DEADLOCK FALSE
