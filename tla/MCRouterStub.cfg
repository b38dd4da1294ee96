SPECIFICATION Spec
CONSTANTS
  Nodes = {1, 2, 3}
  Source = 1
  Links = {2, 3}
  Topologies <- Stub
  AddressPlans <- OnePlan
  MaxDist = 31
  OpenCost = 9
  FailureThreshold = 1
  Addresses <- Targets
  NoNode = NoNode
  MaxComputes = 1
  OctetBits = 2
  Segments <- Numerals
PROPERTY ShortestRoutes
