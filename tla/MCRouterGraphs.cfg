SPECIFICATION FairSpec
CONSTANTS
  Nodes = {1, 2, 3}
  Source = 1
  Links = {2, 3}
  Topologies <- AllGraphs
  AddressPlans <- Plans
  MaxDist = 31
  OpenCost = 9
  FailureThreshold = 1
  Addresses <- Targets
  NoNode = NoNode
  MaxComputes = 2
  OctetBits = 2
  Segments <- Numerals
INVARIANTS
  ParentsCloser
  AddressesAgree
PROPERTIES
  ShortestRoutes
  AnswerUsable
  LongestPrefix
  ComputeReturns
