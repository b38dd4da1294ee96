SPECIFICATION FairSpec
CONSTANTS
  Threads = {a, b}
  EmissionInterval = 2
  Burst = 2
  MaxClock = 4
INVARIANTS
  TatInv
  SustainedRate
PROPERTIES
  NoUndueReject
  AllowReturns
