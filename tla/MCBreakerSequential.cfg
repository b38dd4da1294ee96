SPECIFICATION Spec
CONSTANTS
  Threads = {a}
  FailureThreshold = 3
  RecoveryTimeout = 2
  MaxClock = 7
  NoState = NoState
INVARIANTS
  BreakerInv
  TripsAtThreshold
  ClosesAfterThree
PROPERTY OpenUntilTimeout
