SPECIFICATION Spec
CONSTANTS
  Threads = {a, b}
  FailureThreshold = 2
  RecoveryTimeout = 2
  MaxClock = 4
  NoState = NoState
PROPERTY OpenUntilTimeout
