SPECIFICATION HFairSpec
CONSTANTS
  Events <- TwoEvents
  Capacity = 2
  NoItem = NoItem
  CounterMod = 8
  MaxEvents = 3
INVARIANTS
  SeenIsPrefix
  Conservation
PROPERTIES
  ReadsMonotone
  StartFindsNoThread
  EventuallyReported
  StopReturns
