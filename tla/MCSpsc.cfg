SPECIFICATION FairSpec
CONSTANTS
  Capacity = 2
  IndexMod = 8
  Items = {a, b}
  NoItem = NoItem
  Torn = Torn
INVARIANTS
  RingInv
  NoDataRace
PROPERTIES
  ImplementsFifo
  HeadAdvances
