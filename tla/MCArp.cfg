SPECIFICATION Spec
CONSTANTS
  Ips = {i1, i2, i3, i4}
  Macs = {m1, m2}
  Capacity = 3
  Positions = {p1, p2, p3, p4}
  NoMac = NoMac
SYMMETRY Symmetry
INVARIANT CacheInv
PROPERTY ImplementsLru
