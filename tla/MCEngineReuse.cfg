SPECIFICATION Spec
CONSTANTS
  Conns = {c1, c2}
  NoConn = NoConn
  Fds = {f1, f2, f3}
  Listen = Listen
  Builds = {TRUE}
  MaxEvents = 2
  ArenaPackets = 2
  Faults = {}
  Faulty = {}
  Paced = TRUE
  MaxRequests = 1
  BodyLimit = 20
  Mtu = 3
  Contents <- MyContents
  Bodies <- MyBodies
INVARIANT RunsIndefinitely
