SPECIFICATION Spec
CONSTANTS
  Conns = {c1}
  NoConn = NoConn
  Fds = {f1, f2}
  Listen = Listen
  Builds = {FALSE}
  MaxEvents = 2
  ArenaPackets = 2
  Faults = {}
  Faulty = {}
  Paced = FALSE
  MaxRequests = 2
  BodyLimit = 20
  Mtu = 3
  Contents <- MyContents
  Bodies <- MyBodies
INVARIANT AllRequestsHandled
