SPECIFICATION FairSpec
CONSTANTS
  Conns = {c1, c2}
  NoConn = NoConn
  Fds = {f1, f2}
  Listen = Listen
  Builds = {TRUE, FALSE}
  MaxEvents = 2
  ArenaPackets = 2
  Faults = {"reset", "bad", "junk", "huge"}
  Faulty = {c2}
  Paced = TRUE
  MaxRequests = 2
  BodyLimit = 20
  Mtu = 3
  Contents <- MyContents
  Bodies <- MyBodies
INVARIANTS
  EngineInv
  ArenaReclaimed
  AllRequestsHandled
  HttpSimAgrees
  TablesAgree
PROPERTIES
  NoSpuriousDisconnect
  ClientServed
