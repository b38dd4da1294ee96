SPECIFICATION FairSpec
CONSTANTS
  Daemon = Daemon
  Demo = Demo
  DaemonLinks = {d1}
  DemoLinks = {l1}
  DbLimit = 2
  Window = 2
  MinPoints = 2
  MaxAlerts = 2
  MaxPolls = 2
  DaemonPosts = 1
  DemoPosts = 3
  MaxRestarts = 1
INVARIANTS
  PipelineInv
  StreamOrder
  AckedAnalysed
  AlertForDisplayed
PROPERTIES
  PollsFresh
  PostReturns
  EventuallyCurrent
