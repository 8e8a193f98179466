SPECIFICATION FairSpec
CONSTANTS
  p1 = p1
  t1 = t1
  t2 = t2
  h1 = h1
  h2 = h2
  NoThread = NoThread
  Peers <- MCPeers
  Threads <- MCThreads
  Handlers <- MCHandlers
  MaxCalls = 1
  MaxEvents = 2
INVARIANTS
  TableIsExact UsedWhileThere
PROPERTIES
  ConfigureReturns StreamsWake
