SPECIFICATION SpecPeersRead
CONSTANTS
  Connections = {c1, c2, c3}
  MaxConnections = 2
INVARIANTS QuietAfterShutdown WorkersOwned
PROPERTIES ShutdownReturns LoopStops
