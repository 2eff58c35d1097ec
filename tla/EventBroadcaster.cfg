SPECIFICATION FairSpec
CONSTANTS
  c1 = c1
  c2 = c2
  b1 = b1
  b2 = b2
  k1 = k1
  k2 = k2
  Clients <- MCClients
  Senders <- MCSenders
  Stoppers <- MCStoppers
  Cap <- MCCap
INVARIANT SendsToOpen
PROPERTY ShutdownDisconnects BroadcastReturns
CHECK_DEADLOCK FALSE
