SPECIFICATION FairSpec
CONSTANTS
  i1 = i1
  i2 = i2
  s1 = s1
  s2 = s2
  Instruments <- MCOne
  Sessions <- MCSessions
  MaxSessions = 1
  MaxQueued = 1
  Systems <- MCSystems
  NoSystem = NoSystem
  SystemLists <- MCLists
  GatewayLists <- MCGateways
INVARIANTS ExitCodeIsHonest
PROPERTIES StartsPrepared SilenceIsNoticed ClosedSessionEnds
