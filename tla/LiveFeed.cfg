SPECIFICATION FairSpec
CONSTANTS
  i1 = i1
  i2 = i2
  t1 = t1
  b = b
  Instruments <- MCOne
  Bodies <- MCBodies
  Foreign = Foreign
  None = None
  MaxSeq = 3
  MaxEvents = 1
  MinStreak = 0
  BufferLimit = 2
  CmdCap = 1
  WsCap = 1
  Tops <- MCTops
  Times = {0}
  RingSize = 1
  MaxRecoveries = 1
  OutCap = 1
  RawCap = 1
  BboCap = 1
  Wire <- MCWire
  MaxReads = 3
INVARIANTS LoadingIsGated
PROPERTIES RouterReturns LogoutReaches ImplementsTaskLife NewsArrives
