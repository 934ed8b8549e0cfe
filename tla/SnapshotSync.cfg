SPECIFICATION FairSpec
CONSTANTS
  i1 = i1
  i2 = i2
  Instruments <- MCInstruments
  Bodies <- MCBodies
  Foreign = Foreign
  None = None
  MaxSeq = 4
  MaxEvents = 1
  MinStreak = 1
  BufferLimit = 4
  CmdCap = 1
  WsCap = 1
  Pieces = 2
  ColdLag = FALSE
  EndAnyTime = FALSE
  LoseAnyTime = FALSE
INVARIANTS BookIsCurrent CompletionMeansLoaded
PROPERTIES FollowsExchange EveryLoadCompletes
