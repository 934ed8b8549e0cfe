SPECIFICATION Spec
CONSTANTS
  i1 = i1
  i2 = i2
  b = b
  Instruments <- MCInstruments
  Bodies <- MCBodies
  Foreign = Foreign
  None = None
  MaxSeq = 4
  SnapSeqs = {3}
  Sizes = {1}
  MaxEvents = 1
  MinStreak = 1
  BufferLimit = 2
  CmdCap = 1
  WsCap = 1
SYMMETRY Perms
PROPERTIES ArmedGapRecovers
