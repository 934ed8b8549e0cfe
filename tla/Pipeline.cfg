SPECIFICATION Spec
CONSTANTS
  i1 = i1
  t1 = t1
  t2 = t2
  e = e
  Instruments <- MCInstruments
  None = None
  Tops <- MCTops
  Times = {0, 1}
  RingSize = 2
  MaxRecoveries = 2
  OutCap = 1
  Payloads <- MCPayloads
  CmdCap = 1
  BboCap = 1
  MaxClears = 4
INVARIANTS GateJoins RingHoldsRecent CheckIsRight Degradation
