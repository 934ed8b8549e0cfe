SPECIFICATION ShardsSpec
CONSTANTS
  TotalFolds = 3
  MaxMachines = 4
  PathOrder <- MCPathOrder
  Trades <- MCTrades
  Threads = {1, 2, 3}
  Absent = Absent
INVARIANTS EachFoldOnce
CHECK_DEADLOCK FALSE
