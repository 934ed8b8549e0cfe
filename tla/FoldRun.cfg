SPECIFICATION Spec
CONSTANTS
  Geometries <- MCGeometries
  Horizon = 2
  DataDirs <- MCDataDirs
  Configs <- MCConfigs
  Losses = {1, 2, 3}
  NRounds = 11
  EvalEvery = 2
  EarlyStopping = 3
  None = None
INVARIANTS LabelsNest NoLeak StopsAtTheBest Serial BreakdownExplained
