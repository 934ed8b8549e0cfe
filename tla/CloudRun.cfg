SPECIFICATION FairSpec
CONSTANTS
  Codes = {0, 1}
  None = None
  MaxRuntime = 6
  BeatTimeout = 1
  ReadyTimeout = 1
  IdleEvery = 2
INVARIANTS TypeOK ResultIsReal NoLostCompletion FollowedIsYoung
PROPERTIES MonitorReturns MachineIsFreed
