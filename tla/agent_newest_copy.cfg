CONSTANTS
  d1 = d1
  None = None
  Records <- MCRecords
  Dirs = {d1}
  LiveDir <- MCOneLineage
  Data = {1, 2}
  MaxTime = 2
  TicksPerSecond = 1
  Setups <- MCBoth
  FaultScenarios = {{}}
  MaxFaults = 0
  MaxRenewals = 3
SPECIFICATION FairSpec
PROPERTY NewestCopyWins
