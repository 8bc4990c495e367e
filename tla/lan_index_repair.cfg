CONSTANTS
  a = a  b = b  c = c  k1 = k1  k2 = k2
  None = None
  indexLockKey = indexLockKey
  Nodes = {a, b}
  Keys = {k1}
  Records <- MCRecords1
  Configured <- MCAll
  Sources <- MCAll
  FaultScenarios = {{"index"}}
  MaxFaults = 1
  MaxRenewals = 0
SPECIFICATION FairSpec
PROPERTY IndexConverges
