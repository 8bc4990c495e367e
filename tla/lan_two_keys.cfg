CONSTANTS
  a = a  b = b  c = c  k1 = k1  k2 = k2
  None = None
  indexLockKey = indexLockKey
  Nodes = {a, b}
  Keys = {k1, k2}
  Records <- MCRecords2
  Configured <- MCSplitConfigured
  Sources <- MCSplitSources
  FaultScenarios = {{"keys", "hook", "apply"}}
  MaxFaults = 1
  MaxRenewals = 1
SPECIFICATION FairSpec
INVARIANT IndexCoversRecords
PROPERTY LoadsSettle
