CONSTANTS
  l1 = l1  l2 = l2
  None = None
  Torn = Torn
  Lineages = {l1}
  Sources = {l1}
  Records <- MCRecords
  FaultScenarios = {{"hook"}}
  MaxFaults = 1
  MaxRenewals = 0
SPECIFICATION FairSpec
PROPERTY FailedReloadRetried
