CONSTANTS
  l1 = l1  l2 = l2
  None = None
  Torn = Torn
  Lineages = {l1, l2}
  Sources = {}
  Records <- MCRecords
  FaultScenarios = {{"hook", "apply"}}
  MaxFaults = 2
  MaxRenewals = 3
SPECIFICATION Spec
INVARIANT RollbackUndoesTick
