CONSTANTS
  l1 = l1  l2 = l2
  None = None
  Torn = Torn
  Lineages = {l1, l2}
  Sources = {l1}
  Records <- MCTwoRecords
  FaultScenarios = {{"crash", "hook", "restore"}, {"crash", "hook", "get"}, {"crash", "put", "lose"},
                    {"apply", "get", "keys"}, {"hook", "apply"}, {"hook", "read", "nobackup"}}
  MaxFaults = 2
  MaxRenewals = 1
SPECIFICATION FairSpec
INVARIANTS CertTypeOK ReloadsMatchingPair ReplacedFilesRestored
PROPERTIES TickLeavesNothingUnloaded ServesBest FilesGetLoaded GaugeShowsServed
