CONSTANTS
  a = a  b = b  c = c  k1 = k1  k2 = k2
  None = None
  indexLockKey = indexLockKey
  Nodes = {a, b}
  Keys = {k1}
  Records <- MCRecords2
  Configured <- MCAll
  Sources <- MCAll
  FaultScenarios = {{"crash"}, {"lock", "unlock"}, {"get", "keys"}, {"lose"}, {"hook", "restore"},
                    {"put", "index"}, {"read", "apply", "nobackup"}}
  MaxFaults = 2
  MaxRenewals = 0
SPECIFICATION FairSpec
PROPERTIES ClusterCatchesUp EveryoneServesNewest TickTerminates
