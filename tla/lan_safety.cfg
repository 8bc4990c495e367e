CONSTANTS
  a = a  b = b  c = c  k1 = k1  k2 = k2
  None = None
  indexLockKey = indexLockKey
  Nodes = {a, b}
  Keys = {k1}
  Records <- MCRecords2
  Configured <- MCAll
  Sources <- MCAll
  FaultScenarios = {{"crash", "put", "unlock", "index"},
                    {"hook", "restore", "keys", "unlock", "nobackup"}, {"hook", "apply", "read"}}
  MaxFaults = 2
  MaxRenewals = 1
SPECIFICATION LanSpec
INVARIANTS TypeOK PublishSafe ServedInCluster LoadedMatchesDisk
PROPERTIES ClusterNeverRegresses ServedNeverRegresses ImplementsNewestWins
SYMMETRY MCSymmetry
