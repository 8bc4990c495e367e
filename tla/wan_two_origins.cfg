CONSTANTS
  a = a  b = b  c = c  k1 = k1
  None = None
  Nodes = {a, b}
  Keys = {k1}
  Records <- MCRecords2
  Configured <- MCAll
  Sources <- MCAll
  Peers <- MCPeers
  FaultScenarios = {{}}
  MaxFaults = 0
  MaxRenewals = 0
SPECIFICATION FairSpec
PROPERTY ConcurrentOriginsConverge
