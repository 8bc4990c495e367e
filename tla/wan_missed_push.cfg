CONSTANTS
  a = a  b = b  c = c  k1 = k1
  None = None
  Nodes = {a, b}
  Keys = {k1}
  Records <- MCRecords2
  Configured <- MCAll
  Sources <- MCOrigin
  Peers <- MCPeers
  FaultScenarios = {{"lose"}}
  MaxFaults = 1
  MaxRenewals = 1
SPECIFICATION FairSpec
PROPERTY MissedFanOutCorrected
