CONSTANTS
  d1 = d1
  None = None
  Records <- MCRecords
  Dirs = {d1}
  LiveDir <- MCLiveDir
  Data = {1, 2}
  MaxTime = 4
  TicksPerSecond = 2
  Setups <- MCSetups
  FaultScenarios = {{"read"}}
  MaxFaults = 1
  MaxRenewals = 2
SPECIFICATION FairSpec
INVARIANTS AgentTypeOK ScanKeepsFirstName VersionNotAheadOfBytes RecordOrderIsBundleOrder
PROPERTIES CertificateCatchesUp MtimeCatchesUp
