SPECIFICATION FairSpec
CONSTANTS
  Daemons = {"daemon"}
  Tickers = {"tickerd"}
  Configs <- MCConfigs
  StaleAfter = 1
  MaxFaults = 1
INVARIANTS
  OneOwner
  ReadyIsAlive
PROPERTIES
  HealthByOwner
  ReconcileMadeUp
  FailuresStop
  StopHeeded
  OwnerSeen
