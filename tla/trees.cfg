SPECIFICATION Spec
CONSTANTS
  Clis = {"opencode", "claude"}
  Servers = {"engram", "cbm"}
  Versions = {"v1", "v2", "v3"}
  Pins <- ThreeReleases
  Setups <- Careful
  MaxRuns = 5
INVARIANTS TypeOK ServersRunnable TreesAccounted
PROPERTIES RestoreUndoes OneStepBack
CHECK_DEADLOCK FALSE
