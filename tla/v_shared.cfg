SPECIFICATION Spec
CONSTANTS
  Clis = {"opencode", "claude"}
  Servers = {"engram", "cbm"}
  Versions = {"v1", "v2", "v3"}
  Pins <- TwoReleases
  Setups <- Sharing
  MaxRuns = 3
INVARIANT ServersRunnable
CHECK_DEADLOCK FALSE
