SPECIFICATION Spec
CONSTANTS
  Clis = {"opencode", "claude"}
  Servers = {"engram", "cbm"}
  Versions = {"v1", "v2", "v3"}
  Pins <- TwoReleases
  Setups <- Failing
  MaxRuns = 4
INVARIANT TreesAccounted
CHECK_DEADLOCK FALSE
