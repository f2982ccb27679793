SPECIFICATION Spec
CONSTANTS
  Clis = {"opencode", "claude"}
  Servers = {"engram", "cbm"}
  Versions = {"v1", "v2", "v3"}
  Pins <- TwoReleases
  Setups <- Rollback
  MaxRuns = 2
PROPERTY RollbackKeepsOthers
CHECK_DEADLOCK FALSE
