SPECIFICATION Spec
CONSTANTS
  None = None
  Releases <- TwoReleases
  Keys = {"engram", "playwright", "mine", "odd"}
  Malformed = {"odd"}
  SessionStart = "orchestrator"
  Tools = {"run", "look"}
  Clis = {"opencode", "claudecode"}
  WritesKeys = {"opencode"}
  ModelClis = {"opencode"}
  ConfigDir <- ConfigDirs
  DataDir <- Data
  Models = {"m"}
  Asks <- ChoicesOf
  Directories <- SomeDirectories
  Declarable <- DeclarableIn
  Failures = {"place", "record", "assign", "crash"}
  MaxCommands = 3
  MaxEdits = 2
  MaxFaults = 1
INVARIANTS TypeOK RenderedAsIntended SelectionRoundTrip ListedIsGrantable RenderedIsRecorded
PROPERTIES KeptUntilRevoked
CHECK_DEADLOCK FALSE
