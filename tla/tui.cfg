SPECIFICATION Spec
CONSTANTS
  None = None
  Efforts <- OneEffort
  Catalog <- SmallCatalog
  Clis <- TwoClis
  Configurable = {"opencode"}
  Servers <- OneServer
  McpKeys <- TwoKeys
  Declared = {"mine", "other"}
  Agents <- OneAgent
  Running = 2
  Published = 3
  Damaged = {2}
  Installs <- BothInstalled
  MaxCommands = 2
  MaxFaults = 1
  MaxInterrupts = 1
INVARIANTS TypeOK ScreensHold AnswerKept WorkerJoined
PROPERTIES ShownIsDone EverythingEnds
CHECK_DEADLOCK FALSE
