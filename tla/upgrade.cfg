SPECIFICATION Spec
CONSTANTS
  Processes = {p, q}
  Versions = {"1.9", "1.10", "rc"}
  KeyOf <- SomeKeys
  Unsafe = {"rc"}
  SuccessTtl = 2
  FailureTtl = 1
  MaxBuilds = 2
  MaxEvents = 3
  None = None
SYMMETRY Either
INVARIANT TypeOK
PROPERTIES ReplacedSafely AsksSparingly
CHECK_DEADLOCK FALSE
