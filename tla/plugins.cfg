SPECIFICATION Spec
CONSTANTS
  None = None
  a = a
  b = b
  Sessions = {"root", "task"}
  SubAgents = {"task"}
  Values = {a, b}
  Base <- SameName
  Inside <- Begins
  Texts <- SomeTexts
  MaxCalls = 2
  MaxTroubles = 1
INVARIANTS TypeOK VariablesKeepTheirValue EngramHoldsWhatItShould
CHECK_DEADLOCK FALSE
