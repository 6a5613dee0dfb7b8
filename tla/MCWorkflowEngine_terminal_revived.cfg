SPECIFICATION Spec
CONSTANTS
  Callers = {c1, c2}
  Ids = {w1}
  Offered = {"run", "cancel"}
  Transitions <- Chain
  InitialState = "empty"
  Limit <- Limits
  MaxReplans = 1
  None = None
PROPERTIES
  TerminalIsFinal
CHECK_DEADLOCK FALSE
