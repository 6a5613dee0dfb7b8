SPECIFICATION Spec
CONSTANTS
  Callers = {c1, c2}
  Ids = {w1}
  Offered = {"run", "result", "resume", "approve", "refuse", "cancel", "replan"}
  Transitions <- Chain
  InitialState = "empty"
  Limit <- Limits
  MaxReplans = 1
  None = None
INVARIANTS
  TypeOK
  RestorableAlways
  GatesWereGranted
  JournalLeads
  WaitsOrMoves
SYMMETRY Symmetry
CHECK_DEADLOCK FALSE
