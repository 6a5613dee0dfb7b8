SPECIFICATION Spec
CONSTANTS
  t1 = t1
  t2 = t2
  t3 = t3
  Threads = {t2, t3}
  Drafts = {own}
  Own = own
  WorkflowId = w1
  Checkpoint = checkpoint
  MaxRevisions = 1
  MaxFaults = 0
  Does <- Roles
  Transitions <- Chain
  InitialState = "empty"
  Limit <- Limits
  MaxReplans = 1
  None = None
INVARIANTS
  DecisionSurvives
CHECK_DEADLOCK FALSE
