SPECIFICATION Spec
SYMMETRY Symmetry
CONSTANTS
  t1 = t1
  m1 = m1
  m2 = m2
  Nil = Nil
  ToolCalls = {t1}
  ModelCalls = {m1, m2}
  Limit <- MCLimit
  Amounts = {0, 1}
  MaxReservation = 3
  MaxExits = 1
INVARIANTS
  TypeOK
  WithinLimits
  SavedCanBeRestored
  HoldersOwn
  NothingLeaks
PROPERTIES
  SavedUsageGrows
