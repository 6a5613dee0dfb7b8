SPECIFICATION Spec
CHECK_DEADLOCK FALSE
CONSTANTS
  w1 = w1
  w2 = w2
  o1 = o1
  Nil = Nil
  LastTask = 3
  Workers = {w1, w2}
  Others = {o1}
  Capacity = 2
  Deadline = 1
  Limit <- MCLimit
  Amounts = {0, 1}
  MaxOther = 1
INVARIANTS
  DependenciesHeld
  ResultIsSequential
  LayerStaysAdmitted
PROPERTIES
  EveryRunSettles
