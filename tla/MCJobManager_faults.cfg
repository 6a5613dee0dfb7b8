SPECIFICATION Spec
SYMMETRY Symmetry
CONSTANTS
  b1 = b1
  b2 = b2
  r1 = r1
  r2 = r2
  d1 = d1
  t1 = t1
  Nil = Nil
  BuildIds = {b1, b2}
  RequestIds = {r1, r2}
  Digests = {d1}
  HttpThreads = {t1}
  MaxExits = 1
  MaxWriteFaults = 1
  MaxWire = 0
  MaxLeaked = 1
INVARIANTS
  NoFalseVerdict
  NothingReplayed
PROPERTIES
  SettledNeverStarts
