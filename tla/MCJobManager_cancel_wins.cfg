SPECIFICATION Spec
SYMMETRY Symmetry
CONSTANTS
  b1 = b1
  r1 = r1
  d1 = d1
  t1 = t1
  Nil = Nil
  BuildIds = {b1}
  RequestIds = {r1}
  Digests = {d1}
  HttpThreads = {t1}
  MaxExits = 0
  MaxWriteFaults = 0
  MaxWire = 0
  MaxLeaked = 0
PROPERTIES
  CancelWins
