SPECIFICATION FairSpec
CONSTANTS
  b1 = b1
  b2 = b2
  r1 = r1
  r2 = r2
  d1 = d1
  t1 = t1
  Nil = Nil
  BuildIds = {b1, b2}
  RequestIds = {r1, r2}
  Digests = {d1}
  HttpThreads = {t1}
  MaxExits = 0
  MaxWriteFaults = 0
  MaxWire = 1
  MaxLeaked = 0
INVARIANTS
  TypeOK
PROPERTIES
  EveryBuildSettles
  CancelIsDelivered
