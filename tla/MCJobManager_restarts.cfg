SPECIFICATION Spec
SYMMETRY Symmetry
CONSTANTS
  b1 = b1
  b2 = b2
  r1 = r1
  r2 = r2
  d1 = d1
  d2 = d2
  t1 = t1
  t2 = t2
  Nil = Nil
  BuildIds = {b1, b2}
  RequestIds = {r1, r2}
  Digests = {d1, d2}
  HttpThreads = {t1, t2}
  MaxExits = 1
  MaxWriteFaults = 0
  MaxWire = 0
  MaxLeaked = 0
INVARIANTS
  NativeAccounted
  SlotAgrees
  AcknowledgedIsKept
PROPERTIES
  OnlyReconcileResolves
  LedgerIsSlot
  OutcomeStands
  AdmissionIsExclusive
