SPECIFICATION FairSpec
CONSTANTS
  Processes = {p1}
  Requests = {w1, w2}
  Ids = {i1, i2, i3}
  MaxEntries = 3
  MaxCommands = 3
  None = None
INVARIANTS
  TypeOK
  JournalAgrees
PROPERTIES
  NoSecondJob
  EveryCommandEnds
CHECK_DEADLOCK FALSE
