SPECIFICATION FairSpec
CONSTANTS
  Absent = Absent
  None = None
  MaxEvents = 2
INVARIANTS
  TypeOK
  NothingStranded
PROPERTIES
  PushesArrive
  Agrees
CHECK_DEADLOCK FALSE
