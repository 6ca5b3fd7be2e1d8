SPECIFICATION Spec
CONSTANTS
  Absent = Absent
  None = None
  MaxEvents = 2
INVARIANTS
  EditsMerge
CHECK_DEADLOCK FALSE
