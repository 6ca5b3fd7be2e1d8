SPECIFICATION Spec
CONSTANTS
  c1 = c1
  c2 = c2
  Clients <- MCClients
  None = None
  MaxEdits = 2
  MaxRooms = 2
  MaxCrashes = 1
  MaxLeaves = 0
  MaxFaults = 1
  MaxGrants = 0
SYMMETRY Symmetry
INVARIANTS
  TypeOK
PROPERTIES
  ImplementsLog
CHECK_DEADLOCK FALSE
