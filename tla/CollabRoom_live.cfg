SPECIFICATION FairSpec
CONSTANTS
  c1 = c1
  c2 = c2
  Clients <- MCClients
  None = None
  MaxEdits = 1
  MaxRooms = 1
  MaxCrashes = 0
  MaxLeaves = 1
  MaxFaults = 1
  MaxGrants = 1
PROPERTIES
  ReadOnlyEnforced
  EventuallyStored
  ClientsCatchUp
  EditsArrive
CHECK_DEADLOCK FALSE
