SPECIFICATION Spec
CONSTANTS
  None = None
  u1 = u1
  u2 = u2
  f1 = f1
  f2 = f2
  f3 = f3
  f4 = f4
  d1 = d1
  c1 = c1
  c2 = c2
  Users = {u1, u2}
  Folders = {f1, f2, f3, f4}
  Docs = {d1}
  Clients = {c1, c2}
  MaxDepth = 3
  Granted = {"edit"}
  MaxRequests = 5
  BesideAt = {4}
  MaxFails = 1
  MaxCalls = 17
SYMMETRY Symmetry
VIEW View
INVARIANTS
  TypeOK
  DocRootFollows
  TreeSound
  NothingLiveInTrash
  RightsAgree
  SummaryComplete
  ContentsOpen
PROPERTIES
  CascadeComplete
  OwnersDelete
CHECK_DEADLOCK FALSE
