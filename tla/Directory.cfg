SPECIFICATION FoundedSpec
CONSTANTS
  root = root
  u1 = u1
  u2 = u2
  o1 = o1
  o2 = o2
  g1 = g1
  g2 = g2
  n1 = n1
  n2 = n2
  p1 = p1
  p2 = p2
  Users = {root, u1}
  Super = {root}
  Orgs = {o1, o2}
  Groups = {g1}
  Names = {n1, n2}
  Handlers = {p1, p2}
  None = None
  Absent = Absent
  MaxRequests = 4
SYMMETRY Symmetry
INVARIANTS
  TypeOK
  GroupsWithinTenant
  NoUngrantedAdmin
  RosterCovers
  AccountsMatchRows
CHECK_DEADLOCK FALSE
