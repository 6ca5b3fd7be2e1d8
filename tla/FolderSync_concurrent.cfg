\* The poll loop and the watcher sync one file at the same time; every request can
\* fail.
SPECIFICATION Spec
CONSTANTS
  t1 = t1
  t2 = t2
  Empty = Empty
  Mixed = Mixed
  Absent = Absent
  None = None
  Texts = {t1, t2, Empty, Mixed}
  NumPaths = 1
  Basename <- DistinctNames
  Docs <- TwoDocs
  Cycles = {"poll", "watch"}
  Failing = {"read", "create", "write", "handshake", "delete"}
  WebActs = {"edit", "create", "delete"}
  EditsMidCycle = FALSE
  MaxEdits = 3
  MaxCrashes = 0
SYMMETRY TextSymmetry
VIEW WorkView
INVARIANTS
  TypeOK
  BaseReachedCloud
  LocalWorkKept
CHECK_DEADLOCK FALSE
