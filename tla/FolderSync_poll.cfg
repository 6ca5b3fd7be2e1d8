\* What a cycle does that runs alone, after cycles that did or did not: two files of
\* one name in two folders; documents are edited, created, deleted, restored and
\* renamed on the web; the process is killed once.
SPECIFICATION Spec
CONSTANTS
  t1 = t1
  t2 = t2
  Empty = Empty
  Mixed = Mixed
  Absent = Absent
  None = None
  Texts = {t1, t2, Empty, Mixed}
  NumPaths = 2
  Basename <- OneName
  Docs <- TwoDocs
  Cycles = {"poll", "watch"}
  Failing = {"fetch", "write", "clock"}
  WebActs = {"edit", "create", "delete", "return", "rename"}
  EditsMidCycle = FALSE
  MaxEdits = 3
  MaxCrashes = 1
SYMMETRY TextSymmetry
VIEW QuietView
PROPERTIES
  RemoteWorkKept
  OneDocPerPath
  DeletesOnlyRemoved
  TrashesOnlyDeleted
CHECK_DEADLOCK FALSE
