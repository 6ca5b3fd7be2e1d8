\* Poll loop and watcher, edits on both sides while cycles run, one kill: the folder
\* and the cloud come to agree.
SPECIFICATION FairSpec
CONSTANTS
  t1 = t1
  t2 = t2
  Empty = Empty
  Mixed = Mixed
  Absent = Absent
  None = None
  Texts = {t1, t2, Empty, Mixed}
  NumPaths = 1
  Basename <- DistinctNames
  Docs <- FourDocs
  Cycles = {"poll", "watch"}
  Failing = {"fetch"}
  WebActs = {"edit", "create", "delete", "return"}
  EditsMidCycle = TRUE
  MaxEdits = 2
  MaxCrashes = 1
PROPERTY Converges
CHECK_DEADLOCK FALSE
