SPECIFICATION FairSpec
CONSTANTS
  s1 = s1
  s2 = s2
  t1 = t1
  t2 = t2
  path1 = path1
  path2 = path2
  Syncs = {s1, s2}
  Background = {s1, s2}
  Commands = {t1}
  Paths = {path1}
  None = None
  MaxCycles = 1
  MaxKills = 1
INVARIANTS
  TypeOK
  UpdatesAtomic
  EndedIsStopped
PROPERTIES
  DeathNoticed
CHECK_DEADLOCK FALSE
