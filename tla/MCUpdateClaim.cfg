SPECIFICATION FairSpec
CONSTANTS
  Proc = {p1, p2, p3}
  IntervalMs = 3
  LockStaleMs = 2
  MaxLag = 1
  MaxFaults = 1
INVARIANTS
  StaggeredStartsStandDown
  LockExcludes
PROPERTIES
  OrphanLockReclaimed
