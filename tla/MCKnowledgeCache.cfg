SPECIFICATION Spec
CONSTANTS
  Call = {c1, c2}
  d1 = d1
  d2 = d2
  top = top
  f1 = f1
  f2 = f2
  Dash = {d1, d2}
  Folder = {top, f1, f2}
  Parent <- Cycle
  FolderOf <- Elsewhere
  Root = top
  Starts = {f1}
  WithKey <- Published
  TTL = 1
  MaxWalkDepth = 2
  ReusesUid = FALSE
  MaxSpan = 0
  MaxEdits = 1
SYMMETRY Symmetry
INVARIANTS
  CacheIsWhole
  NoStaleAbsence
PROPERTIES
  ServedIsCurrent
CHECK_DEADLOCK FALSE
