SPECIFICATION FairSpec
CONSTANTS
  c1 = c1
  c2 = c2
  c3 = c3
  p1 = p1
  p2 = p2
  Caller = {c1, c2, c3}
  Proc = {p1, p2}
  ProcOf <- TwoReleases
  OldProc = {p2}
  MaxCrawls = 4
INVARIANTS
  MapIsTheCrawl
  OwnSchemaServed
PROPERTIES
  CallAnswered
CHECK_DEADLOCK FALSE
