SPECIFICATION FairSpec
CONSTANTS
  Task = {t1, t2, t3, t4, t5}
  MaxConcurrency = 2
PROPERTIES
  FirstComeFirstServed
  WaiterRuns
  LimiterSpec
