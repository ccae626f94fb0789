SPECIFICATION Spec
CONSTANTS
  Thresholds <- OnAndOff
  MaxInFlight = 1
  Click = {c1, c2}
INVARIANTS
  DeadPipeGoesQuiet
  WatcherHears
PROPERTIES
  StopsOnlyWhenUnneeded
  OrphanExits
  ClickAnswered
  UnaskedNeverInterrupted
CHECK_DEADLOCK FALSE
