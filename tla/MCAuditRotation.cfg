SPECIFICATION LogSpec
CONSTANTS
  Rotator = {r1}
  AuditKeep = 3
  Limit = 1
  MaxLines = 10
  MaxAppends = 2
INVARIANTS
  KeepsTheNewest
CHECK_DEADLOCK FALSE
