CONSTANTS
  None = None
  Unset = Unset
  Browser = Browser
  Unusable = Unusable
  TicksPerHour <- MCTicksPerHour
  FirstDay <- MCFirstDay
  Weekday0 <- MCWeekday0
  Zone <- MCZone
  DefaultZone = "utc"
  DefaultWeek = "sunday"
  WeekStarts <- MCWeekStarts
  Requests <- MCRequests
  Preferences <- MCPreferences
  MaxLookback = 1488
SPECIFICATION WindowSpec
INVARIANTS
  HoursToo
CHECK_DEADLOCK FALSE
