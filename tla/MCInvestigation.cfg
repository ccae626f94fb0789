SPECIFICATION Spec
CONSTANTS
  Null = Null
  MaxDataPoints = 3
  MaxRuns = 2
  ZThreshold = 3
  Epsilon = 1
  Buffer = 1
  Day = 48
  MaxLookback = 336
  Conn = {"prod", "lab"}
  Primary = "prod"
  Removable = {"prod", "lab"}
  Dashboard = "disk"
  Declared = {"network"}
  Related <- MCRelated
  Labels <- MCLabels
  PrimaryLabels <- MCPrimaryLabels
  Cap = 2
  Starts <- MCStarts
  Now = 500
  Ends <- MCEnds
  Offsets <- MCOffsets
  Hosts = {"web"}
  Queries = {"by host", "total"}
  Scoped = {"by host"}
  Responses <- MCResponses
  Controls <- MCControls
  Floors <- MCFloors
  Steps = {1, 2, 3}
  Pairs <- MCPairs
  Onsets <- MCOnsets
  Named <- MCNamed
  Thresholds = {1}
  Authorized = {"influxdb", "prometheus", "loki", "mysql"}
  Types = {"influxdb", "prometheus", "loki", "mysql", "tempo"}
  Asks <- MCAsks
  Segments <- MCSegments
  Datasources <- MCDatasources
  MaxLogLines = 2
  Selectors = {"front", "back"}
  Keys = {"r1", "r2", "r3"}
  LogCalls <- MCLogCalls
  Worlds <- MCWorlds
  Logs <- MCLogs
INVARIANTS
  
  NothingUnusualIsDismissed
  RecurringIsCommon
  StepProofIsSound
  SteadyWideningIsComplete
  AuditedReplays
  SourceIsCertain
  JoinsNeverInvent
