SPECIFICATION Spec
CONSTANTS
  None = None
  All = "$__all"
  MirrorRef = "-- Dashboard --"
  MixedRef = "-- Mixed --"
  BuiltinRefs = {"__expr__", "-- Dashboard --"}
  BuiltinTypes = {"__expr__", "datasource"}
  c1 = c1
  c2 = c2
  Call = {c1, c2}
  Conn = {"prod", "lab"}
  VariableOf <- MCVariableOf
  Seconds <- MCSeconds
  HostOf <- MCHostOf
  Aliases <- MCAliases
  Datasource <- MCDatasource
  Board <- MCBoard
  Url <- MCUrl
  Plans <- MCPlans
  Results <- MCResults
  Ttl = 1
  MaxEntries = 2
  MaxConcurrency = 1
  Edited = {"prod"}
  LastTime = 1
  LastVersion = 2
  Span = 3600
  ConfigPoints = 100
  MaxFrames = 2
INVARIANTS
  EveryPanelAccountedFor
  ActivityIsWhatWasInspected
  MemoIsTheNewest
  OpenVariablesAreSaid
  WindowsAreClosed
PROPERTIES
  ListServedIsFresh
