SPECIFICATION ServicesSpec
CONSTANTS
  Edits = {"e1", "e2"}
  MaxDeaths = 2
  Mishaps = {"git_fails", "runtime_fails", "restore"}
  Tools = {"a", "b"}
  NoTool = "no_tool"
  Names = {"x"}
  NamesTool = FALSE
  MaxInflight = 1
  MaxHooks = 2
  MaxEpochs = 2
  Clients = {"desktop", "phone"}
  Primaries = {"desktop"}
  Grids <- MCGrids
  Drains = {"handoff", "delivery"}
  MaxOpens = 2
  MaxKeys = 2
INVARIANTS
  ServicesTypeOK
  LastCaptureSurvives
  KilledStaysDead
  DialogStays
  FlightsDieWithAgent
  UsageIsFinal
  KeysStayInOrder
  DrainHoldsKeys
  GridIsShared
  GoneClientsLetGo
PROPERTIES
  RemovalKeepsWork
  EarlyHookWaits
CHECK_DEADLOCK FALSE
