SPECIFICATION ServicesSpec
CONSTANTS
  Edits = {"e1"}
  MaxDeaths = 0
  Mishaps = {}
  Tools = {"a"}
  NoTool = "no_tool"
  Names = {"x"}
  NamesTool = FALSE
  MaxInflight = 1
  MaxHooks = 0
  MaxEpochs = 1
  Clients = {"desktop", "phone"}
  Primaries = {"desktop"}
  Grids <- MCGrids
  Drains = {"handoff"}
  MaxOpens = 2
  MaxKeys = 2
INVARIANTS
  EveryOpenTerminalShares
CHECK_DEADLOCK FALSE
