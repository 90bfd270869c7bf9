SPECIFICATION WorkSpec
CONSTANTS
  Edits = {"e1"}
  MaxDeaths = 1
  Mishaps = {"lan_early"}
INVARIANTS
  KilledStaysDead
CHECK_DEADLOCK FALSE
