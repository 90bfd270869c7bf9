SPECIFICATION Spec
CONSTANTS
  m1 = m1
  m2 = m2
  m3 = m3
  NoMessage = NoMessage
  Messages = {m1, m2}
  Drivers = {"codex"}
  MaxTurns = 2
  MaxReopens = 1
  Env = {"eager"}
INVARIANT AtMostOnce
CHECK_DEADLOCK FALSE
