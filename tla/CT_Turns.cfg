SPECIFICATION FairSpec
CONSTANTS
  m1 = m1
  m2 = m2
  m3 = m3
  NoMessage = NoMessage
  Messages = {m1, m2}
  Drivers = {"acp", "codex"}
  MaxTurns = 3
  MaxReopens = 1
  Env = {"handoff", "brake", "brake_fails", "close", "send_fails"}
INVARIANTS TypeOK AtMostOnce RunningIsReal OneTurn InterruptFinishes
PROPERTIES QueuedIsServed DrainEnds
CHECK_DEADLOCK FALSE
