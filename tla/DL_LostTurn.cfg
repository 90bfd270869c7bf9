SPECIFICATION OutboxSpec
CONSTANTS
  Msgs = {"m1"}
  MaxHandoffs = 1
  MaxTroubles = 1
INVARIANTS
  AcceptedIsKept
CHECK_DEADLOCK FALSE
