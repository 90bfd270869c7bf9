SPECIFICATION Spec
CONSTANTS
  t1 = t1
  t2 = t2
  NoTransition = NoTransition
  Transitions = {t1, t2}
  MaxCrashes = 0
  Env = {"slow_cancel"}
INVARIANT SignalledIsEnded
CHECK_DEADLOCK FALSE
