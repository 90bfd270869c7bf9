SPECIFICATION Spec
CONSTANTS
  t1 = t1
  t2 = t2
  NoTransition = NoTransition
  Transitions = {t1}
  MaxCrashes = 0
  Env = {"cleanup_fails"}
INVARIANTS OneWriter
CHECK_DEADLOCK FALSE
