SPECIFICATION Spec
CONSTANTS
  t1 = t1
  t2 = t2
  NoTransition = NoTransition
  Transitions = {t1}
  MaxCrashes = 1
  Env = {"slow_cancel", "cleanup_fails", "store_fails", "kill", "resume", "restore"}
INVARIANTS ClosedIntakeHasOwner SignalFollowsVerdict
PROPERTIES VerdictMatchesMode
CHECK_DEADLOCK FALSE
