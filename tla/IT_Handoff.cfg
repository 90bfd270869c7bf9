SPECIFICATION FairSpec
CONSTANTS
  t1 = t1
  t2 = t2
  NoTransition = NoTransition
  Transitions = {t1, t2}
  MaxCrashes = 1
  Env = {"store_fails"}
INVARIANTS TypeOK OneWriter ExclusiveHandoff CancelKeepsSource DrainsTheOwner ClosedIntakeHasOwner
PROPERTIES ImplementsOwnership TerminalIsFinal VerdictMatchesMode SwitchProgresses
CHECK_DEADLOCK FALSE
