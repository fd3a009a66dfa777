CONSTANTS
  f = f
  g = g
  Callables <- MCCallables
  Dicts <- MCDicts
  Faults <- MCFaults
  MaxRefs = 2
  Use = {}
SPECIFICATION FairSpec
INVARIANTS TypeOK AttachedWhenUsed OneConductorThread FailureTold CallbacksOwned LockLeft
PROPERTY StopEnds
CHECK_DEADLOCK FALSE
