SPECIFICATION FairSpec
CONSTANTS
  CardUser = {u1, u2, u3, u4}
  ControlUser = {}
  Keeper = {u1, u2, u3}
  Preempted = TRUE
  BigLock = TRUE
  Signals = FALSE
  Free = free
INVARIANT WaiterArmed
PROPERTY WaitReturns
