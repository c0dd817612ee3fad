SPECIFICATION Spec
CONSTANTS
  CardUser = {u1, u2, u3}
  ControlUser = {c1}
  Keeper = {}
  Preempted = FALSE
  BigLock = FALSE
  Signals = TRUE
  Free = free
INVARIANT HandlersCounted
