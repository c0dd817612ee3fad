SPECIFICATION Spec
CONSTANTS
  ControlKeys = {ctrl}
  AltKeys = {alt}
  WinKeys = {}
  KeyC = c
  OwnF = f1
  OtherF = f2
  UpLeft = ul
  Up = up
  Mode = {"diagonal", "catch C"}
  BufferSize = 2
  QueueMax = 2
  Patient = TRUE
  Others = FALSE
INVARIANT NoStuckKey
PROPERTY Deliberate
