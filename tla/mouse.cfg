SPECIFICATION Spec
CONSTANTS
  Types = {"LOGIMAN", "MICROSOFT", "INTELLIMOUSE", "PS2"}
  PacketMax = 3
  LossMax = 2
  BufferSize = 6
  WheelTurns = FALSE
INVARIANTS Assembled LossContained ButtonsSettle
CHECK_DEADLOCK FALSE
