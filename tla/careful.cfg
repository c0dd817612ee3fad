SPECIFICATION Spec
CONSTANTS
  GraphMode = {g1, g2, g3}
  TEXT = TEXT
  Fallback = g1
  Image = {blank, drawn}
  Blank = blank
  Undefined = undefined
  MaxLock = 2
  BadMode = {g3}
  Style = "careful"
  Uses = {"flip", "background"}
  Patient = TRUE
  Fatal = TRUE
INVARIANTS
  CarefulInv
  DeadIsTextOutsideWindows
  ReleasedIsText
  ShownInFront
  NoScribble
  BufferMatched
  SuspendedWhenHidden
PROPERTIES
  LockHolds
  Transparent
