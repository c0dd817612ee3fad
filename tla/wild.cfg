SPECIFICATION Spec
CONSTANTS
  GraphMode = {g1}
  TEXT = TEXT
  Fallback = g1
  Image = {blank}
  Blank = blank
  Undefined = undefined
  MaxLock = 1
  BadMode = {}
  Style = "careful"
  Uses = {"flip"}
  Patient = FALSE
  Fatal = FALSE
INVARIANTS
  FlipsExclude
PROPERTIES
  GrantsUnlocked
