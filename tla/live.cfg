SPECIFICATION FairSpec
CONSTANTS
  GraphMode = {g1}
  TEXT = TEXT
  Fallback = g1
  Image = {blank}
  Blank = blank
  Undefined = undefined
  MaxLock = 1
  BadMode = {}
  Style = "careful"
  Uses = {"flip", "background"}
  Patient = TRUE
  Fatal = FALSE
PROPERTIES
  RequestGranted
  Resumes
