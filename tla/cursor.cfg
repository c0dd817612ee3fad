CONSTANTS
  Width = 3
  Size = 2
  Cur = {0, 15}
  Spots = {0, 341, 682}
  Wary = TRUE
SPECIFICATION CursorSpec
INVARIANTS PictureKept AsAsked
