SPECIFICATION Spec
CONSTANTS
  N = 3
  M = 3
  Data = {blank, ink}
  Blank = blank
  Lost = lost
  Offsets = {0}
  LinearCopy = FALSE
  Separate = TRUE
  Locks = TRUE
  Selects = TRUE
INVARIANTS PageSelected MemoryKept
