CONSTANTS
  Drivers <- MCDrivers
  Modes <- MCModes
  Fast <- MCFast
  LineWidth <- MCLineWidth
  Patterns <- MCPatterns
  Wary = TRUE
SPECIFICATION Spec
INVARIANTS IInv TextWhole ModeWhole SelectionsHold
