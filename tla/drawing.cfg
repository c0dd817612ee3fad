SPECIFICATION DrawingSpec
CONSTANTS
  Modes = {"16 colors", "Mode X", "256 colors", "64K colors", "16M colors", "16M colors misordered"}
  Width = 8
  Height = 3
  Rows = {1, 2}
  Bits = 4
  Planes = {0, 3}
  PlaneBank = 3
  PackedBank = 28
  CallMax = 2
  Wary = TRUE
  Setups <- MCSetups
  Segment = 16
  SkipMax = 2
  CountMax = 2
  DrawMax = 1
  Prudent = TRUE
  Drivers = {"ark", "cirrus", "cirrus mmio", "mach32"}
  Pitch = 3
  Pitches = 2
  Scene = {0, 4, 5}
  Shapes <- MCShapes
  Moves <- MCMoves
  Stencils = {{0, 3}}
  Dots = {4}
  Rops = {"COPY", "XOR"}
  Fifo = 3
  AskMax = 3
  Gentle = TRUE
INVARIANTS Drawn Pictured Shown LineTrue Blitted Guarded Mortal
CHECK_DEADLOCK FALSE
