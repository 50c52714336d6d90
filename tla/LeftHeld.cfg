SPECIFICATION ConvSpecStalls
CONSTANTS
  Nil = Nil
  Titles = {f, g}
  MaxTranscodes = 1
  MaxClaims = 1
  MaxStops = 1
  MaxRestarts = 1
CHECK_DEADLOCK FALSE
INVARIANTS HeldIsReleased
SYMMETRY Symmetry
