SPECIFICATION ConvSpec
CONSTANTS
  Nil = Nil
  Titles = {f, g}
  MaxTranscodes = 1
  MaxClaims = 2
  MaxStops = 2
  MaxRestarts = 1
CHECK_DEADLOCK FALSE
INVARIANTS StopAllStops HeldIsReleased LetGoIsStopped
SYMMETRY Symmetry
