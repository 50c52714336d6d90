SPECIFICATION RouteSpec
CONSTANTS
  Nil = Nil
  Titles = {f}
  MaxTranscodes = 1
  MaxClaims = 1
  MaxStops = 1
  MaxRestarts = 0
CHECK_DEADLOCK FALSE
INVARIANTS WholeIsWhole
