SPECIFICATION Spec
CONSTANTS
  Films = {f1}
  None = None
  MaxMoves = 1
  MaxPlays = 2
  MaxFaults = 0
  MaxGen = 22
PROPERTIES QuietOnceLeft
