SPECIFICATION Spec
CONSTANTS
  Callers = {c1, c2}
  Savers = {s1}
  Size = 1
  MaxSaves = 2
  MaxFaults = 2
  None = None
INVARIANT NextCallFollows
CHECK_DEADLOCK FALSE
