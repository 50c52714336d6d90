SPECIFICATION Spec
CONSTANTS
  Callers = {c1, c2}
  Savers = {s1}
  Size = 1
  MaxSaves = 1
  MaxFaults = 3
  None = None
INVARIANTS WorkersBound ClosedIsDead CallsFollowSaves
PROPERTIES CallersReturn
CHECK_DEADLOCK FALSE
