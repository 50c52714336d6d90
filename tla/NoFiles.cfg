SPECIFICATION Spec
CONSTANTS
  Threads = {t1}
  Versions = {1, 2}
  MaxOps = 4
  MaxFaults = 1
  MaxCrashes = 1
  None = None
INVARIANT NeverWithoutFiles
CHECK_DEADLOCK FALSE
