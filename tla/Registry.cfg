SPECIFICATION Spec
CONSTANTS
  Threads = {t1, t2}
  Versions = {1, 2}
  MaxOps = 5
  MaxFaults = 1
  MaxCrashes = 1
  None = None
INVARIANTS FilesOfRecord EditsKept PointerInstalled TestOfItsConfig SwapsExplained
CHECK_DEADLOCK FALSE
