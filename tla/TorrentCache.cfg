SPECIFICATION Spec
CONSTANTS
  Hashes = {h1}
  Direct = Direct
  None = None
  MaxPlays = 2
  MaxRestarts = 1
  MaxFaults = 1
CHECK_DEADLOCK FALSE
INVARIANTS InUseKept
PROPERTIES EventuallyFreed
