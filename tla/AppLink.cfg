SPECIFICATION FairSpec
CONSTANTS
  Launches = {l1, l2}
  Films = {f1}
  Wires = {w1, w2}
  None = None
  MaxOrders = 2
  MaxFaults = 1
CHECK_DEADLOCK FALSE
INVARIANTS ActedInOrder AckedWasActed LaunchIsTrue
PROPERTIES OnlyActedLeaves OrdersLeave
