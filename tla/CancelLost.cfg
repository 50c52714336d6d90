SPECIFICATION Spec
CONSTANTS
  Titles = {t1}
  Requests = {r1}
  Controls = {c1}
  None = None
  Kinds = {"cancel"}
  NextOf <- FilmsOnly
  Attempts = 1
  JobsGoStale = FALSE
CHECK_DEADLOCK FALSE
INVARIANTS CancelReachesPlay
