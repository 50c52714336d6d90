SPECIFICATION InTurnSpec
CONSTANTS
  Titles = {t1}
  Requests = {r1, r2}
  Controls = {c1}
  None = None
  Kinds = {"bxStop"}
  NextOf <- FilmsOnly
  Attempts = 1
  JobsGoStale = FALSE
CHECK_DEADLOCK FALSE
PROPERTIES TokenFindsItsPlay
