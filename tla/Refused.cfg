SPECIFICATION InTurnSpec
CONSTANTS
  Titles = {t1, t2}
  Requests = {r1, r2, r3}
  Controls = {c1}
  None = None
  Kinds = {}
  NextOf <- Series
  Attempts = 1
  JobsGoStale = FALSE
CHECK_DEADLOCK FALSE
PROPERTIES RefusedForOther
