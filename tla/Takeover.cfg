SPECIFICATION Spec
CONSTANTS
  Titles = {t1, t2}
  Requests = {r1, r2}
  Controls = {c1}
  None = None
  Kinds = {}
  NextOf <- FilmsOnly
  Attempts = 1
  JobsGoStale = FALSE
CHECK_DEADLOCK FALSE
PROPERTIES NoTakeover
