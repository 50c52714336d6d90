SPECIFICATION FairSpec
CONSTANTS
  Titles = {t1, t2}
  Requests = {r1, r2}
  Controls = {c1}
  None = None
  Kinds = {}
  NextOf <- Series
  Attempts = 2
  JobsGoStale = FALSE
CHECK_DEADLOCK FALSE
INVARIANTS RestIsSettled
PROPERTIES JobsSettle
