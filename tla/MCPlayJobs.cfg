SPECIFICATION Spec
CONSTANTS
  Titles = {t1, t2}
  Requests = {r1, r2}
  Controls = {c1}
  None = None
  Kinds = {"stop", "cancel", "bxStop", "beat"}
  NextOf <- FilmsOnly
  Attempts = 1
  JobsGoStale = TRUE
SYMMETRY Symmetry
CONSTRAINT OneAged
CHECK_DEADLOCK FALSE
INVARIANTS SoleClaimant OrderHasWaiter
PROPERTIES ClaimsSpec
