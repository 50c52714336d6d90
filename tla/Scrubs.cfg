SPECIFICATION Spec
CONSTANTS
  Tokens = {t1}
  Requests = {q1, q2}
  NoToken = NoToken
  Last = 2
  Lookahead = 1
  MaxRequests = 2
CHECK_DEADLOCK FALSE
INVARIANT FilesUnlessMissed
