SPECIFICATION Spec
CONSTANTS
  Tokens = {t1, t2}
  Requests = {q1, q2}
  NoToken = NoToken
  Last = 2
  Lookahead = 1
  MaxRequests = 2
SYMMETRY Symmetry
CONSTRAINT Bounded
CHECK_DEADLOCK FALSE
INVARIANTS CleanUnlessCrossed LastSeekWins NoStrayRun
PROPERTIES StampOfItsRun NeverHalfWritten
