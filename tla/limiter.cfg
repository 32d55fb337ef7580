SPECIFICATION FairSpec
CONSTANTS
  Workers = {w1, w2}
  Users = {u1, u2}
  NoOne = none
  limit_per_min_ = 2
  WINDOW_SECS = 2
  MaxCount = 3
INVARIANTS
  TwiceTheLimit
  RefusedOnlyWhenUsedUp
PROPERTIES
  LimitLifts
  ConnectionReturned
