SPECIFICATION FairSpec
CONSTANTS
  w1 = w1
  w2 = w2
  Writers = {w1, w2}
  MAX_PAGE_SIZE = 2
  Limits <- MCLimits
  MaxTime = 2
  MaxMessages = 4
CHECK_DEADLOCK FALSE
INVARIANTS
  NewestFirst
  OnlyTiesAreMissed
PROPERTY PagingEnds
