SPECIFICATION Spec
CONSTANTS
  r1 = r1
  r2 = r2
  u1 = u1
  u2 = u2
  Requests = {r1, r2}
  Users = {u1, u2}
  Labels = {"default"}
  MaxTable = 2
  MaxRows = 3
SYMMETRY RequestSymmetry
CHECK_DEADLOCK FALSE
INVARIANTS
  StoreInv
  MessagesBelong
  AuditTrailIsTrue
  AnswersAreTrue
PROPERTY DeletedIsFinal
