SPECIFICATION Spec
CONSTANTS
  Callers = {c1, c2}
  Keys = {k1, k2, k3, k4}
  max_requests = 2
  window = 2
  MAX_TRACKED_KEYS = 2
  MaxTime = 4
SYMMETRY Symmetry
INVARIANTS
  LimiterInv
  BudgetPerWindow
  MapNearlyCapped
PROPERTY LiveWindowStays
