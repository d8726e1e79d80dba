SPECIFICATION Spec
CONSTANTS
  Requests = {r1, r2}
  Emails = {alice}
  MaxSessions = 1
  MaxTokens = 3
SYMMETRY Symmetry
INVARIANT RevokedSessionHasNoLiveToken
