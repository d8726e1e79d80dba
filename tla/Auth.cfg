SPECIFICATION FairSpec
CONSTANTS
  Requests = {r1, r2}
  Emails = {alice}
  MaxSessions = 1
  MaxTokens = 3
INVARIANTS
  IInv
  TokensFormAChain
  NoGrantAfterRevocation
  ReuseRevokesSession
PROPERTIES
  ReuseLeadsToRevocation ImplementsTokenFamily
