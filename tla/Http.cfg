SPECIFICATION FairSpec
CONSTANTS
  Requests = {r1, r2}
  Failures = {"Unauthorized", "Internal"}
CHECK_DEADLOCK FALSE
INVARIANTS
  CountersMatchResponses
  ScrapeIsCurrent
PROPERTIES
  TimedRequestsConclude
  ShutdownEnds
