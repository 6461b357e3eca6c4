\* Five requests to one provider that serves one at once, four at the global
\* gate: three can wait behind the provider while they hold the global slot,
\* one of them with a higher priority, and with two places both queues overflow.
CONSTANTS
  r1 = r1
  r2 = r2
  r3 = r3
  r4 = r4
  r5 = r5
  global = global
  p1 = p1
  p2 = p2
  Requests = {r1, r2, r3, r4, r5}
  Nobody = Nobody
  Gates = {global, p1}
  Limit <- FourAtOnce
  Capacity = 2
  Rank <- RankOf
  FailureThreshold = 1
  SuccessThreshold = 1
  HalfOpenMaxCalls = 1
  Resources = {p1}
  ResourceOf <- AllToOneProvider
  Path <- AllPaths
  MaxAttempts = 2
  Cancellations = TRUE

SPECIFICATION FairSpec

INVARIANTS
  SlotsConserved
  NoIdleSlot

PROPERTIES
  EveryRequestEnds
  NoOvertaking
