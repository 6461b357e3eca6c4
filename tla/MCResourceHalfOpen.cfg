\* The default configuration: one probe, two successes to close.
CONSTANTS
  r1 = r1
  r2 = r2
  r3 = r3
  r4 = r4
  r5 = r5
  global = global
  p1 = p1
  p2 = p2
  Requests = {r1, r2, r3}
  Nobody = Nobody
  Gates = {global, p1, p2}
  Limit <- EqualWidth
  Capacity = 1
  Rank <- RankOf
  FailureThreshold = 2
  SuccessThreshold = 2
  HalfOpenMaxCalls = 1
  Resources = {p1, p2}
  ResourceOf <- ThreeToTwoProviders
  Path <- ThreePaths
  MaxAttempts = 2
  Cancellations = FALSE

SPECIFICATION FairLoad

PROPERTIES
  HalfOpenIsLeft
