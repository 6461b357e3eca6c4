\* Two jobs, one permit, everything may fail and the process may crash at
\* any point.
CONSTANTS
  k1 = k1
  k2 = k2
  Jobs = {k1, k2}
  NoJob = NoJob
  MaxParallel = 1
  QueueCapacity = 2
  MaxPerScan = 2
  Perishable = {k1, k2}
  BatchLimit = 1
  Verdicts <- SomeVerdicts
  OnConfirmation = TRUE
  Failures = TRUE
  Crashes = TRUE

SPECIFICATION Spec
SYMMETRY JobSymmetry

INVARIANTS
  VerdictIsSaved
  OpportunityFollowsJob
  ParallelismBounded
  RunningIsOwned
PROPERTIES
  ImplementsLifecycle
