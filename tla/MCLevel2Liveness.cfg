\* Three jobs against a queue of two and one permit, with errors, crashes and
\* shutdowns, under fairness: the capacity read at the beginning of a scan is
\* used up while the worker drains.  What a verification finds does not
\* matter here: it fails.
CONSTANTS
  k1 = k1
  k2 = k2
  k3 = k3
  Jobs = {k1, k2, k3}
  NoJob = NoJob
  MaxParallel = 1
  QueueCapacity = 2
  MaxPerScan = 2
  Perishable = {}
  BatchLimit = 1
  Verdicts = {}
  OnConfirmation = FALSE
  Failures = TRUE
  Crashes = TRUE

SPECIFICATION FairSpec

PROPERTIES
  EverySubmissionEnds
  InterruptedIsSettled
INVARIANTS
  SubmissionNeverRefused
