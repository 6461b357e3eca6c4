\* The worker as the container builds it: without a confirmation handler.
CONSTANTS
  k1 = k1
  Jobs = {k1}
  NoJob = NoJob
  MaxParallel = 1
  QueueCapacity = 2
  MaxPerScan = 2
  Perishable = {k1}
  BatchLimit = 1
  Verdicts <- Profitable
  OnConfirmation = FALSE
  Failures = FALSE
  Crashes = FALSE

SPECIFICATION FairSpec

PROPERTIES
  ConfirmedIsPublished
