\* Three notifications in batches of two, one of them undeliverable, with an
\* error and a restart.
CONSTANTS
  Notifications = {1, 2, 3}
  Undeliverable = {2}
  MaxAttempts = 2
  QueueCapacity = 2
  RecoveryLimit = 1
  MaxErrors = 1
  MaxRestarts = 1

SPECIFICATION FairSpec
CHECK_DEADLOCK FALSE

INVARIANTS
  SentIsConfirmed
  RepeatedOnlyByRestart
PROPERTIES
  InOrder
  QueuedIsDecided
