\* One provider, three updates of which the last is malformed, two processes.
SPECIFICATION Spec
CONSTANTS
  Providers = {"uniswap"}
  None = None
  Absent = None
  DegradedThreshold = 1
  FailureThreshold = 2
  RecoveryThreshold = 2
  StartupMessages = TRUE
  HealthMessages = TRUE
  RepeatInterval = 1
  StartupInterval = 1
  PassLimit = 1
  MaxUpdate = 3
  BatchSize = 2
  Malformed = {3}
  MaxProcesses = 2
INVARIANTS
  CommandsAreTakenInTurn
  RemindersAreSpaced
PROPERTY
  OperatorIsUpToDate
