\* Two tasks, the first three times as long as the second; any step may fail
\* and the process may be stopped or killed at any point.
CONSTANTS
  Tasks = {1, 2}
  Interval <- SlowAndFast

SPECIFICATION FairSpec

INVARIANTS
  ClosedQuietly
  WorkIsMarked
PROPERTIES
  NeverTooEarly
  ShutdownIsFinal
  NoTaskStarves
  StopEnds
