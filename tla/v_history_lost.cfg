SPECIFICATION Spec
CONSTANTS
  Workers = {w1}
  Console = Console
  MaxLines = 1
INVARIANT HistoryIsSaved
\* The process ends: nothing happens after exit or undefined behaviour.
CHECK_DEADLOCK FALSE
