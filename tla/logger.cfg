SPECIFICATION FairSpec
CONSTANTS
  Workers = {w1, w2}
  Console = Console
  MaxLines = 2
INVARIANT TypeOK
INVARIANT PrintedOnce
PROPERTY AnswersSurvive
INVARIANT QuietPrompt
PROPERTY HistoryIsDrained
\* The process ends: nothing happens after exit or undefined behaviour.
CHECK_DEADLOCK FALSE
