SPECIFICATION FairSpec
CONSTANTS
  Lines <- MCLines
  MaxInt = 524287
  Uptimes <- MCUptimes
  MaxTime = 1
  MaxBangs = 3
  MaxLines = 3
INVARIANT TypeOK
INVARIANT CommandsInOrder
INVARIANT StampsAreOwn
PROPERTY CommandsAreTaken
\* The process ends, or the host types no more.
CHECK_DEADLOCK FALSE
