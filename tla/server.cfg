SPECIFICATION FairSpec
CONSTANTS
  Conns = {c1, c2, c3, c4}
  NoConn = NoConn
  Files = 3
  RunsFirst = TRUE
  MayStop = TRUE
INVARIANT TypeOK
INVARIANT OneAccept
INVARIANT HandlerForEach
PROPERTY IntakeEnds
PROPERTY QueuedAreTaken
\* The server may end idle: run() has returned, or everyone is served.
CHECK_DEADLOCK FALSE
