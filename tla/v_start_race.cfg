SPECIFICATION FairSpec
CONSTANTS
  Conns = {c1, c2}
  NoConn = NoConn
  Files = 2
  RunsFirst = TRUE
  MayStop = FALSE
PROPERTY StartedServes
\* The server may end idle: run() has returned, or everyone is served.
CHECK_DEADLOCK FALSE
