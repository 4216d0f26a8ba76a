SPECIFICATION Spec
CONSTANTS
  Conns = {1, 2}
  NoConn = NoConn
  Files = 2
  RunsFirst = TRUE
  MayStop = FALSE
  Tokens = {t1}
  NoToken = NoToken
  NoClient = NoClient
  Requests <- MCRequests
  NoRequest = NoRequest
  Hosts = {h1}
  MaxLines <- MCMaxLines
  MaxReads <- MCMaxReads
  MaxStarts = 1
INVARIANT TypeOK
INVARIANT OneView
PROPERTY ImplementsAdmission
\* The process ends: nothing happens after exit or an uncaught exception.
CHECK_DEADLOCK FALSE
