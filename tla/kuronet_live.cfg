SPECIFICATION FairSpec
CONSTANTS
  Conns = {1, 2}
  NoConn = NoConn
  Files = 1
  RunsFirst = TRUE
  MayStop = TRUE
  Tokens = {t1}
  NoToken = NoToken
  NoClient = NoClient
  Requests <- MCLiveRequests
  NoRequest = NoRequest
  Hosts = {h1}
  MaxLines <- MCSilent
  MaxReads <- MCMaxReads
  MaxStarts = 1
PROPERTY HeadersAreHandled
PROPERTY DisconnectedMembersLeave
PROPERTY DescriptorsComeBack
\* The process ends: nothing happens after exit or an uncaught exception.
CHECK_DEADLOCK FALSE
