SPECIFICATION Spec
CONSTANTS
  c1 = c1
  c2 = c2
  c3 = c3
  i1 = i1
  i2 = i2
  i3 = i3
  t1 = t1
  t2 = t2
  Conns = {c1}
  Ids = {i1}
  Tokens = {t1}
  NoToken = NoToken
  NoId = NoId
  NoClient = NoClient
  NoRequest = NoRequest
  Requests <- MCRequests
  FreshIds = TRUE
  Logins = {}
PROPERTY OnlyDeadArePurged
\* The process ends: nothing happens after exit or an uncaught exception.
CHECK_DEADLOCK FALSE
