SPECIFICATION Spec
CONSTANTS
  c1 = c1
  c2 = c2
  c3 = c3
  i1 = i1
  i2 = i2
  i3 = i3
  t1 = t1
  t2 = t2
  Conns = {c1, c2, c3}
  Ids = {i1, i2}
  Tokens = {t1, t2}
  NoToken = NoToken
  NoId = NoId
  NoClient = NoClient
  NoRequest = NoRequest
  Requests <- MCRequests
  FreshIds = FALSE
  Logins = {i1, i2}
SYMMETRY MCSymmetry
INVARIANT TypeOK
INVARIANT OneOwner
INVARIANT AdmissionGate
INVARIANT OneReply
PROPERTY ImplementsAdmission
\* The process ends: nothing happens after exit or an uncaught exception.
CHECK_DEADLOCK FALSE
