SPECIFICATION FairSpec
CONSTANTS
  c1 = c1
  c2 = c2
  c3 = c3
  none = none
  Conns = {c1, c2, c3}
  Names <- MCNames
  Id <- MCId
  Login <- MCLogin
  Hosts = {h1}
  MaxLines <- MCMaxLines
  MaxReads <- MCMaxReads
  MaxStarts = 2
INVARIANT TypeOK
INVARIANT LoopAlive
INVARIANT LoopsBounded
INVARIANT PiecesOnce
PROPERTY OnlyLeaversRemoved
PROPERTY StopEnds
PROPERTY ClientsAreHeard
PROPERTY LeaversGo
\* The chat may rest: stopped, with nobody sending.
CHECK_DEADLOCK FALSE
