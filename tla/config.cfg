SPECIFICATION FairSpec
CONSTANTS
  Threads = {t1, t2, t3}
  NoThread = NoThread
INVARIANT TypeOK
PROPERTY FilesSurvive
PROPERTY ConfigIsMade
