SPECIFICATION FairSpec
CONSTANTS
  Threads = {t1, t2, t3}
  MaxEdits = 4
INVARIANTS
  ReturnIsCovered
PROPERTY WaitersReturn
CHECK_DEADLOCK FALSE
