SPECIFICATION FairSpec
CONSTANTS
  Mics = {hw, monitor}
  Eligible = {hw}
  Virtual = virtual
  NoName = none
  Removable = {virtual}
  CommandsMayFail = TRUE
  MaxChanges = 2
INVARIANTS
  BeliefIsTrue
  ShutdownGivesBack
PROPERTY ClearedIsReclaimed
CHECK_DEADLOCK FALSE
