SPECIFICATION FairSpec
CONSTANTS
  Mics = {hw}
  Eligible = {hw}
  Virtual = virtual
  NoName = none
  Removable = {}
  CommandsMayFail = FALSE
  MaxChanges = 1
PROPERTY SelectedDeviceIsReclaimed
CHECK_DEADLOCK FALSE
