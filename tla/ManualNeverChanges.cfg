SPECIFICATION FairSpec
CONSTANTS
  Mics = {builtin, usb}
  Eligible = {builtin, usb}
  Virtual = virtual
  NoName = none
  Removable = {}
  CommandsMayFail = FALSE
  MaxChanges = 0
PROPERTY ManualNeverChangesDefault
CHECK_DEADLOCK FALSE
