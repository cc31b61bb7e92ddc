SPECIFICATION Spec
CONSTANTS
  MaxJobs = 3
  MaxCommands = 1
  MaxSnapshots = 1
  PlaysMayFail = FALSE
  RepeatedClicks = FALSE
  QuickEnds = FALSE
PROPERTY ClickIsNotOvertaken
CHECK_DEADLOCK FALSE
