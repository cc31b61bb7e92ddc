SPECIFICATION FairSpec
CONSTANTS
  MaxJobs = 3
  MaxCommands = 1
  MaxSnapshots = 2
  PlaysMayFail = FALSE
  RepeatedClicks = FALSE
  QuickEnds = FALSE
PROPERTY ContinueNeverStalls
CHECK_DEADLOCK FALSE
