SPECIFICATION FairSpec
CONSTANTS
  MaxJobs = 2
  MaxCommands = 1
  MaxSnapshots = 1
  PlaysMayFail = FALSE
  RepeatedClicks = FALSE
  QuickEnds = TRUE
PROPERTY ContinueNeverStalls
CHECK_DEADLOCK FALSE
