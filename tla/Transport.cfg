SPECIFICATION Spec
CONSTANTS
  MaxJobs = 3
  MaxCommands = 1
  MaxSnapshots = 1
  PlaysMayFail = TRUE
  RepeatedClicks = TRUE
  QuickEnds = TRUE
INVARIANTS
  OneContinuationPerPlay
PROPERTY StoppedIsNotContinued
CHECK_DEADLOCK FALSE
