CONSTANTS
  Commands <- MCCommands
  Lower <- MCLower
  Echo <- MCEcho
  Templates <- MCTemplates
  FirstDisk <- MCFirstDisk
  MaxRuns = 3
  MaxEdits = 1
  MaxClock = 2
SPECIFICATION ToolFairSpec
INVARIANTS WorkIsKept ComponentAgrees
PROPERTY InvocationEnds
CHECK_DEADLOCK FALSE
