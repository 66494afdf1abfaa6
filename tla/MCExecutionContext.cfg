SPECIFICATION FairSpec
CONSTANTS
  Users = {u1, u2}
  Timers = {w1, w2}
  Kinds = {"OneShotEC", "TimerEC", "PeriodicAnchor"}
  BoundStops = TRUE
  NoOne = NoOne
  Garbage = Garbage
  NullThread = NullThread
  MaxCalls = 2
INVARIANTS
  AtMostOneTimer
  StoppedMeansQuiet
  NeverJoinsNothing
PROPERTIES
  ToldIsDone
CHECK_DEADLOCK FALSE
