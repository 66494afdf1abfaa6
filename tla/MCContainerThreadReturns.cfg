SPECIFICATION FairSpec
CONSTANTS
  Callers = {c1, c2}
  Operations = {o1, o2}
  NoOne = NoOne
  MaxCalls = 2
PROPERTIES
  CallReturns
CHECK_DEADLOCK FALSE
