CONSTANTS
  User = {u1, u2}
  MaxRequests = 2
  MaxDrops = 1
  MaxSpurious = 1
SPECIFICATION FairSpec
INVARIANTS
  LoneRequestGetsItsReply
PROPERTIES
  ImplementsTaskService
  WaitsEnd
CHECK_DEADLOCK FALSE
