SPECIFICATION Spec
CONSTANTS
  Threads = {t1, t2}
  Ops <- MCPairOps
  Inlets <- MCPairInlets
  Connections <- MCPairConnections
  Executable = {"f"}
  Invocable = {"g"}
  Settable = {"q"}
  Keys <- MCPairKeys
  Faulty = {"q"}
  MaxRequests = 2
  MaxClock = 12
INVARIANTS
  EventReachesOwner
CHECK_DEADLOCK FALSE
