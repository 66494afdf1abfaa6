SPECIFICATION FairSpec
CONSTANTS
  Threads = {t1}
  Ops <- MCOps
  Inlets <- MCInlets
  Connections <- MCConnections
  Executable = {"src", "f"}
  Invocable = {"g"}
  Settable = {"q"}
  Keys <- MCKeys
  Faulty = {"f", "q"}
  MaxRequests = 2
  MaxClock = 14
INVARIANTS
  EventDeliversValue
  PullIsFresh
  DownstreamInSync
PROPERTIES
  RequestsReturn
CHECK_DEADLOCK FALSE
