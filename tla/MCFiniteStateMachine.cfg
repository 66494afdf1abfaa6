SPECIFICATION Spec
CONSTANTS
  Threads = {t1, t2}
  States <- MCStates
  Transit <- MCTransit
  Defaults = {"created", "running", "ghost"}
  OnEntry <- MCOnEntry
  Unknown = "ghost"
  Missing = "missing"
  NoOne = NoOne
  MaxRequests = 3
INVARIANTS
  EcFollowsFsm
CHECK_DEADLOCK FALSE
