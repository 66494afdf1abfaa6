SPECIFICATION FairSpec
CONSTANTS
  NB = 2
  NE = 1
  WSBrokers <- MCWSBrokers
  MaxStarts = 2
  MaxStops = 2
INVARIANTS
  StartedMeansAnnounced
  StoppedMeansReturned
  NoServerOutlivesProcess
PROPERTIES
  HeardStopReturns
  SettledDestroyReturns
CHECK_DEADLOCK FALSE
