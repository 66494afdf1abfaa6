CONSTANTS
  a = a
  b = b
  t = t
  t0 = t0
  t1 = t1
  c = c
  c0 = c0
  c1 = c1
  Suffixed <- MCSuffixed
  Names <- MCNames
  Payloads <- MCPayloads
  Routed <- MCRouted
  Process <- MCProcess
  Inlet <- MCInlet
  Connects <- MCConnects
  At <- MCAt
  Out <- MCOut
  In <- MCIn
  InletOf <- MCInletOf
  ConName <- MCConName
  AutoNamed <- MCAutoNamed
  Faulty <- MCFaulty
  Creates <- MCCreates
  MadeAt <- MCMadeAt
  MadeInfo <- MCMadeInfo
  Initially <- MCInitially
SPECIFICATION FairSpec
INVARIANTS
  SuccessMeansBothEnds
  InletHalfHasOutletHalf
  ConnectsWhatWasNamed
  SequentialRequestsAreExclusive
  CreatedNamesUnique
  ProxyIsFaithful
PROPERTIES
  RequestReturns
CHECK_DEADLOCK FALSE
