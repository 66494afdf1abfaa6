CONSTANTS
  A = A
  Z = Z
  K = K
  W = W
  E = E
  B = B
  A0 = A0
  KW = KW
  KZ = KZ
  o1 = o1
  o2 = o2
  k1 = k1
  k2 = k2
  m = m
  f = f
  s1 = s1
  s2 = s2
  e = e
  an = an
  br = br
  top = top
  con = con
  no = no
  NotText = NotText
  Unnamed = Unnamed
  Joined <- MCJoined
  Suffixed <- MCSuffixed
  Files <- MCFiles
  Arguments <- MCArguments
  Configs <- MCConfigs
  ClientNames = {top, no}
SPECIFICATION Spec
INVARIANTS
  OrderKept
  NoThreadAfterException
  TopicsJoined
  FactoryCodeStays
CHECK_DEADLOCK FALSE
