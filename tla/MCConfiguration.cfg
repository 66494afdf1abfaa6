CONSTANTS
  root = root
  home = home
  sub = sub
  far = far
  wk = wk
  blank = blank
  broken = broken
  dotted = dotted
  lib = lib
  nk = nk
  jp = jp
  empty = empty
  bad = bad
  inc = inc
  inc2 = inc2
  deep = deep
  gone = gone
  shelf = shelf
  shelf2 = shelf2
  inner = inner
  m0 = m0
  m1 = m1
  m2 = m2
  m3 = m3
  m4 = m4
  m5 = m5
  m6 = m6
  b = b
  newline = newline
  Quote = Quote
  ProjectPlace = ProjectPlace
  SubProjectPlace = SubProjectPlace
  ShelfPlace = ShelfPlace
  IntLimit = 16
  FloatBits = 3
  FloatExponent = 4
  TextGrain = 5
  NotFinite = NotFinite
  Control <- MCControl
  Escapes <- MCEscapes
  Roots = {root}
  JsonNames = {nk, wk, empty, blank, shelf, bad}
  CommandLines <- MCCommandLines
  PathNamed <- MCPathNamed
  Texts <- MCTexts
  Homes <- MCHomes
  Default <- MCDefault
  Results <- MCResults
  MaxHops = 3
SPECIFICATION Spec
INVARIANTS
  PlacesAreTheirOwn
  EveryFileCounts
  EndsAgree
CHECK_DEADLOCK FALSE
