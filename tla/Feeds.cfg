SPECIFICATION MCSpec
CONSTANTS
  a = a
  b = b
  c = c
  d = d
  e = e
  tw = tw
  Symbols <- AllSymbols
  Foreign = {tw}
  Bases <- FullBases
  MaxSymbols = 4
  ViewedSlots = 2
  MaxEdits = 3
  MaxDrops = 1
  Callers = {w1, w2, w3}
  Cost = 2
  Bursts = {0, 2}
  MaxCalls = 2
  Clients = {c1}
  ChanCap = 1
  MaxTrades = 2
  MaxFaults = 1
  Requests = {r1, r2}
  MaxKey = 2
INVARIANTS
  TypesOK
  QuietIsInSync
  WithinCap
  NeverStorms
PROPERTIES
  WireCatchesUp
  FeedIsSound
  PacedCallsReturn
  CachesCatchUp
CHECK_DEADLOCK FALSE
