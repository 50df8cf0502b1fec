SPECIFICATION MCSpec
CONSTANTS
  Procs = {p1, p2}
  t1 = t1
  t2 = t2
  None = None
  AlertIds = {a1, a2}
  Tickers = {t1}
  TickerOf <- Watched
  MaxArmings = 2
  MaxFaults = 1
  HasIndices = FALSE
  MaxAttempts = 2
  MaxDay = 2
  MaxSendFaults = 3
  f1 = f1
  f2 = f2
INVARIANTS
  TypesOK
  OneShot
  OnceADay
PROPERTIES
  GatesAreSound
  AlertsFire
  BriefingArrives
  BoardsCatchUp
  BuysAreKept
CHECK_DEADLOCK FALSE
