SPECIFICATION Spec
CONSTANTS
  Procs = {p1, p2}
  Users = {u}
  Tickers = {aapl, msft}
  Demo = {}
  Limit <- OneEach
  FreeLimit = 1
  DailyCap = 2
  Ttl = 1
  MonthOf <- OneMonth
  None = None
  LastDay = 0
  MaxRestarts = 0
  StoreMayFail = FALSE
INVARIANTS
  QuotaRespected
CHECK_DEADLOCK FALSE
