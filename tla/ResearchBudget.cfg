SPECIFICATION Spec
CONSTANTS
  Procs = {p1, p2}
  Users = {u}
  Tickers = {aapl, msft}
  Demo = {}
  Limit <- OneEach
  FreeLimit = 1
  DailyCap = 1
  Ttl = 1
  MonthOf <- OneMonth
  None = None
  LastDay = 1
  MaxRestarts = 0
  StoreMayFail = FALSE
INVARIANTS
  DailyCapRespected
CHECK_DEADLOCK FALSE
