SPECIFICATION Spec
CONSTANTS
  Procs = {p1, p2}
  Users = {u}
  Tickers = {aapl}
  Demo = {}
  Limit <- OneEach
  FreeLimit = 1
  DailyCap = 1
  Ttl = 1
  MonthOf <- OneMonth
  None = None
  LastDay = 1
  MaxRestarts = 1
  StoreMayFail = TRUE
INVARIANTS
  TypeOK
  GateIsExact
  BudgetIsSpentOnProse
  ChargedOncePerReport
PROPERTIES
  ImplementsSingleFlight
SYMMETRY Symmetric
CHECK_DEADLOCK FALSE
