SPECIFICATION MCSpec
CONSTANTS
  Foci = {"Technicals", "Stores", "CompanyFacts", "TrackRecord", "Leaderboards", "MarketMood", "FactSheet"}
  Shapes <- BarShapes
  Short = 1
  Long = 3
  Fast = 1
  Slow = 2
  Smooth = 2
  Period = 2
  Window = 2
  SlowK = 2
  SlowD = 2
  Horizon = 1
  MinBars = 3
  Oversold = 1800
  Hundred = 6000
  MaxBars = 6
  Unit = 60
  Hull = 4
  Groups <- GroupPeriods
  Gauss <- GaussWeights
  Vigor <- VigorWeights
  Wide = 3
  StepAF = 10
  MaxAF = 20
  Bounds <- PeriodBounds
  Users = {"u1", "u2"}
  Spellings = {"A", "a", "B"}
  Key <- UpperCase
  Families <- Tables
  MaxCalls <- CallsOf
  None = None
  Unfiled = Unfiled
  Filings <- SomeFilings
  Holdings <- SomeHoldings
  Replies <- SomeReplies
  Outages <- SomeOutages
INVARIANTS
  TypesOK
  IndicatorsAreSound
  StoresAgree
  FiguresAreTrue
  SheetIsSound
PROPERTIES
  OthersUntouched
  MoodIsSound
CHECK_DEADLOCK FALSE
