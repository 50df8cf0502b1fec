SPECIFICATION MCSpec
CONSTANTS
  IPs = {ip1}
  Cost = 2
  Burst = 2
  IdleEv = 5
  MaxLag = 1
  LastTick = 12
  None = None
  Foci = {"RateLimit", "Chat", "ChatTools", "Comments", "Corpus", "Ratios"}
  Procs = {p1, p2}
  Nobody = Nobody
  Sessions = {p1, p2}
  Bodies <- CommentBodies
  MentionsOf <- Cashtags
  Users = {u}
  MaxCalls = 5
  Limits <- Quota
  Costs = {1, 2}
  DayCap = 1
  MaxConvs = 2
  MaxDay = 2
  MaxTurns = 3
  MaxFaults = 1
  Tickers = {"STOCK", "FUND"}
  Funds = {"FUND"}
  SecListed = {"FUND"}
  MaxIters = 2
  MaxToolCalls = 3
INVARIANTS
  TypesOK
  LimitIsExact
  ChatIsSound
  AnswerIsSound
  CommentsConsistent
  RatiosAreSound
PROPERTIES
  NewsIsSound
CHECK_DEADLOCK FALSE
