----------------------------- MODULE MCServing ------------------------------
(***************************************************************************)
(* Small instances, for TLC, of what requests are served with: the limiter *)
(* (RateLimit), the chat and its tools (Chat, ChatTools), the comments     *)
(* (Comments), the collected news (Corpus) and the ratios of a stock's     *)
(* page (Ratios).                                                          *)
(* They share no state: a behaviour is one of the module in focus, and the *)
(* variables of the others keep a value of their own initial state.        *)
(***************************************************************************)
EXTENDS RateLimit, Comments, Chat, ChatTools

CONSTANT Foci

VARIABLES
  focus,
  day, published, trending, row, board, step, hand, batch, answered, stubborn,
  pass, booted, newsFaults, listed, early, cold,                         \* Corpus
  company, omitted, down, chart                                          \* Ratios

\* A body stands for the tickers it cashtags.
Cashtags(b) == b
CommentBodies == {{"A"}, {"B"}}
Quota == [t \in {"pro", "free"} |-> IF t = "pro" THEN 2 ELSE 1]

Corp == INSTANCE Corpus WITH
  News <- 1..3, Lookback <- 1, Days <- 1, HotDays <- 2, PerTicker <- 2, Batch <- 2,
  MaxDay <- 3, MaxFaults <- 1, pc <- step, faults <- newsFaults

\* A company that gains, and one that loses more than it owns.
Gaining ==
  [Shares |-> 5, SharesPrior |-> 6, Revenue |-> 40, RevenuePrior |-> 30, NetIncome |-> 8,
   NetIncomePrior |-> 5, EPSDiluted |-> 2, EPSDilutedPrior |-> 1, EPSDilutedTTM |-> 2, EPSBasic |-> 3,
   Equity |-> 24, EquityPrior |-> 20, GrossProfit |-> 22, GrossProfitPrior |-> 15, TotalAssets |-> 60,
   TotalAssetsPrior |-> 50, TotalLiabilities |-> 36, OperatingCashFlow |-> 11, CapEx |-> 4,
   DividendsPaid |-> 3, OperatingIncomeLoss |-> 13, OperatingIncomeLossPrior |-> 9,
   InterestExpense |-> 2, IncomeTaxExpense |-> 3, DepreciationAmort |-> 4, PreTaxIncome |-> 11,
   CostOfRevenue |-> 18, AssetsCurrent |-> 26, AssetsCurrentPrior |-> 20, LiabilitiesCurrent |-> 14,
   LiabilitiesCurrentPrior |-> 12, RetainedEarnings |-> 7, InventoryNet |-> 6,
   CashAndEquivalents |-> 9, AccountsReceivable |-> 5, AccountsPayable |-> 4, PropertyPlantNet |-> 16,
   LongTermDebt |-> 10, LongTermDebtPrior |-> 9, DebtCurrent |-> 3, Goodwill |-> 5,
   IntangiblesExGoodwill |-> 2, BuybackAmount |-> 1, ResearchDevelopment |-> 6]
Losing ==
  [Gaining EXCEPT !.NetIncome = -7, !.OperatingIncomeLoss = -4, !.IncomeTaxExpense = 1,
     !.PreTaxIncome = -6, !.Equity = -6, !.TotalLiabilities = 66, !.OperatingCashFlow = -2,
     !.RetainedEarnings = -30, !.EPSDiluted = -1, !.EPSDilutedTTM = -1, !.EPSBasic = -1]
Ratio == INSTANCE Ratios WITH
  Companies <- {Gaining, Losing}, Technical <- [sma |-> 2, macd |-> 3], Crypto <- {"fundingRate"},
  Catalog <- <<"sma", "peTTM", "unknown", "vix", "roe", "fundingRate", "tsr", "macd", "fearGreed", "beta", "altmanZ">>,
  Charts <- {<<10, 12>>, <<9, 10, 12, 14>>}, Live <- 14, TradingDays <- 3, MinCloses <- 3,
  betaMinPairs <- 2, IsBenchmark <- FALSE, MaxOmitted <- 2

ASSUME ServingConstants ==
  ChatAssumption /\ BoundsAssumption /\ Corp!CorpusAssumption

corpusVars == <<day, published, trending, row, board, step, hand, batch, answered,
                stubborn, pass, booted, newsFaults, listed, early, cold>>
ratioVars == <<company, omitted, down, chart>>

MCInit ==
  /\ focus \in Foci
  /\ Init
  /\ ChatInit /\ (focus # "Chat" => backend = "memory" /\ tier = "free")
  /\ ToolsInit /\ (focus # "ChatTools" => allowed /\ flagged = {})
  /\ CommentsInit
  /\ Corp!Init /\ (focus # "Corpus" => stubborn = {})
  /\ Ratio!Init /\ (focus # "Ratios" => company = Gaining /\ chart = <<10, 12>>)

MCNext ==
  \/ focus = "RateLimit" /\ Next /\ UNCHANGED <<focus, chatVars, toolVars, commentVars, corpusVars, ratioVars>>
  \/ focus = "Chat" /\ ChatNext /\ UNCHANGED <<focus, vars, toolVars, commentVars, corpusVars, ratioVars>>
  \/ focus = "ChatTools" /\ ToolsNext /\ UNCHANGED <<focus, vars, chatVars, commentVars, corpusVars, ratioVars>>
  \/ focus = "Comments" /\ CommentsNext /\ UNCHANGED <<focus, vars, chatVars, toolVars, corpusVars, ratioVars>>
  \/ focus = "Corpus" /\ Corp!Next /\ UNCHANGED <<focus, vars, chatVars, toolVars, commentVars, ratioVars>>
  \/ focus = "Ratios" /\ Ratio!Next /\ UNCHANGED <<focus, vars, chatVars, toolVars, commentVars, corpusVars>>

MCSpec == MCInit /\ [][MCNext]_<<focus, vars, chatVars, toolVars, commentVars, corpusVars, ratioVars>>

-----------------------------------------------------------------------------
(* The properties of the modules, under one name each. *)

\* Every module's state has its type.
TypesOK ==
  TypeOK /\ ChatTypeOK /\ ToolsTypeOK /\ CommentsTypeOK /\ Corp!TypeOK /\ Ratio!RatioTypeOK

\* A ratio is shown as the complete filings give it, or not at all, but for the listed ones.
RatiosAreSound == focus = "Ratios" => Ratio!RatiosAreSound

\* The news: what the board says is hot is kept, and headlines get translated under the
\* fairness of the module.
NewsIsSound ==
  /\ [][Corp!HotIsKeptOnceUp']_corpusVars
  /\ focus = "Corpus" /\ Corp!Fairness => Corp!HeadlinesTranslated
=============================================================================
