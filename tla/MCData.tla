------------------------------- MODULE MCData -------------------------------
(***************************************************************************)
(* Small instances, for TLC, of what the server keeps and what it computes *)
(* of it: the store and its two deployments (Stores), the figures of a     *)
(* company's filings (CompanyFacts), the technical indicators (Technicals, *)
(* with Candles), the statistics of a stock's past (TrackRecord), the      *)
(* boards of a population (Leaderboards), the Fear & Greed reading         *)
(* (MarketMood) and the research report (FactSheet).  They share no state: *)
(* a behaviour is one of the module in focus, and the variables of the     *)
(* others keep a value of their own initial state.                         *)
(***************************************************************************)
EXTENDS Technicals, Stores, FactSheet

CONSTANTS Foci

VARIABLES
  focus,
  calendar, filings, tag, oddities,       \* CompanyFacts
  study, session, stock, market, results, gaps, \* TrackRecord
  population,                             \* Leaderboards
  moodDay, files, missing, rows, asOf, history, moodWarm, reading, putCall, mood, points,
  fearGreed, moodFaults, wentBack, unsaved \* MarketMood

\* Bars that rise, fall and stay flat, one of them (a halt) without a range and a volume.
BarShapes ==
  {[open |-> 60 * c[1], close |-> 60 * c[2], high |-> 60 * c[3], low |-> 60 * c[4], volume |-> c[5]] :
     c \in {<<1, 1, 3, 1, 2>>, <<2, 3, 4, 2, 1>>, <<2, 2, 2, 2, 0>>}}
GroupPeriods == {1, 2, 4}
GaussWeights == <<1, 3>>
VigorWeights == <<1, 1>>
PeriodBounds == <<1, 3>>

\* "a" is "A" in lower case.
UpperCase(t) == IF t = "a" THEN "A" ELSE t
Tables == {"facts", "filed", "news", "social", "texts", "kept", "clips", "notes", "alerts",
           "holdings", "meters", "chat", "billing", "comments"}
CallsOf == [f \in Tables |-> IF f = "comments" THEN 2 ELSE 3]

\* Fiscal years that end in January, and in September.
FiscalCalendars ==
  {[ends |-> <<122, 213, 304, 396>>, label |-> 2], [ends |-> <<-2, 89, 180, 271>>, label |-> 2]}
Filed == INSTANCE CompanyFacts WITH
  Calendars <- FiscalCalendars, Started <- 9, Quarters <- 12, MaxOddities <- 2, Stale <- 340,
  MaxYears <- 10, MaxQ <- 8

Track == INSTANCE TrackRecord WITH
  Closes <- {0, 1, 2}, MonthDays <- 2, YearMonths <- 2, relStrengthWindows <- {1, 2},
  relStrengthAnchorTolerance <- 1, earningsWindowMax <- 3, minEarningsSamples <- 2,
  maxEarningsEvents <- 2, betaMinPairs <- 2, MaxGaps <- 2,
  LastSession <- [seasonality |-> 7, relative |-> 4, earnings |-> 4]

\* Two stocks that tie in some metrics, one of which pays out of a loss, one that does not pay,
\* and one of which hardly anything is known.
Scanned ==
  {[factors |-> [PE |-> 9, PB |-> 2, RevGrowth |-> 5, ROE |-> 3, TSR |-> 4],
    dividend |-> [yield |-> 3, growth |-> -1, coverage |-> 2, payout |-> 4],
    reaction |-> [avgAbsMove |-> 5, upRate |-> 50, samples |-> 4], windows |-> [m \in {1, 2} |-> m],
    signals |-> {[id |-> "rsi", direction |-> "bullish"], [id |-> "macd", direction |-> "bearish"]}],
   [factors |-> [PE |-> 9, PB |-> 1, RevGrowth |-> 7, ROE |-> 3],
    dividend |-> [yield |-> 3, growth |-> None, coverage |-> -2, payout |-> 0],
    reaction |-> [avgAbsMove |-> 5, upRate |-> 50, samples |-> 6], windows |-> [m \in {1} |-> 1],
    signals |-> {[id |-> "rsi", direction |-> "bearish"]}],
   [factors |-> [RevGrowth |-> 5, EarnGrowth |-> 1, TSR |-> 2], dividend |-> None,
    reaction |-> [avgAbsMove |-> 7, upRate |-> 50, samples |-> 3], windows |-> <<>>, signals |-> {}],
   [factors |-> <<>>, dividend |-> [yield |-> 5, growth |-> 2, coverage |-> 2, payout |-> 3],
    reaction |-> None, windows |-> [m \in {1, 2} |-> 1],
    signals |-> {[id |-> "macd", direction |-> "bullish"]}]}
Board == INSTANCE Leaderboards WITH
  Tickers <- 1..3, Profiles <- Scanned, relStrengthWindows <- {1, 2},
  minScorecardPopulation <- 2, minEarningsSamples <- 4

Mood == INSTANCE MarketMood WITH
  Lookback <- 2, HistoryDays <- 2, Warmed <- {"breadth"}, MaxDay <- 2, MaxFaults <- 1,
  today <- moodDay, published <- files, warm <- moodWarm, pc <- reading

\* A company that reports by quarter, one that lost and files by year, and one whose latest
\* quarter has no date; lines with an advice in one of them, and across two that close up when
\* another goes; an answer with sides only, and one that does not fill the sheet.
Filing(trailing, figures, quarter) ==
  [trailing |-> trailing, figures |-> figures, year |-> 20, quarter |-> quarter, shares |-> TRUE]
SomeFilings ==
  {Filing({"revenue", "eps_diluted"}, {"pe", "pb", "dy", "roe", "fcf"}, 24),
   Filing({}, {"pb", "roe"}, 0), Filing({"net_income"}, {}, 0)}
SomeHoldings == {<<24, 23, 0, 24, 22>>}
SomeReplies ==
  {[valuation |-> <<"fact", "advice">>, flows |-> <<"head", "advice", "tail">>,
    overview |-> <<"fact">>, bull |-> <<"fact", "fact", "advice">>, bear |-> <<"fact">>],
   [bull |-> <<"fact">>], [technical |-> <<"fact">>, macro |-> <<"fact">>]}
SomeOutages == {{"last", "quote"}, {"computed", "fundamentals"}, {"scorecard"}}

ASSUME SheetConstants == SheetAssumption

factVars == <<calendar, filings, tag, oddities>>
trackVars == <<study, session, stock, market, results, gaps>>
moodVars == <<moodDay, files, missing, rows, asOf, history, moodWarm, reading, putCall, mood, points,
              fearGreed, moodFaults, wentBack, unsaved>>

MCInit ==
  /\ focus \in Foci
  /\ Init
  /\ StoresInit /\ (focus # "Stores" => family = "facts")
  /\ Filed!Init /\ (focus # "CompanyFacts" => calendar = (CHOOSE c \in FiscalCalendars : TRUE) /\ tag = "Revenues")
  /\ Track!TrackInit /\ (focus # "TrackRecord" => study = "relative")
  /\ Board!BoardInit
  /\ Mood!Init
  /\ SheetInit
  /\ focus # "FactSheet" => /\ filing = Unfiled /\ holders = <<>> /\ path = "sync"
                            /\ answer = [p \in Providers |-> {}]

MCNext ==
  \/ focus = "Technicals" /\ Next /\ UNCHANGED <<focus, storeVars, factVars, trackVars, population, moodVars, sheetVars>>
  \/ focus = "Stores" /\ StoresNext /\ UNCHANGED <<focus, candleVars, factVars, trackVars, population, moodVars, sheetVars>>
  \/ focus = "CompanyFacts" /\ Filed!Next /\ UNCHANGED <<focus, candleVars, storeVars, trackVars, population, moodVars, sheetVars>>
  \/ focus = "TrackRecord" /\ Track!TrackNext
     /\ UNCHANGED <<focus, candleVars, storeVars, factVars, population, moodVars, sheetVars>>
  \/ focus = "Leaderboards" /\ Board!BoardNext
     /\ UNCHANGED <<focus, candleVars, storeVars, factVars, trackVars, moodVars, sheetVars>>
  \/ focus = "MarketMood" /\ Mood!Next /\ UNCHANGED <<focus, candleVars, storeVars, factVars, trackVars, population, sheetVars>>
  \/ focus = "FactSheet" /\ SheetNext
     /\ UNCHANGED <<focus, candleVars, storeVars, factVars, trackVars, population, moodVars>>

MCSpec == MCInit /\ [][MCNext]_<<focus, candleVars, storeVars, factVars, trackVars, population, moodVars, sheetVars>>

-----------------------------------------------------------------------------
(* The properties of the modules, under one name each; an invariant of a   *)
(* module is evaluated in its own behaviours, liveness under the fairness  *)
(* of its own module.                                                      *)

\* The state of the module in focus has its type.
TypesOK ==
  CASE focus = "Technicals" -> TypeOK
    [] focus = "Stores" -> StoresTypeOK
    [] focus = "CompanyFacts" -> Filed!FactsTypeOK
    [] focus = "TrackRecord" -> Track!TrackTypeOK
    [] focus = "Leaderboards" -> Board!BoardTypeOK
    [] focus = "MarketMood" -> Mood!TypeOK
    [] focus = "FactSheet" -> SheetTypeOK

\* The indicators keep to their scales, to the side of the price they claim, and agree with
\* the calculators that compute the same thing another way; statistics of the past stay what
\* they were, and a board ranks a population whatever its order.
IndicatorsAreSound ==
  CASE focus = "Technicals" -> CalculatorsAgree /\ TechnicalsAreSound
    [] focus = "TrackRecord" -> Track!TrackRecordIsSound
    [] focus = "Leaderboards" -> Board!BoardsAreSound
    [] OTHER -> TRUE

\* The in-memory store and the two Postgres databases answer every query alike.
StoresAgree == focus = "Stores" => BackendsAgree

\* The figures of a company's page are those of the periods its filings report.
FiguresAreTrue == focus = "CompanyFacts" => Filed!FiguresAreTrue

\* One point of the short volume and one reading a day; the reading recovers.
MoodIsSound ==
  /\ [][Mood!OneShortPointADay' /\ Mood!OneReadingADay']_moodVars
  /\ focus = "MarketMood" /\ Mood!Fairness => Mood!MoodRecovers
=============================================================================
