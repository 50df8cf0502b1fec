----------------------------- MODULE TrackRecord -----------------------------
(***************************************************************************)
(* internal/indicators: what a stock's daily bars say of its past.  Its    *)
(* seasonality (seasonality.go), its strength relative to a benchmark      *)
(* (relativestrength.go), its reaction to earnings (earningsreaction.go)   *)
(* and its beta (fundamental_inc3.go, compute.go), and the handlers that   *)
(* answer with them (api/signals.go).                                      *)
(*                                                                         *)
(* A study gathers its own inputs: bars of the stock, of the benchmark, or *)
(* the days on which results were filed.  Days are numbers, all months     *)
(* have MonthDays of them.  A move is in hundredths of a percent, which is *)
(* what round2 keeps of it; Closes are such that moves between them are    *)
(* whole numbers, so that only means and medians are rounded.              *)
(***************************************************************************)
EXTENDS Integers, FiniteSets, FiniteSetsExt, Sequences, SequencesExt, TLC

CONSTANTS
  Closes,       \* the prices of a close
  MonthDays, YearMonths,
  relStrengthWindows,          \* lengths, in months
  relStrengthAnchorTolerance,  \* in days
  earningsWindowMax, minEarningsSamples, maxEarningsEvents,
  betaMinPairs,
  LastSession,  \* bound: days of a study
  MaxGaps,      \* bound: missing bars and bars without a price
  None

VARIABLES
  study,
  session,       \* the last day
  stock, market, \* bars, oldest first
  results,       \* days on which results were filed, newest first
  gaps

trackVars == <<study, session, stock, market, results, gaps>>

Studies == {"seasonality", "relative", "earnings"}

-----------------------------------------------------------------------------
(* The calculators. *)

pct(to, from) == (10000 * to) \div from - 10000

SumOf(s) == FoldLeft(LAMBDA x, y : x + y, 0, s)
Size(x) == IF x < 0 THEN -x ELSE x
\* n / d to the nearest whole number, halves away from zero.
round2(n, d) == LET q == (2 * Size(n) + d) \div (2 * d) IN IF n < 0 THEN -q ELSE q
meanOf(s) == round2(SumOf(s), Len(s))
\* In hundredths.
posRate(s) == round2(100 * Len(SelectSeq(s, LAMBDA x : x > 0)), Len(s))

monthOf(bar) == bar.day \div MonthDays

Months(bars) == {monthOf(bars[i]) : i \in DOMAIN bars}

lastBar(bars, m) == bars[Max({i \in DOMAIN bars : monthOf(bars[i]) = m})]

\* Mutant: the move over a month without bars goes to the month after it.
BeforeOverGaps(bars, m) == {n \in Months(bars) : n < m /\ \A x \in Months(bars) : x <= n \/ x >= m}

\* The month that a move into m starts from, if it has bars.
Before(bars, m) == {n \in Months(bars) : n = m - 1}

Sampled(bars) == {m \in Months(bars) : \E n \in Before(bars, m) : lastBar(bars, n).close > 0}

monthReturn(bars, m) ==
  LET n == CHOOSE n \in Before(bars, m) : TRUE
  IN  pct(lastBar(bars, m).close, lastBar(bars, n).close)

medianOf(xs) ==
  LET c == SortSeq(xs, <)
      n == Len(c)
  IN  IF n % 2 = 1 THEN c[(n + 1) \div 2] ELSE round2(c[n \div 2] + c[n \div 2 + 1], 2)

SeasonStat(bars, ms) ==
  LET rs == [i \in 1..Cardinality(ms) |-> monthReturn(bars, SetToSortSeq(ms, <)[i])]
  IN  [avg |-> meanOf(rs), median |-> medianOf(rs), winRate |-> posRate(rs), years |-> Len(rs)]

ComputeSeasonality(bars) ==
  IF Sampled(bars) = {} THEN None
  ELSE [months |-> [y \in {m % YearMonths : m \in Sampled(bars)} |->
                      SeasonStat(bars, {m \in Sampled(bars) : m % YearMonths = y})],
        fromYear |-> Min(Months(bars)) \div YearMonths, toYear |-> Max(Months(bars)) \div YearMonths,
        samples |-> Cardinality(Sampled(bars))]

LatestOf(bars, is) == IF is = {} THEN None ELSE bars[Max(is)]

candleAtOrBefore(bars, d) ==
  LatestOf(bars, {i \in DOMAIN bars : bars[i].day <= d /\ bars[i].close > 0})
candleStrictlyBefore(bars, d) ==
  LatestOf(bars, {i \in DOMAIN bars : bars[i].day < d /\ bars[i].close > 0})
candleStrictlyAfter(bars, d) ==
  LET is == {i \in DOMAIN bars : bars[i].day > d /\ bars[i].close > 0}
  IN  IF is = {} THEN None ELSE bars[Min(is)]

near(bar, d) == bar # None /\ d - bar.day <= relStrengthAnchorTolerance

\* What one leg did over the window that ends on day d, both its bars being near.
legReturn(bars, d, w) ==
  pct(candleAtOrBefore(bars, d).close, candleAtOrBefore(bars, d - w * MonthDays).close)

ComputeRelativeStrength(s, b) ==
  IF Len(s) < 2 \/ Len(b) < 2 THEN None
  ELSE LET end == Last(s).day
           ws == {w \in relStrengthWindows :
                    /\ near(candleAtOrBefore(s, end - w * MonthDays), end - w * MonthDays)
                    /\ near(candleAtOrBefore(b, end - w * MonthDays), end - w * MonthDays)}
       IN  IF Last(s).close <= 0 \/ ~near(candleAtOrBefore(b, end), end) \/ ws = {} THEN None
           ELSE [w \in ws |-> [stock |-> legReturn(s, end, w), benchmark |-> legReturn(b, end, w),
                                relative |-> legReturn(s, end, w) - legReturn(b, end, w)]]

\* Around the filing on day d: None when bars do not bracket it closely.
reaction(bars, d) ==
  LET b == candleStrictlyBefore(bars, d)
      a == candleStrictlyAfter(bars, d)
  IN  IF b = None \/ a = None THEN None
      ELSE IF a.day - b.day > earningsWindowMax THEN None ELSE pct(a.close, b.close)

ComputeEarningsReaction(dates, bars) ==
  LET events == SelectSeq(dates, LAMBDA d : reaction(bars, d) # None)
      moves == [i \in DOMAIN events |-> reaction(bars, events[i])]
      n == Len(events)
  IN  IF Len(bars) < 2 \/ n < minEarningsSamples THEN None
      ELSE [events |-> [i \in 1..(IF n > maxEarningsEvents THEN maxEarningsEvents ELSE n) |->
                          [date |-> events[i], move |-> moves[i]]],
            avgMove |-> meanOf(moves), avgAbsMove |-> meanOf([i \in DOMAIN moves |-> Size(moves[i])]),
            upRate |-> posRate(moves), samples |-> n]

\* Pairs of returns over the same days: of stock bars in a row, both on days of the market.
alignedReturns(s, m) ==
  LET on(d) == {j \in DOMAIN m : m[j].day = d}
      price(d) == m[CHOOSE j \in on(d) : TRUE].close
      paired == {i \in 2..Len(s) : \A k \in {i - 1, i} :
                   s[k].close > 0 /\ on(s[k].day) # {} /\ price(s[k].day) > 0}
      order == SetToSortSeq(paired, <)
  IN  [k \in DOMAIN order |-> LET i == order[k]
                              IN  <<pct(s[i].close, s[i - 1].close),
                                    pct(price(s[i].day), price(s[i - 1].day))>>]

\* A ratio <<covariance, variance>>.
beta(pairs) ==
  LET n == Len(pairs)
      sum(f(_)) == SumOf([i \in DOMAIN pairs |-> f(pairs[i])])
      sumS == sum(LAMBDA p : p[1])
      sumM == sum(LAMBDA p : p[2])
      varM == n * sum(LAMBDA p : p[2] * p[2]) - sumM * sumM
  IN  IF n < betaMinPairs \/ varM <= 0 THEN None
      ELSE <<n * sum(LAMBDA p : p[1] * p[2]) - sumS * sumM, varM>>

-----------------------------------------------------------------------------
(* The handlers: a status and what it is answered with.  Bars that are missing, or could *)
(* not be fetched, are <<>>, such filings None.                                          *)

NotFound == [code |-> 404, body |-> None]
Unprocessable == [code |-> 422, body |-> None]
Answer(stats) == IF stats = None THEN Unprocessable ELSE [code |-> 200, body |-> stats]

getSeasonality(s) == IF s = <<>> THEN NotFound ELSE Answer(ComputeSeasonality(s))

\* The benchmark is not compared with itself.
getRelativeStrength(isBenchmark, s, b) ==
  CASE isBenchmark -> Unprocessable
    [] ~isBenchmark /\ s = <<>> -> NotFound
    [] ~isBenchmark /\ s # <<>> /\ b = <<>> -> Unprocessable
    [] OTHER -> Answer(ComputeRelativeStrength(s, b))

getEarningsReaction(s, dates) ==
  CASE s = <<>> -> NotFound
    [] s # <<>> /\ dates = None -> Unprocessable
    [] OTHER -> Answer(ComputeEarningsReaction(dates, s))

-----------------------------------------------------------------------------
(* The market and the SEC: the inputs grow by a day at a time. *)

TrackInit ==
  /\ study \in Studies
  /\ session = 0 /\ gaps = 0
  /\ stock = <<>> /\ market = <<>> /\ results = <<>>

WithBar(bars, close) ==
  IF close = None THEN bars ELSE Append(bars, [day |-> session + 1, close |-> close])

\* A day with the stock's close and the benchmark's, each None when there is no bar, on
\* which results may be filed.
Day(s, m, filed) ==
  /\ session < LastSession[study]
  /\ gaps' = gaps + Cardinality({k \in 1..2 : <<s, m>>[k] \in {None, 0}}) /\ gaps' <= MaxGaps
  /\ session' = session + 1
  /\ stock' = WithBar(stock, s)
  /\ market' = IF study = "relative" THEN WithBar(market, m) ELSE market
  /\ results' = IF filed THEN <<session + 1>> \o results ELSE results
  /\ UNCHANGED study

TrackNext ==
  \E s \in Closes \cup {None}, m \in (Closes \ {0}) \cup {None}, filed \in BOOLEAN :
    /\ study # "relative" => m = CHOOSE c \in Closes \ {0} : TRUE
    /\ filed => study = "earnings"
    /\ Day(s, m, filed)

TrackSpec == TrackInit /\ [][TrackNext]_trackVars

-----------------------------------------------------------------------------
(* Properties. *)

Bar == [day : Nat, close : Closes]
TrackTypeOK ==
  /\ study \in Studies /\ session \in Nat /\ gaps \in 0..MaxGaps
  /\ stock \in Seq(Bar) /\ market \in Seq(Bar) /\ results \in Seq(Nat)

Upto(bars, k) == SubSeq(bars, 1, k)

\* What is told of a month that is over is not changed by later bars, and a calendar
\* month is only ever given moves between bars less than two months apart.
SeasonsAreHistory ==
  \A k \in 1..Len(stock) :
    LET past == Upto(stock, k)
    IN  \A m \in Sampled(past) :
          /\ m < monthOf(stock[k]) =>
               m \in Sampled(stock) /\ monthReturn(past, m) = monthReturn(stock, m)
          /\ \E n \in Before(past, m) : lastBar(past, m).day - lastBar(past, n).day < 2 * MonthDays

\* A reaction that was measured stays what it was when bars and filings are added, and no
\* session but the filing's own lies between its two bars.
ReactionsAreHistory ==
  \A i \in DOMAIN results : \A k \in 1..Len(stock) :
    LET d == results[i]
        was == reaction(Upto(stock, k), d)
    IN  was # None =>
          /\ reaction(stock, d) = was
          /\ Cardinality({j \in DOMAIN stock :
               /\ candleStrictlyBefore(stock, d).day < stock[j].day
               /\ stock[j].day < candleStrictlyAfter(stock, d).day
               /\ stock[j].close > 0}) <= 1

\* The comparison is fair: a stock has no strength relative to itself, a stock and its
\* benchmark that close on the same last day have opposite strengths, and a stock that
\* follows the benchmark has a beta of one, whatever days either was not traded.
ComparisonsAreFair ==
  LET own == ComputeRelativeStrength(stock, stock)
      rs == getRelativeStrength(FALSE, stock, market).body
      sr == getRelativeStrength(FALSE, market, stock).body
      follows == \A i \in DOMAIN stock, j \in DOMAIN market :
                   stock[i].day = market[j].day => stock[i].close = market[j].close
      b == beta(alignedReturns(stock, market))
  IN  /\ own # None => \A w \in DOMAIN own : own[w].relative = 0
      /\ (/\ stock # <<>> /\ market # <<>>
          /\ Last(stock).day = Last(market).day /\ Last(stock).close > 0) =>
           /\ rs = None <=> sr = None
           /\ rs # None => DOMAIN rs = DOMAIN sr /\ \A w \in DOMAIN rs : rs[w].relative = -sr[w].relative
      /\ follows /\ b # None => b[1] = b[2]

\* Figures of a summary are those of its events, no study fails on its inputs, and a page that
\* could be answered once is answered for good: bars and filings only add to what it rests on.
SummariesAreWhole ==
  LET reactions == getEarningsReaction(stock, results)
      seasons == getSeasonality(stock)
      e == reactions.body
      s == seasons.body
  IN  /\ e # None => /\ e.samples >= Len(e.events) /\ e.avgAbsMove >= Size(e.avgMove)
                     /\ (e.upRate = 0 => e.avgMove <= 0) /\ (e.upRate = 100 => e.avgMove > 0)
      /\ s # None => /\ s.samples = SumOf([i \in 1..YearMonths |->
                            IF i - 1 \in DOMAIN s.months THEN s.months[i - 1].years ELSE 0])
                     /\ \A y \in DOMAIN s.months :
                          /\ s.months[y].winRate = 0 => s.months[y].avg <= 0 /\ s.months[y].median <= 0
                          /\ s.months[y].winRate = 100 => s.months[y].avg > 0 /\ s.months[y].median > 0
      /\ \A k \in DOMAIN stock :
           /\ getEarningsReaction(Upto(stock, k), results).code = 200 => reactions.code = 200
           /\ getSeasonality(Upto(stock, k)).code = 200 => seasons.code = 200

TrackRecordIsSound ==
  SeasonsAreHistory /\ ReactionsAreHistory /\ ComparisonsAreFair /\ SummariesAreWhole
=============================================================================
