---------------------------- MODULE Leaderboards ----------------------------
(***************************************************************************)
(* internal/indicators: the factor scorecard of a stock and the boards     *)
(* that rank a whole population (scorecard.go, dividend.go,                *)
(* earningsreaction.go, relativestrength.go) or filter it by its signals   *)
(* (screen.go).  The state is the population, in the order in which the    *)
(* background scan's map yields it: any.                                   *)
(*                                                                         *)
(* Tickers are numbers, in their alphabetical order.  A metric that is     *)
(* unavailable (NaN, nil or absent from a map) is None.                    *)
(***************************************************************************)
EXTENDS Integers, FiniteSets, FiniteSetsExt, Sequences, SequencesExt, TLC

CONSTANTS
  Tickers,
  Profiles,   \* what may be known of a stock: [factors, dividend, reaction, windows, signals]
  relStrengthWindows,
  minScorecardPopulation, minEarningsSamples,
  None

VARIABLE population  \* a sequence of records [ticker, of: a profile]

-----------------------------------------------------------------------------
(* The scorecard. *)

Factors ==
  [value |-> {"PE", "PB", "PS"}, growth |-> {"RevGrowth", "EarnGrowth"},
   quality |-> {"ROE", "ROIC", "EBITMargin", "Piotroski"}, momentum |-> {"TSR"}]

FactorMetrics == UNION {Factors[f] : f \in DOMAIN Factors}

\* What is read of a computed indicator: its value if its status says so.
ExtractFactorMetrics(indicators) ==
  [x \in FactorMetrics |-> IF x \in DOMAIN indicators THEN indicators[x] ELSE None]

Metrics(pop) == [i \in DOMAIN pop |-> ExtractFactorMetrics(pop[i].of.factors)]

\* Mutant: a stock without the metric counts in the population's distribution.
KnownOfAll(pop, x) == DOMAIN pop
Known(pop, x) == {i \in DOMAIN pop : pop[i][x] # None}

percentile(v, pop, x) ==
  LET known == Known(pop, x)
      le == {i \in known : pop[i][x] # None /\ pop[i][x] <= v}
  IN  IF v = None \/ Cardinality(known) < minScorecardPopulation THEN None
      ELSE (100 * Cardinality(le)) \div Cardinality(known)

inverted(x) == x \in Factors["value"]

\* The standing on one metric, cheaper being better.
Standing(target, pop, x) ==
  LET p == percentile(target[x], pop, x)
  IN  IF p # None /\ inverted(x) THEN 100 - p ELSE p

factorScore(target, pop, f) ==
  LET inputs == {x \in Factors[f] : Standing(target, pop, x) # None}
  IN  IF inputs = {} THEN None
      ELSE [percentile |-> MapThenSumSet(LAMBDA x : Standing(target, pop, x), inputs) \div Cardinality(inputs),
            inputs |-> Cardinality(inputs)]

ComputeScorecard(target, pop) == [f \in DOMAIN Factors |-> factorScore(target, pop, f)]

-----------------------------------------------------------------------------
(* The boards: rows are pairs <<ticker, metric>>. *)

HighToLow(a, b) == a[2] > b[2] \/ (a[2] = b[2] /\ a[1] < b[1])
LowToHigh(a, b) == a[2] < b[2] \/ (a[2] = b[2] /\ a[1] < b[1])

\* The rows of the stocks that have the metric.
Rows(pop, metric(_)) ==
  LET with == SelectSeq(pop, LAMBDA p : metric(p) # None)
  IN  [i \in DOMAIN with |-> <<with[i].ticker, metric(with[i])>>]

RankFactor(pop, f) ==
  LET score(p) == ComputeScorecard(ExtractFactorMetrics(p.of.factors), Metrics(pop))[f]
  IN  SortSeq(Rows(pop, LAMBDA p : IF score(p) = None THEN None ELSE score(p).percentile), HighToLow)

RankRelativeStrength(pop, w) ==
  SortSeq(Rows(pop, LAMBDA p : IF w \in DOMAIN p.of.windows THEN p.of.windows[w] ELSE None), HighToLow)

DividendMetric ==
  [highest_yield |-> "yield", fastest_growing |-> "growth", best_covered |-> "coverage",
   lowest_payout |-> "payout"]

RankDividend(pop, view) ==
  LET metric(p) ==
        LET d == p.of.dividend
            x == IF d = None THEN None ELSE d[DividendMetric[view]]
        IN  IF x # None /\ x <= 0 /\ view \in {"lowest_payout", "best_covered"} THEN None ELSE x
  IN  IF view = "lowest_payout" THEN SortSeq(Rows(pop, metric), LowToHigh)
      ELSE SortSeq(Rows(pop, metric), HighToLow)

\* Rows are pairs <<ticker, the reaction>> here.
RankEarningsReaction(pop, view) ==
  LET primary(r) == IF view = "highest_up_rate" THEN r[2].upRate ELSE r[2].avgAbsMove
      before(a, b) == \/ primary(a) > primary(b)
                      \/ primary(a) = primary(b) /\ a[2].samples > b[2].samples
                      \/ primary(a) = primary(b) /\ a[2].samples = b[2].samples /\ a[1] < b[1]
      measured(p) == LET r == p.of.reaction
                     IN  IF r # None /\ r.samples < minEarningsSamples THEN None ELSE r
  IN  SortSeq(Rows(pop, measured), before)

\* A query limits the direction, the indicator, both or neither.
Matches(q, s) == q.direction \in {None, s.direction} /\ q.id \in {None, s.id}

ScreenSignals(pop, q) ==
  SortSeq(Rows(pop, LAMBDA p : LET ss == {s \in p.of.signals : Matches(q, s)}
                               IN  IF ss = {} THEN None ELSE ss),
          LAMBDA a, b : a[1] < b[1])

-----------------------------------------------------------------------------
BoardInit == population = <<>>

Scan(t, p) ==
  /\ \A i \in DOMAIN population : population[i].ticker # t
  /\ population' = Append(population, [ticker |-> t, of |-> p])

BoardNext == \E t \in Tickers, p \in Profiles : Scan(t, p)

BoardSpec == BoardInit /\ [][BoardNext]_population

-----------------------------------------------------------------------------
(* Properties. *)

BoardTypeOK == population \in Seq([ticker : Tickers, of : Profiles])

Queries ==
  LET signals == UNION {p.signals : p \in Profiles}
  IN  [direction : {s.direction : s \in signals} \cup {None}, id : {s.id : s \in signals} \cup {None}]

Boards(pop) ==
  [factor |-> [f \in DOMAIN Factors |-> RankFactor(pop, f)],
   dividend |-> [v \in DOMAIN DividendMetric |-> RankDividend(pop, v)],
   reaction |-> [v \in {"most_volatile", "highest_up_rate"} |-> RankEarningsReaction(pop, v)],
   strength |-> [w \in relStrengthWindows |-> RankRelativeStrength(pop, w)],
   signals |-> [q \in Queries |-> ScreenSignals(pop, q)]]

\* A board does not depend on the order in which a map yields the population, and names a
\* stock at most once.
BoardsAreDeterministic ==
  \A boards \in {Boards(population)} :
    LET inOrder == SortSeq(population, LAMBDA a, b : a.ticker < b.ticker)
    IN  /\ boards = Boards(inOrder) /\ boards = Boards(Reverse(inOrder))
        /\ \A kind \in DOMAIN boards : \A v \in DOMAIN boards[kind] :
             \A b \in {boards[kind][v]} : \A i, j \in DOMAIN b : b[i][1] = b[j][1] => i = j

\* Is stock p at least as good as q on every metric of the factor, both having the same ones?
AtLeastAsGood(p, q, f) ==
  \A x \in Factors[f] :
    /\ p[x] = None <=> q[x] = None
    /\ p[x] # None => IF inverted(x) THEN p[x] <= q[x] ELSE p[x] >= q[x]

\* A stock that is at least as good in all of a factor does not stand lower in it.
BetterStandsHigher ==
  LET ms == Metrics(population)
  IN  \A f \in DOMAIN Factors : \A i, j \in DOMAIN ms :
        AtLeastAsGood(ms[i], ms[j], f) =>
          LET si == factorScore(ms[i], ms, f)
              sj == factorScore(ms[j], ms, f)
          IN  (si = None <=> sj = None) /\ (si # None => si.percentile >= sj.percentile)

\* A stock that has no metric of a factor changes nobody's standing in it.
UnknownsDoNotCount ==
  \A f \in DOMAIN Factors :
    LET known == SelectSeq(population, LAMBDA p : \E x \in Factors[f] :
                                         ExtractFactorMetrics(p.of.factors)[x] # None)
    IN  RankFactor(population, f) = RankFactor(known, f)

BoardsAreSound == BoardsAreDeterministic /\ BetterStandsHigher /\ UnknownsDoNotCount
=============================================================================
