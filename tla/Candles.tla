------------------------------ MODULE Candles -------------------------------
(***************************************************************************)
(* The indicators and signals that internal/indicators computes from the   *)
(* daily candles of a ticker, each of them twice: as a value of the last   *)
(* bar, for the page of the day (technical.go, compute.go, signals.go),    *)
(* and as a series or a replay over all bars (history.go, backtest.go).    *)
(* A bar comes in, and the page of that day is recorded.                   *)
(*                                                                         *)
(* Values are fixed-point numbers, so that a quotient is rounded as a      *)
(* float is; a NaN is None.  The code counts bars from 0, this from 1.     *)
(***************************************************************************)
EXTENDS Integers, Sequences, SequencesExt

CONSTANTS
  Shapes,            \* bars [close, high, low] that may come
  Short, Long,       \* the periods of the cross (50 and 200)
  Fast, Slow, Smooth,\* MACD
  Period,            \* SMA, EMA, RSI, Bollinger and ATR
  Window, SlowK, SlowD, \* KDJ
  Horizon, MinBars,  \* of a backtest
  Oversold, Hundred, \* 30 and 100, scaled; overbought is 70
  MaxBars,           \* bound; the series is shorter than what one fetch returns
  None

VARIABLES
  bars,   \* the candles, oldest first
  shown   \* history: what the page showed when each of them was the last

candleVars == <<bars, shown>>

Total(v) == FoldLeft(LAMBDA x, y : x + y, 0, v)

Upto(v, k) == SubSeq(v, 1, k)

Last0(v) == IF v = <<>> THEN None ELSE v[Len(v)]

-----------------------------------------------------------------------------
(* Values of the last bar. *)

\* sma: the mean of the last p values.
sma(v, p) == IF Len(v) < p THEN None ELSE Total(SubSeq(v, Len(v) - p + 1, Len(v))) \div p

\* emaSeries: seeded with the mean of the first p values.
emaSeries(v, p) ==
  LET e[i \in DOMAIN v] == IF i < p THEN None
                           ELSE IF i = p THEN Total(Upto(v, p)) \div p
                           ELSE (2 * v[i] + (p - 1) * e[i - 1]) \div (p + 1)
  IN  Upto(e, Len(v))

\* macd: the signal line is an average of the defined points of the MACD line.
macd(v) ==
  LET f == emaSeries(v, Fast)
      s == emaSeries(v, Slow)
      defined == [j \in 1..(Len(v) - Slow + 1) |-> f[j + Slow - 1] - s[j + Slow - 1]]
      signal == emaSeries(defined, Smooth)
      last == Len(v) - Slow + 1
  IN  IF last < Smooth THEN None
      ELSE [line |-> defined[last], signal |-> signal[last], hist |-> defined[last] - signal[last]]

\* The smoothed gain and loss at bar i > Period.
averages(v) ==
  LET up(i) == IF v[i] > v[i - 1] THEN v[i] - v[i - 1] ELSE 0
      down(i) == IF v[i] < v[i - 1] THEN v[i - 1] - v[i] ELSE 0
      g[i \in DOMAIN v] == IF i <= Period THEN 0
                           ELSE IF i = Period + 1 THEN Total([j \in 1..Period |-> up(j + 1)]) \div Period
                           ELSE (g[i - 1] * (Period - 1) + up(i)) \div Period
      l[i \in DOMAIN v] == IF i <= Period THEN 0
                           ELSE IF i = Period + 1 THEN Total([j \in 1..Period |-> down(j + 1)]) \div Period
                           ELSE (l[i - 1] * (Period - 1) + down(i)) \div Period
  IN  [i \in DOMAIN v |-> [gain |-> g[i], loss |-> l[i]]]

rsiFrom(a) ==
  IF a.loss = 0 THEN Hundred
  ELSE IF a.gain = 0 THEN 0 ELSE (Hundred * a.gain) \div (a.gain + a.loss)

rsiWilder(v) == IF Len(v) < Period + 1 THEN None ELSE rsiFrom(averages(v)[Len(v)])

\* smaSeries: a running sum; one value per full window.
smaSeries(v, p) ==
  LET sum[i \in 0..Len(v)] ==
        IF i = 0 THEN 0 ELSE sum[i - 1] + v[i] - (IF i > p THEN v[i - p] ELSE 0)
  IN  IF Len(v) < p THEN <<>> ELSE [j \in 1..(Len(v) - p + 1) |-> sum[j + p - 1] \div p]

\* Where each close stands in the range of the Window bars up to it.
rsv(b) ==
  [m \in 1..(Len(b) - Window + 1) |->
    LET seen == m..(m + Window - 1)
        hi == CHOOSE h \in {b[j].high : j \in seen} : \A j \in seen : b[j].high <= h
        lo == CHOOSE x \in {b[j].low : j \in seen} : \A j \in seen : x <= b[j].low
    IN  IF hi = lo THEN Hundred \div 2
        ELSE (Hundred * (b[m + Window - 1].close - lo)) \div (hi - lo)]

stochasticKDJ(b) ==
  LET k == smaSeries(rsv(b), SlowK)
      d == smaSeries(k, SlowD)
  IN  IF d = <<>> THEN None
      ELSE [k |-> Last0(k), d |-> Last0(d), j |-> 3 * Last0(k) - 2 * Last0(d)]

\* bollinger: the bands are the mean and its deviation; sqrt and mult are left out.
bollinger(v) ==
  LET w == SubSeq(v, Len(v) - Period + 1, Len(v))
      m == Total(w) \div Period
  IN  IF Len(v) < Period THEN None
      ELSE [middle |-> m,
            variance |-> Total([i \in DOMAIN w |-> (w[i] - m) * (w[i] - m)]) \div Period]

\* The range of bar i > 1, with the gap from the close before it.
trueRange(b, i) ==
  LET top == IF b[i].high > b[i - 1].close THEN b[i].high ELSE b[i - 1].close
      bottom == IF b[i].low < b[i - 1].close THEN b[i].low ELSE b[i - 1].close
  IN  top - bottom

\* atrWilder: the mean of the first ranges, then one range after the other.
atrWilder(b) ==
  IF Len(b) < Period + 1 THEN None
  ELSE FoldLeft(LAMBDA atr, i : (atr * (Period - 1) + trueRange(b, i)) \div Period,
                Total([j \in 1..Period |-> trueRange(b, j + 1)]) \div Period,
                [j \in 1..(Len(b) - Period - 1) |-> j + Period + 1])

-----------------------------------------------------------------------------
(* Signals of the last bar. *)

closesOf(b) == [i \in DOMAIN b |-> b[i].close]

\* crossSignals needs both averages of this bar and of the one before.
crossSignals(v) ==
  LET prev == Upto(v, Len(v) - 1)
  IN  IF Len(v) < Long + 1 THEN {}
      ELSE {r \in {"golden_cross"} : sma(prev, Short) <= sma(prev, Long) /\ sma(v, Short) > sma(v, Long)}
           \cup {r \in {"death_cross"} : sma(prev, Short) >= sma(prev, Long) /\ sma(v, Short) < sma(v, Long)}

\* The MACD case of Signals: a change of sign since prev_hist, if there is one.
macdSignals(v) ==
  LET cur == macd(v)
      prev == macd(Upto(v, Len(v) - 1))
  IN  IF cur = None \/ prev = None THEN {}
      ELSE {r \in {"macd_bullish_cross"} : prev.hist <= 0 /\ cur.hist > 0}
           \cup {r \in {"macd_bearish_cross"} : prev.hist >= 0 /\ cur.hist < 0}

\* What StockIndicators and Signals put on the page.
page(b) ==
  LET v == closesOf(b)
  IN  [sma |-> sma(v, Period), ema |-> Last0(emaSeries(v, Period)), rsi |-> rsiWilder(v),
       macd |-> macd(v), kdj |-> stochasticKDJ(b), boll |-> bollinger(v), atr |-> atrWilder(b),
       signals |-> crossSignals(v) \cup macdSignals(v)]

-----------------------------------------------------------------------------
(* Series and replays over all bars. *)

\* Mutant: the signal is not mapped back: it starts where the line does.
macdSeriesUnmapped(v) ==
  LET f == emaSeries(v, Fast)
      s == emaSeries(v, Slow)
      defined == [j \in 1..(Len(v) - Slow + 1) |-> f[j + Slow - 1] - s[j + Slow - 1]]
      signal == SelectSeq(emaSeries(defined, Smooth), LAMBDA x : x # None)
  IN  [i \in DOMAIN v |->
        IF i - Slow + 1 \in DOMAIN signal
        THEN [line |-> defined[i - Slow + 1], signal |-> signal[i - Slow + 1],
              hist |-> defined[i - Slow + 1] - signal[i - Slow + 1]]
        ELSE [line |-> None, signal |-> None, hist |-> None]]

\* macdSeriesPadded: the line wherever both averages are, if there are enough of it for a
\* signal; the signal is mapped back to the bars by idx and starts later.
macdSeriesPadded(v) ==
  LET f == emaSeries(v, Fast)
      s == emaSeries(v, Slow)
      idx == SelectSeq([i \in DOMAIN v |-> i], LAMBDA i : f[i] # None /\ s[i] # None)
      defined == [j \in DOMAIN idx |-> f[idx[j]] - s[idx[j]]]
      signal == emaSeries(defined, Smooth)
      point(j) == [line |-> defined[j], signal |-> signal[j],
                   hist |-> IF signal[j] = None THEN None ELSE defined[j] - signal[j]]
  IN  [i \in DOMAIN v |->
        IF Len(defined) >= Smooth /\ \E j \in DOMAIN idx : idx[j] = i
        THEN point(CHOOSE j \in DOMAIN idx : idx[j] = i)
        ELSE [line |-> None, signal |-> None, hist |-> None]]

\* kdjSeriesPadded: %K wherever it is, if there is enough of it for a %D; %D and J start later.
kdjSeriesPadded(b) ==
  LET k == smaSeries(rsv(b), SlowK)
      d == smaSeries(k, SlowD)
      at(i) == i - (Window - 1) - (SlowK - 1)
      point(m, p) == [k |-> k[m], d |-> IF p \in DOMAIN d THEN d[p] ELSE None,
                      j |-> IF p \in DOMAIN d THEN 3 * k[m] - 2 * d[p] ELSE None]
  IN  [i \in DOMAIN b |->
        IF d # <<>> /\ at(i) \in DOMAIN k THEN point(at(i), at(i) - (SlowD - 1))
        ELSE [k |-> None, d |-> None, j |-> None]]

rsiSeries(v) == [i \in DOMAIN v |-> IF i <= Period THEN None ELSE rsiFrom(averages(v)[i])]

\* bollSeriesPadded: every full window.
bollSeriesPadded(v) ==
  [i \in DOMAIN v |->
    LET m == Total([j \in 1..Period |-> v[i - Period + j]]) \div Period
        d(j) == v[i - Period + j] - m
    IN  IF i < Period THEN None
        ELSE [middle |-> m, variance |-> Total([j \in 1..Period |-> d(j) * d(j)]) \div Period]]

\* atrSeriesPadded: the recursion, from bar Period + 1 on.
atrSeriesPadded(b) ==
  LET atr[i \in DOMAIN b] ==
        IF i <= Period THEN None
        ELSE IF i = Period + 1 THEN Total([j \in 1..Period |-> trueRange(b, j + 1)]) \div Period
        ELSE (atr[i - 1] * (Period - 1) + trueRange(b, i)) \div Period
  IN  atr

IndicatorHistory(b) ==
  LET v == closesOf(b)
      compact == smaSeries(v, Period)
  IN  [sma |-> [i \in DOMAIN v |-> IF i < Period THEN None ELSE compact[i - Period + 1]],
       ema |-> emaSeries(v, Period), rsi |-> rsiSeries(v),
       macd |-> macdSeriesPadded(v), kdj |-> kdjSeriesPadded(b),
       boll |-> bollSeriesPadded(v), atr |-> atrSeriesPadded(b)]

crossed(prevA, prevB, curA, curB) == prevA <= prevB /\ curA > curB

macdFires(rule, prev, cur) ==
  /\ prev # None /\ cur # None
  /\ IF rule = "macd_bullish_cross" THEN crossed(prev.hist, 0, cur.hist, 0)
     ELSE crossed(0, prev.hist, 0, cur.hist)

rsiFires(rule, prev, cur) ==
  /\ prev # None /\ cur # None
  /\ IF rule = "rsi_oversold" THEN prev >= Oversold /\ cur < Oversold
     ELSE prev <= Hundred - Oversold /\ cur > Hundred - Oversold

\* backtestDetectors: did the rule fire at bar i, seen from bar i?
fires(rule, v, i) ==
  LET was == Upto(v, i - 1)
      now == Upto(v, i)
  IN  CASE rule \in {"golden_cross", "death_cross"} ->
             /\ i - 1 >= Long
             /\ IF rule = "golden_cross"
                THEN crossed(sma(was, Short), sma(was, Long), sma(now, Short), sma(now, Long))
                ELSE crossed(sma(was, Long), sma(was, Short), sma(now, Long), sma(now, Short))
        [] rule \in {"macd_bullish_cross", "macd_bearish_cross"} ->
             macdFires(rule, macd(was), macd(now))
        [] rule \in {"rsi_oversold", "rsi_overbought"} ->
             rsiFires(rule, rsiWilder(was), rsiWilder(now))

Rules == {"golden_cross", "death_cross", "macd_bullish_cross", "macd_bearish_cross",
          "rsi_oversold", "rsi_overbought"}

\* Mutant: the trades include those whose window is not over.
BacktestOpen(v, rule) ==
  IF Len(v) < MinBars + Horizon THEN {}
  ELSE {[entry |-> i, ret |-> v[IF i + Horizon > Len(v) THEN Len(v) ELSE i + Horizon] - v[i]] :
          i \in {k \in 2..Len(v) : fires(rule, v, k) /\ v[k] > 0}}

\* BacktestSignal: a trade for each bar that fires and has a full window ahead.
BacktestSignal(v, rule) ==
  IF Len(v) < MinBars + Horizon THEN {}
  ELSE {[entry |-> i, ret |-> v[i + Horizon] - v[i]] :
          i \in {k \in 2..(Len(v) - Horizon) : fires(rule, v, k) /\ v[k] > 0}}

-----------------------------------------------------------------------------

Init == bars = <<>> /\ shown = <<>>

\* The day's bar is in the series, and the page is computed from it.
NewBar(b) ==
  /\ Len(bars) < MaxBars
  /\ bars' = Append(bars, b)
  /\ shown' = Append(shown, page(bars'))

Next == \E b \in Shapes : NewBar(b)

Spec == Init /\ [][Next]_candleVars

-----------------------------------------------------------------------------
(* Properties. *)

TypeOK ==
  /\ bars \in Seq(Shapes) /\ Len(bars) = Len(shown)
  /\ \A i \in DOMAIN shown : shown[i].rsi \in {None} \cup 0..Hundred

\* The chart of an indicator shows at every bar what the page showed that day, and nothing
\* where the page had too little history.  MACD and KDJ have a chart only once the page has a
\* value; their first line, but not the others, then goes on back over days on which the page
\* had none: what it says of such a day was to be had from the bars of that day alone.
LineOf(v) ==
  IF Len(v) < Slow \/ Len(v) < Fast THEN None
  ELSE Last0(emaSeries(v, Fast)) - Last0(emaSeries(v, Slow))
KOf(b) == Last0(smaSeries(rsv(b), SlowK))
HistoryIsWhatWasShown ==
  LET v == closesOf(bars)
      charted == Last0(shown)
      macdAt(i) == IF charted.macd # None /\ shown[i].macd # None THEN shown[i].macd
                   ELSE [line |-> IF charted.macd = None THEN None ELSE LineOf(Upto(v, i)),
                         signal |-> None, hist |-> None]
      kdjAt(i) == IF charted.kdj # None /\ shown[i].kdj # None THEN shown[i].kdj
                  ELSE [k |-> IF charted.kdj = None THEN None ELSE KOf(Upto(bars, i)),
                        d |-> None, j |-> None]
  IN  \A h \in {IndicatorHistory(bars)} :
        \A i \in DOMAIN bars :
          /\ h.sma[i] = shown[i].sma /\ h.ema[i] = shown[i].ema /\ h.rsi[i] = shown[i].rsi
          /\ h.macd[i] = macdAt(i) /\ h.kdj[i] = kdjAt(i)
          /\ h.boll[i] = shown[i].boll /\ h.atr[i] = shown[i].atr

\* "A backtest can never disagree with what the signals layer would have shown
\* on that bar": its entries are the days the page showed the signal, RSI's the
\* days it crossed its threshold; and a trade, once counted, is not changed
\* by the bars that come later.
BacktestIsWhatWasShown ==
  LET v == closesOf(bars)
      then == Upto(v, Len(v) - 1)
      showed(rule, i) ==
        CASE rule = "rsi_oversold" ->
               /\ shown[i].rsi # None /\ shown[i].rsi < Oversold
               /\ shown[i - 1].rsi # None /\ shown[i - 1].rsi >= Oversold
          [] rule = "rsi_overbought" ->
               /\ shown[i].rsi # None /\ shown[i].rsi > Hundred - Oversold
               /\ shown[i - 1].rsi # None /\ shown[i - 1].rsi <= Hundred - Oversold
          [] OTHER -> rule \in shown[i].signals
  IN  \A rule \in Rules :
        /\ Len(v) >= MinBars + Horizon =>
             {t.entry : t \in BacktestSignal(v, rule)} =
               {i \in 2..(Len(v) - Horizon) : v[i] > 0 /\ showed(rule, i)}
        /\ v # <<>> => BacktestSignal(then, rule) \subseteq BacktestSignal(v, rule)

\* Whatever bars come, the two ways to compute a number give the same number.
CalculatorsAgree == HistoryIsWhatWasShown /\ BacktestIsWhatWasShown
=============================================================================
