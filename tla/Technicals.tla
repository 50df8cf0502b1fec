----------------------------- MODULE Technicals -----------------------------
(***************************************************************************)
(* The expanded set of technical indicators (technical_more.go), each of   *)
(* them the value of the last bar, or None: "not enough bars, or a         *)
(* denominator that is not valid".  No result is computed from a missing   *)
(* one: TLC stops at an index outside a series, at arithmetic on None and  *)
(* at a division by zero.                                                  *)
(*                                                                         *)
(* Numbers are those of Candles.  Percentages are in units of Hundred, and *)
(* ratios in units of Unit.  Of exp, log and sqrt only that they are       *)
(* monotone is kept: the argument stands for the result.                   *)
(***************************************************************************)
EXTENDS Candles

CONSTANTS
  Unit,              \* the ratio 1
  Hull,              \* period of HMA
  Groups,            \* periods of GMMA
  Gauss,             \* weights of ALMA, one per bar of its window
  Vigor,             \* weights of RVI (1, 2, 2, 1)
  Wide,              \* the longer period of what has two (AO, CHO, KVO, KST)
  StepAF, MaxAF,     \* acceleration of the SAR, in fiftieths
  Bounds             \* least and greatest period of the dynamic momentum index

ASSUME PeriodsAssumption ==
  /\ Period \in Nat \ {0, 1} /\ Hull \in Nat \ {0, 1} /\ Wide > Period
  /\ Bounds[2] <= Wide + Period

Newest(s, p) == SubSeq(s, Len(s) - p + 1, Len(s))

Abs(x) == IF x < 0 THEN -x ELSE x
Least(s) == CHOOSE x \in {s[i] : i \in DOMAIN s} : \A i \in DOMAIN s : x <= s[i]
Most(s) == CHOOSE x \in {s[i] : i \in DOMAIN s} : \A i \in DOMAIN s : x >= s[i]

\* The square root, rounded down.
Root(x) == CHOOSE r \in 0..x : r * r <= x /\ (r + 1) * (r + 1) > x

field(b, f) == [i \in DOMAIN b |-> b[i][f]]

hl2(b) == [i \in DOMAIN b |-> (b[i].high + b[i].low) \div 2]

hlc3(b) == [i \in DOMAIN b |-> (b[i].high + b[i].low + b[i].close) \div 3]

spread(b) == [i \in DOMAIN b |-> b[i].high - b[i].low]

compact(s) == SelectSeq(s, LAMBDA x : x # None)

ema(v, p) == Last0(emaSeries(v, p))

-----------------------------------------------------------------------------
(* Averages. *)

wma(v, p) ==
  IF Len(v) < p THEN None
  ELSE Total([i \in 1..p |-> i * Newest(v, p)[i]]) \div ((p * (p + 1)) \div 2)

wmaSeries(v, p) ==
  IF Len(v) < p THEN <<>> ELSE [e \in 1..(Len(v) - p + 1) |-> wma(Upto(v, e + p - 1), p)]

smmaSeries(v, p) ==
  LET s[i \in DOMAIN v] == IF i < p THEN None
                           ELSE IF i = p THEN Total(Upto(v, p)) \div p
                           ELSE (s[i - 1] * (p - 1) + v[i]) \div p
  IN  Upto(s, Len(v))

smma(v, p) == Last0(smmaSeries(v, p))

variance(v, p) ==
  LET w == Newest(v, p)
      m == Total(w) \div p
  IN  IF Len(v) < p THEN None
      ELSE Total([i \in 1..p |-> (w[i] - m) * (w[i] - m)]) \div p

rollingStd(v, p) == IF variance(v, p) = None THEN None ELSE Root(variance(v, p))

\* linregForecast: the line of least squares at the newest bar.
linregForecast(v, p) ==
  LET w == Newest(v, p)
      sx == (p * (p - 1)) \div 2
      sy == Total(w)
      sxx == Total([i \in 1..p |-> (i - 1) * (i - 1)])
      sxy == Total([i \in 1..p |-> (i - 1) * w[i]])
      den == p * sxx - sx * sx
  IN  IF Len(v) < p THEN None
      ELSE (sy * den + (p * sxy - sx * sy) * (p * (p - 1) - sx)) \div (p * den)

doubleSmoothEMA(v, first, second) == ema(compact(emaSeries(v, first)), second)

demaTema(v, p) ==
  LET e2 == emaSeries(compact(emaSeries(v, p)), p)
      e3 == emaSeries(compact(e2), p)
      v1 == ema(v, p)
  IN  IF Last0(e3) = None THEN None
      ELSE [dema |-> 2 * v1 - Last0(e2), tema |-> 3 * v1 - 3 * Last0(e2) + Last0(e3)]

zlema(v, p) ==
  LET lag == (p - 1) \div 2
  IN  IF Len(v) < p + lag THEN None
      ELSE ema([j \in 1..(Len(v) - lag) |-> 2 * v[j + lag] - v[j]], p)

\* hma: the two series are aligned on their newest values.
hma(v, p) ==
  LET half == wmaSeries(v, p \div 2)
      full == wmaSeries(v, p)
      lead == Len(half) - Len(full)
      root == CHOOSE r \in 1..p : (2 * r - 1) * (2 * r - 1) <= 4 * p /\ 4 * p < (2 * r + 1) * (2 * r + 1)
  IN  wma([i \in DOMAIN full |-> 2 * half[lead + i] - full[i]], root)

\* kama: the smoothing constant lies between 1/6 and 4/6, by the efficiency.
kama(v, p) ==
  LET step(k, i) ==
        LET change == Abs(v[i] - v[i - p])
            vol == Total([j \in 1..p |-> Abs(v[i - p + j] - v[i - p + j - 1])])
            er == IF vol = 0 THEN 0 ELSE (6 * change) \div vol
            sc == 3 * er + 6
        IN  k + (sc * sc * (v[i] - k)) \div 1296
  IN  IF Len(v) < p + 1 THEN None
      ELSE FoldLeft(step, v[p], [j \in 1..(Len(v) - p) |-> p + j])

alma(v) ==
  IF Len(v) < Len(Gauss) THEN None
  ELSE Total([i \in DOMAIN Gauss |-> Gauss[i] * Newest(v, Len(Gauss))[i]]) \div Total(Gauss)

\* cmoSeries: from bar p + 1 on.
cmoSeries(v, p) ==
  LET moves(i) == [j \in 1..p |-> v[i - p + j] - v[i - p + j - 1]]
      size(i) == Total([j \in 1..p |-> Abs(moves(i)[j])])
  IN  [i \in DOMAIN v |->
        IF i <= p THEN None
        ELSE IF size(i) = 0 THEN 0 ELSE (Hundred * Total(moves(i))) \div size(i)]

\* vidya: an average whose weight is the absolute CMO.
vidya(v, p) ==
  LET c == cmoSeries(v, p)
      step(x, i) == x + (2 * Abs(c[i]) * (v[i] - x)) \div ((p + 1) * Hundred)
  IN  IF Len(v) < p + 1 THEN None
      ELSE FoldLeft(step, v[p + 1], [j \in 1..(Len(v) - p - 1) |-> p + 1 + j])

-----------------------------------------------------------------------------
(* Channels and trends. *)

\* The range of every bar; the first has no close before it.
ranges(b) == [i \in DOMAIN b |-> IF i = 1 THEN b[1].high - b[1].low ELSE trueRange(b, i)]

\* Mutant: the window ends a bar too early.
highestHighBefore(b, p) ==
  IF Len(b) < p + 1 THEN None ELSE Most(Newest(field(Front(b), "high"), p))

highestHigh(b, p) == IF Len(b) < p THEN None ELSE Most(Newest(field(b, "high"), p))

lowestLow(b, p) == IF Len(b) < p THEN None ELSE Least(Newest(field(b, "low"), p))

\* How long ago was the extreme of the last p + 1 bars, the newest of equals?
barsSinceHighest(b, p) ==
  LET w == Newest(field(b, "high"), p + 1)
  IN  IF Len(b) < p + 1 THEN None
      ELSE CHOOSE k \in 0..p : w[p + 1 - k] = Most(w) /\ \A j \in 0..(k - 1) : w[p + 1 - j] < Most(w)

barsSinceLowest(b, p) ==
  LET w == Newest(field(b, "low"), p + 1)
  IN  IF Len(b) < p + 1 THEN None
      ELSE CHOOSE k \in 0..p : w[p + 1 - k] = Least(w) /\ \A j \in 0..(k - 1) : w[p + 1 - j] > Least(w)

\* supertrend: bands around the middle of the bar that move towards the price, or
\* freely once it has closed beyond them.
supertrend(b, mult) ==
  LET atr == atrSeriesPadded(b)
      mid(i) == (b[i].high + b[i].low) \div 2
      step(s, i) ==
        LET u == mid(i) + mult * atr[i]
            l == mid(i) - mult * atr[i]
            upper == IF u < s.upper \/ b[i - 1].close > s.upper THEN u ELSE s.upper
            lower == IF l > s.lower \/ b[i - 1].close < s.lower THEN l ELSE s.lower
        IN  [upper |-> upper, lower |-> lower,
             trend |-> IF b[i].close > upper THEN 1
                       ELSE IF b[i].close < lower THEN -1 ELSE s.trend]
      first == Period + 1
      last == FoldLeft(step, [upper |-> mid(first) + mult * atr[first],
                              lower |-> mid(first) - mult * atr[first], trend |-> 1],
                       [j \in 1..(Len(b) - first) |-> first + j])
  IN  IF Len(b) < Period + 2 THEN None
      ELSE [value |-> IF last.trend > 0 THEN last.lower ELSE last.upper, trend |-> last.trend]

\* parabolicSAR: the stop is kept out of the range of the two bars before, and
\* jumps to the extreme of the trend when a bar reaches it.
parabolicSAR(b) ==
  LET least(x, y) == IF x < y THEN x ELSE y
      most(x, y) == IF x > y THEN x ELSE y
      rising(s, i) ==
        LET moved == s.sar + (s.af * (s.ep - s.sar)) \div 50
            sar == least(moved, least(b[i - 1].low, IF i > 2 THEN b[i - 2].low ELSE b[i - 1].low))
        IN  IF b[i].low < sar
            THEN [up |-> FALSE, sar |-> s.ep, ep |-> b[i].low, af |-> StepAF]
            ELSE IF b[i].high > s.ep
            THEN [up |-> TRUE, sar |-> sar, ep |-> b[i].high, af |-> least(s.af + StepAF, MaxAF)]
            ELSE [s EXCEPT !.sar = sar]
      falling(s, i) ==
        LET moved == s.sar + (s.af * (s.ep - s.sar)) \div 50
            sar == most(moved, most(b[i - 1].high, IF i > 2 THEN b[i - 2].high ELSE b[i - 1].high))
        IN  IF b[i].high > sar
            THEN [up |-> TRUE, sar |-> s.ep, ep |-> b[i].high, af |-> StepAF]
            ELSE IF b[i].low < s.ep
            THEN [up |-> FALSE, sar |-> sar, ep |-> b[i].low, af |-> least(s.af + StepAF, MaxAF)]
            ELSE [s EXCEPT !.sar = sar]
      up == b[2].high > b[1].high
      first == [up |-> up, sar |-> IF up THEN b[1].low ELSE b[1].high,
                ep |-> IF up THEN b[2].high ELSE b[2].low, af |-> StepAF]
      last == FoldLeft(LAMBDA s, i : IF s.up THEN rising(s, i) ELSE falling(s, i), first,
                       [j \in 1..(Len(b) - 1) |-> j + 1])
  IN  IF Len(b) < 3 THEN None
      ELSE [value |-> last.sar, trend |-> IF last.up THEN 1 ELSE -1]

\* dmiADX: Wilder's sums of the directed moves and of the range, and the average
\* of how one-sided they were.
dmiADX(b, p) ==
  LET up(i) == b[i].high - b[i - 1].high
      down(i) == b[i - 1].low - b[i].low
      of(i) == [plus |-> IF up(i) > down(i) /\ up(i) > 0 THEN up(i) ELSE 0,
                minus |-> IF down(i) > up(i) /\ down(i) > 0 THEN down(i) ELSE 0,
                tr |-> trueRange(b, i)]
      seed(f) == Total([i \in 1..p |-> of(i + 1)[f]])
      sums[i \in (p + 1)..Len(b)] ==
        [f \in {"plus", "minus", "tr"} |->
          IF i = p + 1 THEN seed(f) ELSE sums[i - 1][f] - sums[i - 1][f] \div p + of(i)[f]]
      di(f, i) == (Hundred * sums[i][f]) \div sums[i].tr
      dx(i) == IF sums[i].tr = 0 \/ di("plus", i) + di("minus", i) = 0 THEN 0
               ELSE (Hundred * Abs(di("plus", i) - di("minus", i))) \div (di("plus", i) + di("minus", i))
      n == Len(b)
  IN  IF n < 2 * p + 1 THEN None
      ELSE IF sums[n].tr = 0 THEN None
      ELSE [plusDI |-> di("plus", n), minusDI |-> di("minus", n),
            adx |-> FoldLeft(LAMBDA a, i : (a * (p - 1) + dx(i)) \div p,
                             Total([j \in 1..p |-> dx(p + j)]) \div p,
                             [j \in 1..(n - 2 * p) |-> 2 * p + j])]

vortex(b, p) ==
  LET over == {i \in DOMAIN b : i > Len(b) - p}
      sum(f(_)) == FoldLeft(LAMBDA a, i : a + f(i), 0, SetToSeq(over))
      tr == sum(LAMBDA i : trueRange(b, i))
  IN  IF Len(b) < p + 1 THEN None
      ELSE IF tr = 0 THEN None
      ELSE [plus |-> (Unit * sum(LAMBDA i : Abs(b[i].high - b[i - 1].low))) \div tr,
            minus |-> (Unit * sum(LAMBDA i : Abs(b[i].low - b[i - 1].high))) \div tr]

\* williamsFractal: the bar before the last two, against the two on each side.
williamsFractal(b) ==
  LET c == Len(b) - 2
      sides == {c - 2, c - 1, c + 1, c + 2}
  IN  IF Len(b) < 5 THEN None
      ELSE [up |-> \A i \in sides : b[c].high > b[i].high,
            down |-> \A i \in sides : b[c].low < b[i].low]

-----------------------------------------------------------------------------
(* Momentum. *)

roc(v, p) ==
  IF Len(v) < p + 1 THEN None
  ELSE LET ref == v[Len(v) - p]
       IN  IF ref = 0 THEN None ELSE (Hundred * (v[Len(v)] - ref)) \div ref

\* rocSeries: one value per bar, where the reference is not zero.
rocSeries(v, p) ==
  [i \in DOMAIN v |-> IF i <= p THEN None
                      ELSE IF v[i - p] = 0 THEN None
                      ELSE (Hundred * (v[i] - v[i - p])) \div v[i - p]]

percentRank(v, p) ==
  IF Len(v) < p + 1 THEN None
  ELSE (Hundred * Cardinality({i \in 1..p : v[Len(v) - i] < v[Len(v)]})) \div p

\* The RSI of any series, for a period of its own.
rsiOf(v, p) ==
  LET d(i) == v[i] - v[i - 1]
      up(i) == IF d(i) > 0 THEN d(i) ELSE 0
      down(i) == IF d(i) < 0 THEN -d(i) ELSE 0
      seed == [gain |-> Total([j \in 1..p |-> up(j + 1)]) \div p,
               loss |-> Total([j \in 1..p |-> down(j + 1)]) \div p]
      step(a, i) == [gain |-> (a.gain * (p - 1) + up(i)) \div p, loss |-> (a.loss * (p - 1) + down(i)) \div p]
  IN  IF Len(v) < p + 1 THEN None
      ELSE rsiFrom(FoldLeft(step, seed, [j \in 1..(Len(v) - p - 1) |-> p + 1 + j]))

cci(b, p) ==
  LET w == Newest(hlc3(b), p)
      mean == Total(w) \div p
      mad == Total([i \in 1..p |-> Abs(w[i] - mean)]) \div p
  IN  IF Len(b) < p THEN None
      ELSE IF mad = 0 THEN None ELSE (Unit * (w[p] - mean)) \div mad

\* rmi: the RSI of the momentum, that is of how the price changed in m bars.
rmi(v, p, m) ==
  IF Len(v) < p + m + 1 THEN None
  ELSE rsiOf([j \in 1..(Len(v) - m) |-> v[j + m] - v[j]], p)

tsi(v, long, short) ==
  LET delta == [j \in 1..(Len(v) - 1) |-> v[j + 1] - v[j]]
      num == doubleSmoothEMA(delta, long, short)
      den == doubleSmoothEMA([j \in DOMAIN delta |-> Abs(delta[j])], long, short)
  IN  IF Len(v) < long + short + 1 THEN None
      ELSE IF num = None \/ den = None \/ den = 0 THEN None ELSE (Hundred * num) \div den

trix(v, p) ==
  LET e2 == compact(emaSeries(compact(emaSeries(v, p)), p))
      t == compact(emaSeries(e2, p))
  IN  IF Len(t) < 2 THEN None
      ELSE IF t[Len(t) - 1] = 0 THEN None
      ELSE (Hundred * (t[Len(t)] - t[Len(t) - 1])) \div t[Len(t) - 1]

ppo(v, fast, slow, signal) ==
  LET f == emaSeries(v, fast)
      s == emaSeries(v, slow)
      at == SelectSeq([i \in DOMAIN v |-> i], LAMBDA i : f[i] # None /\ s[i] # None /\ s[i] # 0)
      line == [j \in DOMAIN at |-> (Hundred * (f[at[j]] - s[at[j]])) \div s[at[j]]]
      sig == ema(line, signal)
  IN  IF sig = None THEN None
      ELSE [line |-> Last0(line), signal |-> sig, hist |-> Last0(line) - sig]

dpo(v, p) ==
  LET shift == p \div 2 + 1
  IN  IF Len(v) < p + shift THEN None ELSE v[Len(v) - shift] - sma(v, p)

\* kst: two of the four smoothed rates of change.
kst(v) ==
  LET part(p) == Last0(smaSeries(compact(rocSeries(v, p)), p))
  IN  IF part(Period) = None \/ part(Wide) = None THEN None
      ELSE part(Period) + 2 * part(Wide)

stochRSI(v) ==
  LET defined == compact(rsiSeries(v))
      w == Newest(defined, Period)
  IN  IF Len(defined) < Period THEN None
      ELSE IF Most(w) = Least(w) THEN None
      ELSE (Unit * (w[Period] - Least(w))) \div (Most(w) - Least(w))

\* ultimateOscillator: buying pressure over range, in three windows.
ultimateOscillator(b, fast, mid, slow) ==
  LET bottom(i) == IF b[i].low < b[i - 1].close THEN b[i].low ELSE b[i - 1].close
      range(p) == Total([j \in 1..p |-> trueRange(b, Len(b) - p + j)])
      bought(p) == Total([j \in 1..p |-> b[Len(b) - p + j].close - bottom(Len(b) - p + j)])
      avg(p) == (Hundred * bought(p)) \div range(p)
  IN  IF Len(b) < slow + 1 THEN None
      ELSE IF \E p \in {fast, mid, slow} : range(p) = 0 THEN None
      ELSE (4 * avg(fast) + 2 * avg(mid) + avg(slow)) \div 7

stochasticMomentumIndex(b, p, smooth) ==
  LET hi(i) == Most(SubSeq(field(b, "high"), i - p + 1, i))
      lo(i) == Least(SubSeq(field(b, "low"), i - p + 1, i))
      n == Len(b) - p + 1
      rel == [j \in 1..n |-> b[j + p - 1].close - (hi(j + p - 1) + lo(j + p - 1)) \div 2]
      rng == [j \in 1..n |-> hi(j + p - 1) - lo(j + p - 1)]
      num == doubleSmoothEMA(rel, smooth, smooth)
      den == doubleSmoothEMA(rng, smooth, smooth)
  IN  IF Len(b) < p + 2 * smooth THEN None
      ELSE IF num = None \/ den = None \/ den = 0 THEN None ELSE (2 * Hundred * num) \div den

\* fisherTransform: the place in the range, smoothed, kept off the ends, smoothed.
fisherTransform(b, p) ==
  LET med == hl2(b)
      step(s, i) ==
        LET w == SubSeq(med, i - p + 1, i)
            x == IF Most(w) = Least(w) THEN 0
                 ELSE (2 * Unit * (med[i] - Least(w))) \div (Most(w) - Least(w)) - Unit
            y == (66 * x + 67 * s.value) \div 100
            value == IF y >= Unit THEN Unit - 1 ELSE IF y <= -Unit THEN 1 - Unit ELSE y
        IN  [value |-> value, fish |-> (value + s.fish) \div 2]
  IN  IF Len(b) < p THEN None
      ELSE FoldLeft(step, [value |-> 0, fish |-> 0], [j \in 1..(Len(b) - p + 1) |-> p - 1 + j]).fish

coppock(v, long, short, p) ==
  LET l == rocSeries(v, long)
      s == rocSeries(v, short)
      at == SelectSeq([i \in DOMAIN v |-> i], LAMBDA i : l[i] # None /\ s[i] # None)
  IN  wma([j \in DOMAIN at |-> l[at[j]] + s[at[j]]], p)

\* trendIntensityIndex: how far the last half period lay above its averages.
trendIntensityIndex(v, p) ==
  LET half == p \div 2
      ma == smaSeries(v, p)
      dev(k) == v[Len(v) - k] - ma[Len(ma) - k]
      tot == Total([k \in 1..half |-> Abs(dev(k - 1))])
      pos == Total([k \in 1..half |-> IF dev(k - 1) > 0 THEN dev(k - 1) ELSE 0])
  IN  IF Len(v) < p + half THEN None
      ELSE IF tot = 0 THEN None ELSE (Hundred * pos) \div tot

\* connorsRSI: of the price, of its streaks, and the rank of the last return.
connorsRSI(v) ==
  LET streak[i \in DOMAIN v] ==
        IF i = 1 THEN 0
        ELSE IF v[i] > v[i - 1] THEN IF streak[i - 1] > 0 THEN streak[i - 1] + 1 ELSE 1
        ELSE IF v[i] < v[i - 1] THEN IF streak[i - 1] < 0 THEN streak[i - 1] - 1 ELSE -1
        ELSE 0
      rets == [j \in 1..(Len(v) - 1) |-> (Hundred * (v[j + 1] - v[j])) \div v[j]]
  IN  IF Len(v) < Wide + 2 THEN None
      ELSE IF \E j \in 1..(Len(v) - 1) : v[j] = 0 THEN None
      ELSE (rsiOf(v, Period) + rsiOf(Upto(streak, Len(v)), Period) + percentRank(rets, Wide)) \div 3

\* dynamicMomentumIndex: an RSI whose period is base by the ratio of two
\* deviations, rounded and kept within Bounds.
dynamicMomentumIndex(v, base, shortVol, longVol) ==
  LET s == variance(v, shortVol)
      l == variance(v, longVol)
      period == CHOOSE q \in Bounds[1]..Bounds[2] :
                  /\ q > Bounds[1] => (2 * q - 1) * (2 * q - 1) * s <= 4 * base * base * l
                  /\ q < Bounds[2] => 4 * base * base * l < (2 * q + 1) * (2 * q + 1) * s
  IN  IF Len(v) < longVol + base + 1 THEN None
      ELSE IF s = 0 \/ l = 0 THEN None ELSE rsiOf(v, period)

-----------------------------------------------------------------------------
(* Volatility. *)

\* stdLogReturns: the ratios stand for their logarithms; none is of a zero price.
stdLogReturns(v, p) ==
  IF Len(v) < 2 THEN None
  ELSE IF \E i \in DOMAIN v : v[i] <= 0 THEN None
  ELSE rollingStd([j \in 1..(Len(v) - 1) |-> (Unit * v[j + 1]) \div v[j]], p)

chaikinVolatility(b, p, change) ==
  LET e == compact(emaSeries(spread(b), p))
      ref == e[Len(e) - change]
  IN  IF Len(e) < change + 1 THEN None
      ELSE IF ref = 0 THEN None ELSE (Hundred * (Last0(e) - ref)) \div ref

\* choppinessIndex: the way travelled, over the distance.
choppinessIndex(b, p) ==
  LET way == Total(Newest(ranges(b), p))
      distance == highestHigh(b, p) - lowestLow(b, p)
  IN  IF Len(b) < p + 1 THEN None
      ELSE IF distance <= 0 \/ way <= 0 THEN None ELSE (Unit * way) \div distance

\* massIndex: an average over the average of it, aligned on the newest bars.
massIndex(b, p, sumPeriod) ==
  LET d1 == compact(emaSeries(spread(b), p))
      d2 == compact(emaSeries(d1, p))
      lead == Len(d1) - Len(d2)
  IN  IF Len(d2) < sumPeriod THEN None
      ELSE IF \E i \in DOMAIN d2 : d2[i] = 0 THEN None
      ELSE Total(Newest([i \in DOMAIN d2 |-> (Unit * d1[lead + i]) \div d2[i]], sumPeriod))

\* randomWalkIndex: the best of the distances over k bars, by range and sqrt(k).
randomWalkIndex(b, p) ==
  LET n == Len(b)
      per(x, k) == (4 * Unit * x) \div (atrWilder(b) * Root(16 * k))
  IN  IF n < p + 1 THEN None
      ELSE IF atrWilder(b) = 0 THEN None
      ELSE [high |-> Most([j \in 1..(p - 1) |-> per(b[n].high - b[n - j - 1].low, j + 1)]),
            low |-> Most([j \in 1..(p - 1) |-> per(b[n - j - 1].high - b[n].low, j + 1)])]

\* relativeVigorIndex: bodies over ranges, both weighted over some bars, and the
\* same weights over the results.
relativeVigorIndex(b) ==
  LET w == Len(Vigor)
      weighted(f(_), i) == Total([j \in 1..w |-> Vigor[j] * f(b[i - j + 1])])
      range(i) == weighted(LAMBDA c : c.high - c.low, i)
      rvi == [j \in 1..(Len(b) - w + 1) |->
               (Unit * weighted(LAMBDA c : c.close - c.open, j + w - 1)) \div range(j + w - 1)]
  IN  IF Len(b) < 2 * w THEN None
      ELSE IF \E i \in w..Len(b) : range(i) = 0 THEN None
      ELSE [line |-> Last0(rvi),
            signal |-> Total([j \in 1..w |-> Vigor[j] * rvi[Len(rvi) - j + 1]]) \div Total(Vigor)]

-----------------------------------------------------------------------------
(* Volume. *)

obvSeries(b) ==
  LET s[i \in DOMAIN b] ==
        IF i = 1 THEN 0
        ELSE IF b[i].close > b[i - 1].close THEN s[i - 1] + b[i].volume
        ELSE IF b[i].close < b[i - 1].close THEN s[i - 1] - b[i].volume ELSE s[i - 1]
  IN  Upto(s, Len(b))

moneyFlowMultiplier(c) ==
  IF c.high = c.low THEN 0 ELSE (Unit * (2 * c.close - c.low - c.high)) \div (c.high - c.low)

adlSeries(b) ==
  [i \in DOMAIN b |-> Total([j \in 1..i |-> moneyFlowMultiplier(b[j]) * b[j].volume])]

chaikinMoneyFlow(b, p) ==
  LET w == Newest(b, p)
      vol == Total(field(w, "volume"))
  IN  IF Len(b) < p THEN None
      ELSE IF vol = 0 THEN None ELSE Last0(adlSeries(w)) \div vol

\* moneyFlowIndex: of the flows of rising and of falling bars.
moneyFlowIndex(b, p) ==
  LET tp == hlc3(b)
      at == {i \in DOMAIN b : i > Len(b) - p}
      flow(S) == FoldLeft(LAMBDA a, i : a + tp[i] * b[i].volume, 0, SetToSeq(S))
      pos == flow({i \in at : tp[i] > tp[i - 1]})
      neg == flow({i \in at : tp[i] < tp[i - 1]})
  IN  IF Len(b) < p + 1 THEN None
      ELSE IF neg = 0 THEN IF pos = 0 THEN Hundred \div 2 ELSE Hundred
      ELSE (Hundred * pos) \div (pos + neg)

forceIndex(b, p) ==
  ema([j \in 1..(Len(b) - 1) |-> (b[j + 1].close - b[j].close) * b[j + 1].volume], p)

\* Does the return of every bar exist?
Priced(b) == Len(b) >= 2 /\ \A i \in 1..(Len(b) - 1) : b[i].close # 0

pvtSeries(b) ==
  LET s[i \in DOMAIN b] ==
        IF i = 1 THEN 0
        ELSE s[i - 1] + (b[i].volume * Unit * (b[i].close - b[i - 1].close)) \div b[i - 1].close
  IN  IF Priced(b) THEN Upto(s, Len(b)) ELSE <<>>

\* pviNvi: two indexes from 1000, of the days of more and of less volume.
pviNvi(b) ==
  LET grown(x, i) == x + (x * (b[i].close - b[i - 1].close)) \div b[i - 1].close
      step(s, i) == [pvi |-> IF b[i].volume > b[i - 1].volume THEN grown(s.pvi, i) ELSE s.pvi,
                     nvi |-> IF b[i].volume < b[i - 1].volume THEN grown(s.nvi, i) ELSE s.nvi]
  IN  IF ~Priced(b) THEN None
      ELSE FoldLeft(step, [pvi |-> 1000, nvi |-> 1000], [j \in 1..(Len(b) - 1) |-> j + 1])

\* klingerVolumeOscillator: cm adds up the ranges of a trend, and starts again
\* when it turns; an unchanged price continues the trend.
klingerVolumeOscillator(b, fast, slow) ==
  LET tp == hlc3(b)
      dm == spread(b)
      bar[i \in DOMAIN b] ==
        IF i = 1 THEN [trend |-> 1, cm |-> 0]
        ELSE LET trend == IF tp[i] > tp[i - 1] THEN 1
                          ELSE IF tp[i] < tp[i - 1] THEN -1 ELSE bar[i - 1].trend
             IN  [trend |-> trend,
                  cm |-> IF trend = bar[i - 1].trend THEN bar[i - 1].cm + dm[i]
                         ELSE dm[i] + (IF i = 2 THEN 0 ELSE dm[i - 1])]
      force(i) == IF bar[i].cm = 0 THEN 0
                  ELSE b[i].volume * bar[i].trend * Abs((2 * Unit * dm[i]) \div bar[i].cm - 2 * Unit)
      vf == [j \in 1..(Len(b) - 1) |-> force(j + 1)]
  IN  IF Len(b) < slow + 2 THEN None ELSE ema(vf, fast) - ema(vf, slow)

\* easeOfMovement: one bar without range or volume anywhere, and there is none.
easeOfMovement(b, p) ==
  LET med == hl2(b)
      emv == [j \in 1..(Len(b) - 1) |->
               ((med[j + 1] - med[j]) * (b[j + 1].high - b[j + 1].low)) \div b[j + 1].volume]
  IN  IF Len(b) < p + 1 THEN None
      ELSE IF \E i \in 2..Len(b) : b[i].high = b[i].low \/ b[i].volume = 0 THEN None
      ELSE sma(emv, p)

-----------------------------------------------------------------------------
(* technicalRegistryMore: what is shown of each, by section. *)

\* None unless all of the inputs are there.
If(inputs, value) == IF None \in inputs THEN None ELSE value

MovingAverages(b) ==
  LET v == closesOf(b)
      boll == bollinger(v)
      width == 2 * Root(boll.variance)   \* of a side
      mid == sma(v, Period)
  IN  [wma |-> wma(v, Period), dema_tema |-> demaTema(v, Period), zlema |-> zlema(v, Period),
       hma |-> hma(v, Hull), smma |-> smma(v, Period), kama |-> kama(v, Period),
       alma |-> alma(v), vidya |-> vidya(v, Period),
       env |-> If({mid}, [upper |-> mid + mid \div 40, mid |-> mid, lower |-> mid - mid \div 40]),
       gmma |-> If({ema(v, p) : p \in Groups}, [p \in Groups |-> ema(v, p)]),
       bbw |-> If({boll}, IF boll.middle = 0 THEN None ELSE (2 * Unit * width) \div boll.middle),
       b |-> If({boll}, IF width = 0 THEN None
                        ELSE (Unit * (Last0(v) - boll.middle + width)) \div (2 * width)),
       sd |-> rollingStd(v, Period)]

Channels(b) ==
  LET v == closesOf(b)
      up == highestHigh(b, Period)
      low == lowestLow(b, Period)
      mid == ema(v, Period)
      atr == atrWilder(b)
      highAgo == barsSinceHighest(b, Period)
      lowAgo == barsSinceLowest(b, Period)
      was == b[Len(b) - 1]
      now == b[Len(b)]
      pp == (was.high + was.low + was.close) \div 3
      lines == [jaw |-> smma(hl2(b), Wide), teeth |-> smma(hl2(b), Period), lips |-> smma(hl2(b), 1)]
      two == Len(b) < 2
  IN  [dc |-> If({up, low}, [upper |-> up, mid |-> (up + low) \div 2, lower |-> low]),
       kc |-> If({mid, atr}, [upper |-> mid + 2 * atr, mid |-> mid, lower |-> mid - 2 * atr]),
       st |-> supertrend(b, 1), sar |-> parabolicSAR(b), dmi_adx |-> dmiADX(b, Period),
       vi |-> vortex(b, Period),
       aroon |-> If({highAgo, lowAgo},
                    [up |-> (Hundred * (Period - highAgo)) \div Period,
                     down |-> (Hundred * (Period - lowAgo)) \div Period]),
       pp |-> IF two THEN None
              ELSE [pp |-> pp, r1 |-> 2 * pp - was.low, s1 |-> 2 * pp - was.high,
                    r2 |-> pp + was.high - was.low, s2 |-> pp - (was.high - was.low)],
       gaps |-> IF two THEN None
                ELSE IF now.low > was.high THEN 1 ELSE IF now.high < was.low THEN -1 ELSE 0,
       fractals |-> williamsFractal(b),
       alligator |-> If({lines.jaw, lines.teeth, lines.lips}, lines)]

Momentum(b) ==
  LET v == closesOf(b)
      hi == highestHigh(b, Period)
      lo == lowestLow(b, Period)
      now == Last0(v)
  IN  [cci |-> cci(b, Period),
       williams_r |-> If({hi, lo}, IF hi = lo THEN None ELSE -((Hundred * (hi - now)) \div (hi - lo))),
       mtm |-> IF Len(v) < Period + 1 THEN None ELSE now - v[Len(v) - Period],
       roc |-> roc(v, Period), cmo |-> Last0(cmoSeries(v, Period)), rmi |-> rmi(v, Period, 1),
       tsi |-> tsi(v, Period, Period), trix |-> trix(v, Period),
       ppo |-> ppo(v, 1, Period, Period), dpo |-> dpo(v, Period), kst |-> kst(v)]

Oscillators(b) ==
  LET v == closesOf(b)
      fast == sma(hl2(b), Period)
      slow == sma(hl2(b), Wide)
      e == ema(v, Period)
      forecast == linregForecast(v, Period)
      now == b[Len(b)]
  IN  [stochrsi |-> stochRSI(v), uo |-> ultimateOscillator(b, 1, Period, Wide),
       smi |-> stochasticMomentumIndex(b, Period, Period),
       ao |-> If({fast, slow}, fast - slow),
       bull_bear |-> If({e}, [bull |-> now.high - e, bear |-> now.low - e]),
       fisher |-> fisherTransform(b, Period), coppock |-> coppock(v, Period, 1, Period),
       tii |-> trendIntensityIndex(v, Period),
       cfo |-> If({forecast}, IF now.close = 0 THEN None
                              ELSE (Hundred * (now.close - forecast)) \div now.close),
       crsi |-> connorsRSI(v), dynamic_mi |-> dynamicMomentumIndex(v, Period, Period, Wide)]

Volatilities(b) ==
  LET v == closesOf(b)
  IN  [hv |-> stdLogReturns(v, Period), chv |-> chaikinVolatility(b, Period, Period),
       chop |-> choppinessIndex(b, Period), mi |-> massIndex(b, Period, Period),
       rwi |-> randomWalkIndex(b, Period), rvi |-> relativeVigorIndex(b)]

Volumes(b) ==
  LET adl == adlSeries(b)
      vol == field(b, "volume")
      slow == ema(vol, Wide)
  IN  [obv |-> IF Len(b) < 2 THEN None ELSE Last0(obvSeries(b)), adl |-> Last0(adl),
       cmf |-> chaikinMoneyFlow(b, Period),
       cho |-> If({ema(adl, Wide)}, ema(adl, Period) - ema(adl, Wide)),
       mfi |-> moneyFlowIndex(b, Period), fi |-> forceIndex(b, Period),
       pvt |-> Last0(pvtSeries(b)), pvi_nvi |-> pviNvi(b),
       kvo |-> klingerVolumeOscillator(b, Period, Wide), eom |-> easeOfMovement(b, Period),
       vo |-> If({slow}, IF slow = 0 THEN None ELSE (Hundred * (ema(vol, Period) - slow)) \div slow),
       vroc |-> roc(vol, Period)]

Technicals(b) ==
  MovingAverages(b) @@ Channels(b) @@ Momentum(b) @@ Oscillators(b) @@ Volatilities(b) @@ Volumes(b)

-----------------------------------------------------------------------------
(* Properties. *)

\* Does t have the indicator, and does it satisfy P?
Shown(t, id, P(_)) == t[id] # None => P(t[id])

\* The scales readers are told of: an oscillator stays on its own.
OscillatorsInRange(t) ==
  /\ \A id \in {"rmi", "tii", "mfi", "uo", "crsi", "dynamic_mi"} :
       Shown(t, id, LAMBDA x : x \in 0..Hundred)
  /\ Shown(t, "williams_r", LAMBDA x : x \in (-Hundred)..0)
  /\ Shown(t, "cmo", LAMBDA x : x \in (-Hundred)..Hundred)
  /\ Shown(t, "stochrsi", LAMBDA x : x \in 0..Unit)
  /\ Shown(t, "cmf", LAMBDA x : x \in (-Unit)..Unit)
  /\ Shown(t, "fisher", LAMBDA x : x \in (-Unit)..Unit)
  /\ Shown(t, "aroon", LAMBDA x : x.up \in 0..Hundred /\ x.down \in 0..Hundred)
  /\ Shown(t, "dmi_adx", LAMBDA x : x.adx \in 0..Hundred /\ x.plusDI >= 0 /\ x.minusDI >= 0)
  /\ Shown(t, "chop", LAMBDA x : x >= Unit)

\* A stop is on the side of the price that its trend says; the SAR's not on the bar
\* on which it turns, for its new value is not kept out of that bar's range.
StopsOnTheirSide(b, t) ==
  LET n == Len(b)
      was == parabolicSAR(Upto(b, n - 1))
  IN  /\ Shown(t, "st", LAMBDA x : IF x.trend = 1 THEN x.value <= b[n].close
                                   ELSE x.value >= b[n].close)
      /\ Shown(t, "sar", LAMBDA x : was # None /\ was.trend = x.trend =>
                                      IF x.trend = 1 THEN x.value <= b[n].low
                                      ELSE x.value >= b[n].high)

\* With bars enough, that all have a price, a range and a volume, only a price
\* that did not move leaves an indicator out.
Flat == {"b", "cci", "tsi", "trix", "stochrsi", "tii", "dynamic_mi", "williams_r"}
ShownOnAmpleData(b, t) ==
  Len(b) = MaxBars /\ (\A i \in DOMAIN b : b[i].low > 0 /\ b[i].high > b[i].low /\ b[i].volume > 0)
    => \A id \in DOMAIN t : t[id] = None =>
         id \in Flat /\ \E i \in 2..Len(b) : b[i].close = b[i - 1].close

TechnicalsAreSound ==
  bars # <<>> => \A t \in {Technicals(bars)} :
                   /\ OscillatorsInRange(t)
                   /\ StopsOnTheirSide(bars, t)
                   /\ ShownOnAmpleData(bars, t)
=============================================================================
