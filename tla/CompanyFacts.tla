---------------------------- MODULE CompanyFacts ----------------------------
(***************************************************************************)
(* internal/edgar/fundamentals.go: from the XBRL facts of a company's      *)
(* filings to the figures of its page.  A company files a quarter at a     *)
(* time, a 10-Q for three of a year and a 10-K for the fourth, and every   *)
(* filing repeats columns of earlier periods under its own fiscal year and *)
(* period.  It may leave a concept out, report a quarter only within the   *)
(* year to date or only by itself, change the tag of its revenue, or stop  *)
(* giving its share count.  After each filing the figures are extracted    *)
(* from all of them.                                                       *)
(*                                                                         *)
(* A date is a number of days, and a year has 365 of them.  What a concept *)
(* earns in quarter k is a multiple of 2^k, so that a sum tells its        *)
(* quarters; a balance at the end of quarter k is a multiple of k.  A      *)
(* period that is reported again has the figure it had.                    *)
(***************************************************************************)
EXTENDS Integers, FiniteSets, SequencesExt

CONSTANTS
  Calendars,   \* days the quarters of a fiscal year end on, and the label of that year
  Started,     \* quarters filed, as usual, before the first state
  Quarters,    \* bound: quarters filed
  MaxOddities, \* bound: filings that are not as usual
  Stale,       \* sharesStaleAfterDays
  MaxYears,    \* financialsHistoryYears
  MaxQ,        \* financialsQuartersMax
  None

VARIABLES
  calendar,
  filings,    \* how each quarter was filed, oldest first
  tag,        \* of its revenue, now
  oddities

factVars == <<calendar, filings, tag, oddities>>

-----------------------------------------------------------------------------
(* The company: its calendar, what it earns, and its filings. *)

Year == 365
QuarterOf(k) == ((k - 1) % 4) + 1
FiscalYear(k) == (k - 1) \div 4
QuarterEnd(k) == Year * (FiscalYear(k) + 2) + calendar.ends[QuarterOf(k)]
Start(k) == QuarterEnd(k - 1) + 1

RevenueTags == <<"RevenueFromContract", "Revenues">>
AllTags ==
  ToSet(RevenueTags) \cup
  {"CostOfRevenue", "NetIncomeLoss", "GrossProfit", "OperatingCashFlow", "CapEx", "Assets",
   "StockholdersEquity", "Liabilities", "DeiShares", "GaapShares", "WeightedShares"}

\* Of a quarter, and of a day; capital expenditure is filed as negative by this company.
Flow == [t \in {"RevenueFromContract", "Revenues", "CostOfRevenue", "NetIncomeLoss",
                "OperatingCashFlow", "CapEx"} |->
           CASE t \in ToSet(RevenueTags) -> 4 [] t = "OperatingCashFlow" -> 2 [] t = "CapEx" -> -1 [] OTHER -> 1]
Balance == [t \in {"Assets", "StockholdersEquity"} |-> IF t = "Assets" THEN 3 ELSE 1]
Earned(t, a, b) == Flow[t] * (2 ^ (b + 1) - 2 ^ a)   \* in the quarters a to b

Odd == {"usual", "other tag", "no revenue", "to date only", "quarter only", "stops shares",
        "no balance", "no capex"}
Leaves(odd, t) ==
  \/ odd = "no revenue" /\ t \in ToSet(RevenueTags)
  \/ odd = "no balance" /\ t \in DOMAIN Balance
  \/ odd = "no capex" /\ t = "CapEx"

\* The periods filing k reports of a flow: its own and those of the year (10-K: two) before.
Periods(k) ==
  IF QuarterOf(k) = 4 THEN {<<k - 3, k>>, <<k - 7, k - 4>>, <<k - 11, k - 8>>}
  ELSE LET toDate == <<k - QuarterOf(k) + 1, k>>
           own == {p \in {toDate, <<k, k>>} : /\ filings[k].odd = "to date only" => p = toDate
                                              /\ filings[k].odd = "quarter only" => p = <<k, k>>}
       IN  own \cup {<<p[1] - 4, p[2] - 4>> : p \in own}
Column(t, start, end, k, val) ==
  [tag |-> t, start |-> start, end |-> end, val |-> val, filed |-> k,
   fy |-> FiscalYear(k) + calendar.label, fp |-> IF QuarterOf(k) = 4 THEN None ELSE QuarterOf(k)]
\* The balance sheet stands beside that of the last fiscal year; the cover has the shares.
Columns(t, k) ==
  IF t \in DOMAIN Flow
  THEN {Column(t, Start(p[1]), QuarterEnd(p[2]), k, Earned(t, p[1], p[2])) : p \in {q \in Periods(k) : q[1] >= 1}}
  ELSE IF t \in DOMAIN Balance
  THEN {Column(t, None, QuarterEnd(j), k, Balance[t] * j) : j \in {i \in {k, k - QuarterOf(k)} : i >= 1}}
  ELSE IF t = "DeiShares" THEN {Column(t, None, QuarterEnd(k) + 20, k, k)} ELSE {}
Gives(k, t) ==
  /\ ~Leaves(filings[k].odd, t)
  /\ t \in ToSet(RevenueTags) => t = filings[k].tag
  /\ t = "DeiShares" => \A j \in 1..k : filings[j].odd # "stops shares"
Facts == [t \in AllTags |-> UNION {Columns(t, k) : k \in {j \in DOMAIN filings : Gives(j, t)}}]

Init ==
  /\ calendar \in Calendars
  /\ tag \in ToSet(RevenueTags)
  /\ filings = [k \in 1..Started |-> [tag |-> tag, odd |-> "usual"]]
  /\ oddities = 0

File(odd) ==
  /\ Len(filings) < Quarters
  /\ odd # "usual" => oddities < MaxOddities
  /\ oddities' = oddities + (IF odd = "usual" THEN 0 ELSE 1)
  /\ tag' = IF odd # "other tag" THEN tag ELSE CHOOSE t \in ToSet(RevenueTags) : t # tag
  /\ filings' = Append(filings, [tag |-> tag', odd |-> odd])
  /\ UNCHANGED calendar

Next == \E odd \in Odd : File(odd)

Spec == Init /\ [][Next]_factVars

-----------------------------------------------------------------------------
(* The selectors. *)

\* pick: the first of the tags that has any point.
pick(F, tags) ==
  LET has == SelectSeq(tags, LAMBDA t : F[t] # {}) IN IF has = <<>> THEN {} ELSE F[Head(has)]

\* The newest end, then the latest amendment; {} is the code's !ok.
Newer(p, q) == p.end > q.end \/ (p.end = q.end /\ p.filed > q.filed)
Newest(S) == IF S = {} THEN {} ELSE {CHOOSE p \in S : \A q \in S : ~Newer(q, p)}
The(S) == CHOOSE p \in S : TRUE
Val(S) == IF S = {} THEN 0 ELSE The(S).val
Abs(x) == IF x < 0 THEN -x ELSE x

Lasts(p, least, most) == p.start # None /\ p.end - p.start \in least..most
IsAnnual(p) == Lasts(p, 350, 380)
endYear(p) == (p.end - 1) \div Year

latestInstant(S) == Newest(S)
priorInstant(S, latestEnd) == Newest({p \in S : p.start = None /\ p.end < latestEnd - 300})
latestAnnual(S) == Newest({p \in S : IsAnnual(p)})
annualForEndYear(S, y) == Newest({p \in S : IsAnnual(p) /\ endYear(p) = y})
latestQuarterly(S, afterEnd) == Newest({p \in S : Lasts(p, 80, 100) /\ p.end > afterEnd})

\* The longest period to the latest quarter end after the annual, if it begins with the year.
longestToDate(S, afterEnd) ==
  LET since == {p \in S : Lasts(p, 80, 350) /\ p.end > afterEnd}
      last == {p \in since : \A q \in since : p.end >= q.end}
  IN  Newest({p \in last : \A q \in last : p.start <= q.start})
\* Mutant: a quarter by itself is taken for the year to date.
latestYTDOfAnyStart(S, afterEnd) == longestToDate(S, afterEnd)
latestYTD(S, afterEnd) == {p \in longestToDate(S, afterEnd) : p.start - afterEnd \in -20..20}
priorYearYTD(S, cur) ==
  LET lasts(p) == p.end - p.start
      gap(p) == Abs(p.end - (cur.end - Year))
      like == {p \in S : Lasts(p, lasts(cur) - 20, lasts(cur) + 20) /\ gap(p) <= 20
                         /\ ~(lasts(p) >= 350 /\ lasts(cur) < 350)}
  IN  {p \in like : \A q \in like : gap(p) < gap(q) \/ (gap(p) = gap(q) /\ p.filed >= q.filed)}

trailingTwelveMonths(S) ==
  LET annual == latestAnnual(S)
      cur == IF annual = {} THEN {} ELSE latestYTD(S, The(annual).end)
      prior == IF cur = {} THEN {} ELSE priorYearYTD(S, The(cur))
  IN  IF annual = {} THEN None
      ELSE IF prior = {} THEN [val |-> Val(annual), end |-> The(annual).end]
      ELSE [val |-> Val(annual) + Val(cur) - Val(prior), end |-> The(cur).end]

-----------------------------------------------------------------------------
(* The series. *)

Ascending(S, key(_)) ==
  [i \in 1..Cardinality(S) |-> CHOOSE x \in S : Cardinality({y \in S : key(y) < key(x)}) = i - 1]
LastN(s, n) == SubSeq(s, IF Len(s) > n THEN Len(s) - n + 1 ELSE 1, Len(s))
\* Of the points of several tags: those of the first tag that is among them.
Foremost(S, tags) ==
  LET t == Head(SelectSeq(tags, LAMBDA x : \E p \in S : p.tag = x)) IN {p \in S : p.tag = t}
PointsOf(F, tags) == UNION {F[t] : t \in ToSet(tags)}

\* By end year, the last MaxYears of them; the label is that of the newest one's filing.
annualChosen(F, tags) ==
  LET annual == {p \in PointsOf(F, tags) : IsAnnual(p)}
      years == LastN(Ascending({endYear(p) : p \in annual}, LAMBDA y : y), MaxYears)
  IN  [i \in DOMAIN years |->
         The(Newest(Foremost({p \in annual : endYear(p) = years[i]}, tags)))]
merged(chosen) ==
  LET offset == chosen[Len(chosen)].fy - endYear(chosen[Len(chosen)])
  IN  [i \in DOMAIN chosen |-> [year |-> endYear(chosen[i]), fy |-> endYear(chosen[i]) + offset,
                                val |-> chosen[i].val]]
annualSeriesMerged(F, tags) == merged(annualChosen(F, tags))

pickInstantsByEnd(F, tags, end) ==
  LET S == {p \in PointsOf(F, tags) : p.start = None /\ p.end = end}
  IN  IF S = {} THEN {} ELSE Newest(Foremost(S, tags))
\* The years that have one of the instants, with its value.
instantsOfYears(whole, at) ==
  LET known == SelectSeq([i \in DOMAIN at |-> i], LAMBDA i : at[i] # {})
  IN  [i \in DOMAIN known |-> [whole[known[i]] EXCEPT !.val = Val(at[known[i]])]]
annualBalanceSeries(F, fyTags, tags) ==
  LET years == annualChosen(F, fyTags)
  IN  instantsOfYears(merged(years), [i \in DOMAIN years |-> pickInstantsByEnd(F, tags, years[i].end)])

yearsOf(s) == {s[i].year : i \in DOMAIN s}
inYear(s, y) == The({s[i] : i \in {j \in DOMAIN s : s[j].year = y}})
fillLiabilities(liab, assets, equity) ==
  LET derived == (yearsOf(assets) \cap yearsOf(equity)) \ yearsOf(liab)
  IN  Ascending(ToSet(liab) \cup {[inYear(assets, y) EXCEPT !.val = @ - inYear(equity, y).val] : y \in derived},
                LAMBDA y : y.year)
absYearValues(s) == [i \in DOMAIN s |-> [s[i] EXCEPT !.val = Abs(@)]]
\* A year with one of the two only is dropped.
deriveFCF(ocf, capex) ==
  LET both == SelectSeq(ocf, LAMBDA o : o.year \in yearsOf(capex))
  IN  [i \in DOMAIN both |-> [both[i] EXCEPT !.val = @ - inYear(capex, both[i].year).val]]

\* One point by end date: of a higher tag, then the latest filed.
byEnd(F, tags, least, most) ==
  LET S == {p \in PointsOf(F, tags) : Lasts(p, least, most)}
  IN  {The(Newest(Foremost({q \in S : q.end = e}, tags))) : e \in {p.end : p \in S}}
\* A fourth quarter is the year less its first nine months; the newest quarter that was
\* reported itself gives the labels, which are counted back from it.
quarterlySeries(F, tags) ==
  LET standalone == byEnd(F, tags, 85, 100)
      nine(a) == {p \in byEnd(F, tags, 265, 285) : p.start = a.start}
      derived == {a \in byEnd(F, tags, 350, 380) :
                    nine(a) # {} /\ \A p \in standalone : p.end # a.end}
      labelled == {p \in standalone : p.fp # None}
      anchor == The(Newest(labelled))
      quarter(end, val, isDerived) ==
        LET back == (2 * (anchor.end - end) + 91) \div 182   \* rounded
            n == 4 * anchor.fy + anchor.fp - 1 - back
        IN  [q |-> (n % 4) + 1, fy |-> n \div 4, end |-> end, val |-> val, derived |-> isDerived]
      all == {quarter(p.end, p.val, FALSE) : p \in standalone} \cup
             {quarter(a.end, a.val - Val(nine(a)), TRUE) : a \in derived}
  IN  IF labelled = {} THEN <<>>
      ELSE LastN(Ascending(all, LAMBDA q : q.end), MaxQ)

-----------------------------------------------------------------------------
(* The figures. *)

\* Of a flow, the latest year and the one before; of a balance, the latest and a year before.
yearly(S) ==
  LET p == latestAnnual(S)
  IN  [point |-> p, val |-> Val(p),
       prior |-> IF p = {} THEN 0 ELSE Val(annualForEndYear(S, endYear(The(p)) - 1))]
instant(S) ==
  LET p == latestInstant(S)
  IN  [point |-> p, val |-> Val(p), prior |-> IF p = {} THEN 0 ELSE Val(priorInstant(S, The(p).end))]

latestFinancialEnd(F) ==
  {p.end : p \in latestAnnual(pick(F, RevenueTags)) \cup latestAnnual(F["NetIncomeLoss"])
                 \cup latestInstant(F["StockholdersEquity"]) \cup latestInstant(F["Assets"])}
sharesIsStale(F, end) == \E e \in latestFinancialEnd(F) : e - end > Stale
shares(F) ==
  LET cover == instant(F["DeiShares"])
      other == [cover EXCEPT !.point = latestInstant(pick(F, <<"GaapShares", "WeightedShares">>)), !.prior = 0]
      found == IF cover.point # {} THEN cover ELSE other
  IN  IF found.point = {} \/ sharesIsStale(F, The(found.point).end)
      THEN [val |-> 0, prior |-> 0, end |-> None]
      ELSE [val |-> Val(found.point), prior |-> found.prior, end |-> The(found.point).end]

\* The cost of the same year as the revenue.
costOfRevenue(F) ==
  LET rev == latestAnnual(pick(F, RevenueTags))
  IN  IF rev = {} THEN {} ELSE annualForEndYear(F["CostOfRevenue"], endYear(The(rev)))
grossProfit(F) ==
  IF latestAnnual(F["GrossProfit"]) # {} THEN yearly(F["GrossProfit"])
  ELSE [yearly({}) EXCEPT !.val = IF costOfRevenue(F) = {} THEN 0
                                   ELSE Val(latestAnnual(pick(F, RevenueTags))) - Val(costOfRevenue(F))]
totalLiabilities(F) ==
  LET assets == Val(latestInstant(F["Assets"]))
      equity == Val(latestInstant(F["StockholdersEquity"]))
  IN  IF F["Liabilities"] # {} THEN Val(latestInstant(F["Liabilities"]))
      ELSE IF assets # 0 /\ equity # 0 THEN assets - equity ELSE 0

\* The run rate is of a quarter after the latest year.
latestQuarter(S) ==
  latestQuarterly(S, IF latestAnnual(S) = {} THEN 0 ELSE The(latestAnnual(S)).end)

history(F) ==
  LET capex == absYearValues(annualSeriesMerged(F, <<"CapEx">>))
      assets == annualBalanceSeries(F, RevenueTags, <<"Assets">>)
      equity == annualBalanceSeries(F, RevenueTags, <<"StockholdersEquity">>)
  IN  [revenue |-> annualSeriesMerged(F, RevenueTags),
       income |-> annualSeriesMerged(F, <<"NetIncomeLoss">>),
       fcf |-> deriveFCF(annualSeriesMerged(F, <<"OperatingCashFlow">>), capex),
       assets |-> assets, equity |-> equity,
       liabilities |-> fillLiabilities(annualBalanceSeries(F, RevenueTags, <<"Liabilities">>), assets, equity),
       revenueQ |-> quarterlySeries(F, RevenueTags)]

extractFundamentals(F) ==
  LET rev == yearly(pick(F, RevenueTags))
      income == yearly(F["NetIncomeLoss"])
      first == IF rev.point # {} THEN rev.point ELSE income.point
  IN  [shares |-> shares(F), revenue |-> rev, income |-> income,
       period |-> IF first = {} THEN None ELSE [fy |-> The(first).fy, end |-> The(first).end],
       equity |-> instant(F["StockholdersEquity"]), assets |-> instant(F["Assets"]),
       liabilities |-> totalLiabilities(F), grossProfit |-> grossProfit(F),
       capex |-> Abs(Val(latestAnnual(F["CapEx"]))),
       quarter |-> latestQuarter(F["NetIncomeLoss"]),
       ttm |-> trailingTwelveMonths(pick(F, RevenueTags)),
       incomeTTM |-> trailingTwelveMonths(F["NetIncomeLoss"]),
       history |-> history(F)]

-----------------------------------------------------------------------------
FactsTypeOK ==
  /\ calendar \in Calendars /\ tag \in ToSet(RevenueTags)
  /\ filings \in Seq([tag : ToSet(RevenueTags), odd : Odd])
  /\ Len(filings) \in Started..Quarters
  /\ oddities \in 0..MaxOddities

Filed == DOMAIN filings
YearsFiled == {k \in Filed : QuarterOf(k) = 4}

IsYear(t, val, k) == val = Earned(t, k - 3, k)
\* Trailing twelve months are four quarters in a row, up to the date they bear.
IsTrailing(t, x) == x # None => \E k \in Filed : x.end = QuarterEnd(k) /\ x.val = Earned(t, k - 3, k)
IsQuarterly(t, s) ==
  \A i \in DOMAIN s : \E k \in Filed :
    /\ s[i].end = QuarterEnd(k) /\ s[i].val = Earned(t, k, k)
    /\ s[i].q = QuarterOf(k) /\ s[i].fy = FiscalYear(k) + calendar.label
    /\ s[i].derived <=> QuarterOf(k) = 4
IsYearly(s, IsOf(_, _)) ==
  \A i \in DOMAIN s : \E k \in YearsFiled :
    s[i].fy = FiscalYear(k) + calendar.label /\ IsOf(s[i].val, k)

\* The years and quarters of the charts have the value and the label of the period they stand
\* for, the derived fourth quarters and cash flows too, and assets are what the company owes
\* and owns.
HistoryIsTrue(h) ==
  /\ IsYearly(h.revenue, LAMBDA v, k : IsYear("Revenues", v, k))
  /\ IsYearly(h.income, LAMBDA v, k : IsYear("NetIncomeLoss", v, k))
  /\ IsYearly(h.fcf, LAMBDA v, k : v = Earned("OperatingCashFlow", k - 3, k) + Earned("CapEx", k - 3, k))
  /\ IsYearly(h.assets, LAMBDA v, k : v = Balance["Assets"] * k)
  /\ \A y \in yearsOf(h.liabilities) :
       inYear(h.assets, y).val = inYear(h.liabilities, y).val + inYear(h.equity, y).val
  /\ IsQuarterly("Revenues", h.revenueQ)

\* A comparison is of one year with the year before it, a balance with one a year older.
PairsAreTrue(f) ==
  /\ \A x \in {[t |-> "Revenues", pair |-> f.revenue], [t |-> "NetIncomeLoss", pair |-> f.income]} :
       x.pair.point # {} =>
         \E k \in YearsFiled :
           /\ The(x.pair.point).end = QuarterEnd(k) /\ IsYear(x.t, x.pair.val, k)
           /\ x.pair.prior = 0 \/ IsYear(x.t, x.pair.prior, k - 4)
  /\ f.grossProfit.val \in {0, f.revenue.val - f.revenue.val \div 4}
  /\ \A k \in Filed :
       /\ f.assets.val = Balance["Assets"] * k =>
            f.assets.prior <= Balance["Assets"] * (k - 4)
            /\ (filings[k - 4].odd # "no balance" => f.assets.prior = Balance["Assets"] * (k - 4))
       /\ f.shares.val = k =>
            /\ Gives(k, "DeiShares")
            /\ \A j \in Filed : QuarterEnd(j) - f.shares.end > Stale =>
                 filings[j].odd = "no balance" /\ QuarterOf(j) # 4

\* FiguresAreTrue: whatever was left out, retagged or restamped in the filings, a figure that
\* is shown is the one the company filed for that period ("insufficient, not wrong").
FiguresAreTrue ==
  \A f \in {extractFundamentals(Facts)} :
      /\ HistoryIsTrue(f.history)
      /\ PairsAreTrue(f)
      /\ IsTrailing("Revenues", f.ttm) /\ IsTrailing("NetIncomeLoss", f.incomeTTM)
      /\ filings[Len(filings)].odd # "quarter only" => f.incomeTTM.end = QuarterEnd(Len(filings))
      /\ \A q \in f.quarter : \E k \in Filed :
           /\ q.val = Earned("NetIncomeLoss", k, k) /\ \A j \in YearsFiled : j < k
           /\ q.fp = QuarterOf(k) /\ q.fy = FiscalYear(k) + calendar.label
=============================================================================
