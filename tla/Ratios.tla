------------------------------- MODULE Ratios -------------------------------
(***************************************************************************)
(* internal/indicators: the fundamental ratios of a stock (fundamental.go, *)
(* fundamental_inc2.go, fundamental_inc2_group3.go, fundamental_inc3.go),  *)
(* and the Computer that gathers what it can of a ticker and evaluates the *)
(* catalog over it (compute.go).  A figure the filings do not report is 0. *)
(*                                                                         *)
(* The state is what one page is computed from: the company, the figures   *)
(* its filings leave out, and the sources that fail.  A value is a pair    *)
(* <<n, d>>, n / d, or None for the code's !ok ("insufficient"); percents  *)
(* are ratios here.                                                        *)
(***************************************************************************)
EXTENDS Integers, FiniteSets, SequencesExt, TLC

CONSTANTS
  Companies,   \* the figures of a company, all of them reported
  Catalog,     \* the ids of the catalog, in its order
  Technical,   \* the candles that its closures over the candles ask for, by id
  Crypto,      \* cryptoOnlyIDs
  Charts,      \* closing prices, oldest first
  Live,        \* the live price
  TradingDays, MinCloses, \* of the total return
  betaMinPairs,
  IsBenchmark, \* whether the stock is the benchmark itself, marketBenchmarkTicker
  MaxOmitted,  \* bound: figures left out
  None

Sources == {"ohlcv", "fund", "price", "benchmark", "vix", "fearGreed"}

VARIABLES company, omitted, down, chart

ratioVars == <<company, omitted, down, chart>>

\* What Fundamentals has of the company.
Reported(c, absent) == [x \in DOMAIN c |-> IF x \in absent THEN 0 ELSE c[x]]

If(ok, n, d) == IF ok THEN <<n, d>> ELSE None
Whole(v, n, d) == IF v = None THEN None ELSE <<n, d>>
Magnitude(x) == IF x < 0 THEN -x ELSE x

-----------------------------------------------------------------------------
(* fundamental.go. *)

peTTM(p, f) == LET eps == IF f.EPSDilutedTTM = 0 THEN f.EPSDiluted ELSE f.EPSDilutedTTM
               IN  If(p > 0 /\ eps > 0, p, eps)
pb(p, f) == If(p > 0 /\ f.Shares > 0 /\ f.Equity > 0, p * f.Shares, f.Equity)
roe(f) == If(f.Equity > 0, f.NetIncome, f.Equity)
npm(f) == If(f.Revenue > 0, f.NetIncome, f.Revenue)
\* Mutant: a gross profit that is not reported is a margin of zero.
gpmOfNone(f) == If(f.Revenue > 0, f.GrossProfit, f.Revenue)
gpm(f) == If(f.Revenue > 0 /\ f.GrossProfit # 0, f.GrossProfit, f.Revenue)
revenueGrowthYoY(f) == If(f.RevenuePrior > 0, f.Revenue - f.RevenuePrior, f.RevenuePrior)
earningsGrowthYoY(f) ==
  If(f.NetIncomePrior # 0, f.NetIncome - f.NetIncomePrior, Magnitude(f.NetIncomePrior))
fcf(f) == If(f.OperatingCashFlow # 0, f.OperatingCashFlow - f.CapEx, 1)
dividendYield(p, f) ==
  If(f.DividendsPaid > 0 /\ p > 0 /\ f.Shares > 0, f.DividendsPaid, p * f.Shares)
debtToAsset(f) == If(f.TotalAssets > 0, f.TotalLiabilities, f.TotalAssets)

marketCap(p, f) == If(p > 0 /\ f.Shares > 0, p * f.Shares, 1)
epsDiluted(f) == If(f.EPSDiluted # 0, f.EPSDiluted, 1)
bvps(f) == If(f.Equity > 0 /\ f.Shares > 0, f.Equity, f.Shares)
sps(f) == If(f.Revenue > 0 /\ f.Shares > 0, f.Revenue, f.Shares)
ps(p, f) == If(p > 0 /\ f.Shares > 0 /\ f.Revenue > 0, p * f.Shares, f.Revenue)
debtToEquity(f) == If(f.Equity > 0, f.TotalLiabilities, f.Equity)
equityMultiplier(f) == If(f.Equity > 0 /\ f.TotalAssets > 0, f.TotalAssets, f.Equity)
roa(f) == If(f.TotalAssets > 0, f.NetIncome, f.TotalAssets)
gpToAssets(f) == If(f.TotalAssets > 0 /\ f.GrossProfit # 0, f.GrossProfit, f.TotalAssets)
assetTurnover(f) == If(f.Revenue > 0 /\ f.TotalAssets > 0, f.Revenue, f.TotalAssets)
ocfToNI(f) == If(f.NetIncome > 0 /\ f.OperatingCashFlow # 0, f.OperatingCashFlow, f.NetIncome)
ocfCFO(f) == If(f.OperatingCashFlow # 0, f.OperatingCashFlow, 1)
fcfConversion(f) == If(f.NetIncome > 0 /\ fcf(f) # None, fcf(f)[1], f.NetIncome)
capex(f) == If(f.CapEx # 0, f.CapEx, 1)
capexToSales(f) == If(f.Revenue > 0 /\ f.CapEx # 0, f.CapEx, f.Revenue)
fcfYield(p, f) == If(p > 0 /\ f.Shares > 0 /\ fcf(f) # None, fcf(f)[1], p * f.Shares)
pcf(p, f) == If(p > 0 /\ f.Shares > 0 /\ f.OperatingCashFlow > 0, p * f.Shares, f.OperatingCashFlow)
cfps(f) == If(f.Shares > 0 /\ f.OperatingCashFlow # 0, f.OperatingCashFlow, f.Shares)
fcfps(f) == If(f.Shares > 0 /\ fcf(f) # None, fcf(f)[1], f.Shares)
payoutRatio(f) == If(f.NetIncome > 0 /\ f.DividendsPaid > 0, f.DividendsPaid, f.NetIncome)
retentionRatio(f) == Whole(payoutRatio(f), f.NetIncome - f.DividendsPaid, f.NetIncome)
dps(f) == If(f.Shares > 0 /\ f.DividendsPaid > 0, f.DividendsPaid, f.Shares)
sgr(f) ==
  If(roe(f) # None /\ retentionRatio(f) # None,
     roe(f)[1] * retentionRatio(f)[1], roe(f)[2] * retentionRatio(f)[2])
accruals(f) ==
  If(f.TotalAssets > 0 /\ f.OperatingCashFlow # 0, f.NetIncome - f.OperatingCashFlow, f.TotalAssets)
tobinsQ(p, f) ==
  If(p > 0 /\ f.Shares > 0 /\ f.TotalAssets > 0, p * f.Shares + f.TotalLiabilities, f.TotalAssets)
peLYR(p, f) == If(p > 0 /\ f.Shares > 0 /\ f.NetIncomePrior > 0, p * f.Shares, f.NetIncomePrior)

-----------------------------------------------------------------------------
(* fundamental_inc2.go: earnings before interest and tax, and their margins. *)

\* Without an operating income: net income, interest and tax, if one of the two is there.
ebit(f) ==
  IF f.OperatingIncomeLoss # 0 THEN <<f.OperatingIncomeLoss, 1>>
  ELSE If(f.InterestExpense # 0 \/ f.IncomeTaxExpense # 0,
          f.NetIncome + f.InterestExpense + f.IncomeTaxExpense, 1)
ebitda(f) ==
  If(f.OperatingIncomeLoss # 0 /\ f.DepreciationAmort # 0, f.OperatingIncomeLoss + f.DepreciationAmort, 1)
preTaxIncome(f) ==
  IF f.PreTaxIncome # 0 THEN <<f.PreTaxIncome, 1>>
  ELSE If(f.IncomeTaxExpense # 0, f.NetIncome + f.IncomeTaxExpense, 1)
opm(f) == If(f.Revenue > 0 /\ f.OperatingIncomeLoss # 0, f.OperatingIncomeLoss, f.Revenue)
ebitMargin(f) == If(f.Revenue > 0 /\ ebit(f) # None, ebit(f)[1], f.Revenue)
preTaxMargin(f) == If(f.Revenue > 0 /\ preTaxIncome(f) # None, preTaxIncome(f)[1], f.Revenue)
ebitdaMargin(f) == If(f.Revenue > 0 /\ ebitda(f) # None, ebitda(f)[1], f.Revenue)
icrTIE(f) == If(f.InterestExpense > 0 /\ ebit(f) # None, ebit(f)[1], f.InterestExpense)
roce(f) ==
  LET employed == f.TotalAssets - f.LiabilitiesCurrent
  IN  If(f.TotalAssets > 0 /\ f.LiabilitiesCurrent > 0 /\ employed > 0 /\ ebit(f) # None,
         ebit(f)[1], employed)
interestBearingDebt(f) ==
  If(f.LongTermDebt # 0 \/ f.DebtCurrent # 0, f.LongTermDebt + f.DebtCurrent, 1)
\* The tax rate is at least 0 and at most 1, and 0 without an income before tax.
roic(f) ==
  LET pre == preTaxIncome(f)
      taxed == pre # None /\ pre[1] > 0
      base == IF taxed THEN pre[1] ELSE 1
      tax == IF ~taxed \/ f.IncomeTaxExpense < 0 THEN 0
             ELSE IF f.IncomeTaxExpense > base THEN base ELSE f.IncomeTaxExpense
      invested == interestBearingDebt(f)[1] + f.Equity - f.CashAndEquivalents
  IN  If(ebit(f) # None /\ interestBearingDebt(f) # None /\ f.Equity # 0 /\ invested > 0,
         ebit(f)[1] * (base - tax), base * invested)
opGrowth(f) ==
  If(f.OperatingIncomeLossPrior # 0, f.OperatingIncomeLoss - f.OperatingIncomeLossPrior,
     Magnitude(f.OperatingIncomeLossPrior))

(* The balance sheet. *)

currentRatio(f) == If(f.AssetsCurrent > 0 /\ f.LiabilitiesCurrent > 0, f.AssetsCurrent, f.LiabilitiesCurrent)
quickRatio(f) ==
  If(f.AssetsCurrent > 0 /\ f.LiabilitiesCurrent > 0 /\ f.InventoryNet # 0,
     f.AssetsCurrent - f.InventoryNet, f.LiabilitiesCurrent)
cashRatio(f) ==
  If(f.LiabilitiesCurrent > 0 /\ f.CashAndEquivalents # 0, f.CashAndEquivalents, f.LiabilitiesCurrent)
inventoryTurnover(f) == If(f.InventoryNet > 0 /\ f.CostOfRevenue # 0, f.CostOfRevenue, f.InventoryNet)
receivablesTurnover(f) == If(f.AccountsReceivable > 0 /\ f.Revenue > 0, f.Revenue, f.AccountsReceivable)
payablesTurnover(f) == If(f.AccountsPayable > 0 /\ f.CostOfRevenue # 0, f.CostOfRevenue, f.AccountsPayable)
Days(turnover) == If(turnover # None /\ turnover[1] > 0, 365 * turnover[2], turnover[1])
dio(f) == Days(inventoryTurnover(f))
dso(f) == Days(receivablesTurnover(f))
dpoDays(f) == Days(payablesTurnover(f))
ccc(f) ==
  LET a == dio(f)
      b == dso(f)
      c == dpoDays(f)
  IN  If(a # None /\ b # None /\ c # None,
         a[1] * b[2] * c[2] + b[1] * a[2] * c[2] - c[1] * a[2] * b[2], a[2] * b[2] * c[2])
fixedAssetTurnover(f) == If(f.PropertyPlantNet > 0 /\ f.Revenue > 0, f.Revenue, f.PropertyPlantNet)
currentAssetTurnover(f) == If(f.AssetsCurrent > 0 /\ f.Revenue > 0, f.Revenue, f.AssetsCurrent)
wcTurnover(f) ==
  LET wc == f.AssetsCurrent - f.LiabilitiesCurrent
  IN  If(f.AssetsCurrent > 0 /\ f.LiabilitiesCurrent > 0 /\ f.Revenue > 0 /\ wc > 0, f.Revenue, wc)
ocfRatio(f) ==
  If(f.LiabilitiesCurrent > 0 /\ f.OperatingCashFlow # 0, f.OperatingCashFlow, f.LiabilitiesCurrent)

(* Debt, and enterprise value. *)

ltDebtRatio(f) ==
  If(f.LongTermDebt # 0 /\ f.LongTermDebt + f.Equity > 0, f.LongTermDebt, f.LongTermDebt + f.Equity)
netGearing(f) ==
  If(f.Equity > 0 /\ interestBearingDebt(f) # None,
     interestBearingDebt(f)[1] - f.CashAndEquivalents, f.Equity)
cashToSTDebt(f) == If(f.DebtCurrent > 0 /\ f.CashAndEquivalents # 0, f.CashAndEquivalents, f.DebtCurrent)
tangibleEquity(f) ==
  LET te == f.Equity - f.Goodwill - f.IntangiblesExGoodwill
  IN  If((f.Goodwill # 0 \/ f.IntangiblesExGoodwill # 0) /\ te > 0, te, 1)
dtnw(f) == If(tangibleEquity(f) # None, f.TotalLiabilities, tangibleEquity(f)[1])
goodwillToEquity(f) == If(f.Goodwill # 0 /\ f.Equity > 0, f.Goodwill, f.Equity)
tangiblePB(p, f) == If(p > 0 /\ f.Shares > 0 /\ tangibleEquity(f) # None, p * f.Shares, tangibleEquity(f)[1])
ev(p, f) ==
  If(marketCap(p, f) # None /\ interestBearingDebt(f) # None,
     marketCap(p, f)[1] + interestBearingDebt(f)[1] - f.CashAndEquivalents, 1)
evToSales(p, f) == If(f.Revenue > 0 /\ ev(p, f) # None, ev(p, f)[1], f.Revenue)
evToFCF(p, f) == If(ev(p, f) # None /\ fcf(f) # None /\ fcf(f)[1] > 0, ev(p, f)[1], fcf(f)[1])
evToEBITDA(p, f) == If(ev(p, f) # None /\ ebitda(f) # None /\ ebitda(f)[1] > 0, ev(p, f)[1], ebitda(f)[1])
rdIntensity(f) == If(f.Revenue > 0 /\ f.ResearchDevelopment # 0, f.ResearchDevelopment, f.Revenue)
buybackYield(p, f) == If(f.BuybackAmount > 0 /\ marketCap(p, f) # None, f.BuybackAmount, marketCap(p, f)[1])

(* fundamental_inc2_group3.go. *)

epsGrowth(f) == If(f.EPSDilutedPrior # 0, f.EPSDiluted - f.EPSDilutedPrior, Magnitude(f.EPSDilutedPrior))
equityGrowth(f) == If(f.EquityPrior > 0, f.Equity - f.EquityPrior, f.EquityPrior)
assetGrowth(f) == If(f.TotalAssetsPrior > 0, f.TotalAssets - f.TotalAssetsPrior, f.TotalAssetsPrior)
gpGrowth(f) == If(f.GrossProfitPrior > 0, f.GrossProfit - f.GrossProfitPrior, f.GrossProfitPrior)
epsBasic(f) == If(f.EPSBasic # 0, f.EPSBasic, 1)

-----------------------------------------------------------------------------
(* fundamental_inc3.go: the scores, and the total return. *)

\* In tenths.
altmanZ(p, f) ==
  LET ta == f.TotalAssets
      needed == {ta, f.TotalLiabilities, f.Revenue, p, f.Shares, f.AssetsCurrent, f.LiabilitiesCurrent}
  IN  If((\A x \in needed : x > 0) /\ ebit(f) # None,
         f.TotalLiabilities * (12 * (f.AssetsCurrent - f.LiabilitiesCurrent) + 14 * f.RetainedEarnings
                               + 33 * ebit(f)[1] + 10 * f.Revenue) + 6 * p * f.Shares * ta,
         ta * f.TotalLiabilities)

piotroskiF(f) ==
  LET positive == {f.TotalAssets, f.TotalAssetsPrior, f.LiabilitiesCurrent, f.LiabilitiesCurrentPrior,
                   f.Revenue, f.RevenuePrior}
      present == {f.NetIncomePrior, f.GrossProfitPrior, f.AssetsCurrentPrior, f.LongTermDebtPrior, f.SharesPrior}
      More(n, d, n0, d0) == n * d0 > n0 * d
      tests == <<f.NetIncome > 0,
                 f.OperatingCashFlow > 0,
                 More(f.NetIncome, f.TotalAssets, f.NetIncomePrior, f.TotalAssetsPrior),
                 f.OperatingCashFlow > f.NetIncome,
                 More(f.LongTermDebtPrior, f.TotalAssetsPrior, f.LongTermDebt, f.TotalAssets),
                 More(f.AssetsCurrent, f.LiabilitiesCurrent, f.AssetsCurrentPrior, f.LiabilitiesCurrentPrior),
                 f.Shares <= f.SharesPrior,
                 More(f.GrossProfit, f.Revenue, f.GrossProfitPrior, f.RevenuePrior),
                 More(f.Revenue, f.TotalAssets, f.RevenuePrior, f.TotalAssetsPrior)>>
  IN  If((\A x \in positive : x > 0) /\ (\A x \in present : x # 0), Len(SelectSeq(tests, LAMBDA t : t)), 1)

\* Without a live price, to the last close; the dividends of a payer are added.
tsr(closes, p, f) ==
  LET start == closes[IF Len(closes) > TradingDays THEN Len(closes) - TradingDays + 1 ELSE 1]
      end == IF p > 0 THEN p ELSE closes[Len(closes)]
      shares == IF f.Shares > 0 /\ f.DividendsPaid > 0 THEN f.Shares ELSE 1
      paid == IF f.Shares > 0 /\ f.DividendsPaid > 0 THEN f.DividendsPaid ELSE 0
  IN  IF Len(closes) < MinCloses THEN None
      ELSE If(start > 0 /\ end > 0, (end - start) * shares + paid, start * shares)

-----------------------------------------------------------------------------
(* The registries: the value of an id. *)

fundamentalRegistry(p, f) ==
  [peTTM |-> peTTM(p, f), pb |-> pb(p, f), roe |-> roe(f), npm |-> npm(f), gpm |-> gpm(f),
   revenueGrowthYoY |-> revenueGrowthYoY(f), earningsGrowthYoY |-> earningsGrowthYoY(f),
   fcf |-> fcf(f), dividendYield |-> dividendYield(p, f), debtToAsset |-> debtToAsset(f)]
registryPerShare(p, f) ==
  [marketCap |-> marketCap(p, f), epsDiluted |-> epsDiluted(f), bvps |-> bvps(f), sps |-> sps(f),
   ps |-> ps(p, f), debtToEquity |-> debtToEquity(f), equityMultiplier |-> equityMultiplier(f),
   roa |-> roa(f), gpToAssets |-> gpToAssets(f), assetTurnover |-> assetTurnover(f), ocfToNI |-> ocfToNI(f),
   ocfCFO |-> ocfCFO(f), fcfConversion |-> fcfConversion(f)]
registryCash(p, f) ==
  [capex |-> capex(f), capexToSales |-> capexToSales(f), fcfYield |-> fcfYield(p, f), pcf |-> pcf(p, f),
   cfps |-> cfps(f), fcfps |-> fcfps(f), payoutRatio |-> payoutRatio(f), retentionRatio |-> retentionRatio(f),
   dps |-> dps(f), sgr |-> sgr(f), accruals |-> accruals(f), tobinsQ |-> tobinsQ(p, f), peLYR |-> peLYR(p, f)]
fundamentalRegistryMore(p, f) == registryPerShare(p, f) @@ registryCash(p, f)
registryIncome(f) ==
  [opm |-> opm(f), ebitMargin |-> ebitMargin(f), preTaxMargin |-> preTaxMargin(f),
   ebitdaMargin |-> ebitdaMargin(f), icrTIE |-> icrTIE(f), roce |-> roce(f), roic |-> roic(f),
   opGrowth |-> opGrowth(f), currentRatio |-> currentRatio(f), quickRatio |-> quickRatio(f),
   cashRatio |-> cashRatio(f)]
registryTurnover(f) ==
  [inventoryTurnover |-> inventoryTurnover(f), dio |-> dio(f), receivablesTurnover |-> receivablesTurnover(f),
   dso |-> dso(f), payablesTurnover |-> payablesTurnover(f), dpo |-> dpoDays(f), ccc |-> ccc(f),
   fixedAssetTurnover |-> fixedAssetTurnover(f), currentAssetTurnover |-> currentAssetTurnover(f),
   wcTurnover |-> wcTurnover(f), ocfRatio |-> ocfRatio(f), epsGrowth |-> epsGrowth(f),
   equityGrowth |-> equityGrowth(f)]
registryDebt(p, f) ==
  [assetGrowth |-> assetGrowth(f), gpGrowth |-> gpGrowth(f), epsBasic |-> epsBasic(f),
   ltDebtRatio |-> ltDebtRatio(f), netGearing |-> netGearing(f), cashToSTDebt |-> cashToSTDebt(f),
   dtnw |-> dtnw(f), goodwillToEquity |-> goodwillToEquity(f), tangiblePB |-> tangiblePB(p, f),
   ev |-> ev(p, f), evToSales |-> evToSales(p, f), evToFCF |-> evToFCF(p, f),
   evToEBITDA |-> evToEBITDA(p, f), rdIntensity |-> rdIntensity(f), buybackYield |-> buybackYield(p, f)]
fundamentalRegistryInc2(p, f) == registryIncome(f) @@ registryTurnover(f) @@ registryDebt(p, f)
fundamentalRegistryInc3(closes, p, f) ==
  [altmanZ |-> altmanZ(p, f), piotroskiF |-> piotroskiF(f), tsr |-> tsr(closes, p, f)]
Values(closes, p, f) ==
  fundamentalRegistry(p, f) @@ fundamentalRegistryMore(p, f) @@ fundamentalRegistryInc2(p, f)
    @@ fundamentalRegistryInc3(closes, p, f)

-----------------------------------------------------------------------------
(* The Computer. *)

\* Shares, revenue, net income or EPS: the fundamentals have data.
HasData(f) == f.Shares > 0 \/ f.Revenue # 0 \/ f.NetIncome # 0 \/ f.EPSDiluted # 0

\* A source that fails leaves its fields empty; the date is the candles', or the filings'.
\* The benchmark has a bar on every day of the chart: a pair of returns for each but the first.
gather(skipFund) ==
  LET closes == IF "ohlcv" \in down THEN <<>> ELSE chart
      price == IF "price" \in down THEN 0 ELSE Live
      f == Reported(company, omitted)
      hasFund == "fund" \notin down /\ ~skipFund /\ HasData(f)
  IN  [closes |-> closes, hasFund |-> hasFund, price |-> price, values |-> Values(closes, price, f),
       pairs |-> IF closes = <<>> \/ IsBenchmark \/ "benchmark" \in down THEN 0 ELSE Len(closes) - 1,
       asOf |-> IF closes # <<>> THEN "candle" ELSE IF hasFund THEN "filing" ELSE ""]

MarketIds == {"vix", "fearGreed"}
Registered(in) == DOMAIN Technical \cup DOMAIN in.values \cup {"beta"}
computedIDs(in) ==
  SelectSeq(Catalog, LAMBDA id : id \in Registered(in) \cup Crypto \cup MarketIds)

\* Of the market's two readings only whether there is one matters here.
Market(reading) == If(reading \notin down, 50, 1)

\* What a technical indicator or the beta comes to is for Technicals and TrackRecord to say:
\* here it stands for itself once it has the candles it asks for.
evaluate(id, in) ==
  LET Shown(v) == [id |-> id, status |-> IF v = None THEN "insufficient" ELSE "ok", value |-> v]
  IN  CASE id \in DOMAIN Technical -> Shown(If(Len(in.closes) >= Technical[id], 1, 1))
        [] id = "beta" -> Shown(If(in.pairs >= betaMinPairs, 1, 1))
        [] id \in DOMAIN in.values -> Shown(IF in.hasFund THEN in.values[id] ELSE None)
        [] id \in MarketIds -> Shown(Market(id))
        [] OTHER -> [id |-> id, status |-> "unsupported", value |-> None]

\* Stable, by status.
sortByStatus(page) ==
  LET Of(status) == SelectSeq(page, LAMBDA x : x.status = status)
  IN  Of("ok") \o Of("insufficient") \o Of("unsupported")

stockIndicators(skipFund) ==
  LET in == gather(skipFund)
      ids == computedIDs(in)
      page == [i \in DOMAIN ids |-> evaluate(ids[i], in)]
  IN  [asOf |-> in.asOf, indicators |-> sortByStatus(page),
       vix |-> Market("vix"), fearGreed |-> Market("fearGreed"),
       price |-> IF in.closes # <<>> THEN in.closes[Len(in.closes)]
                 ELSE IF in.price > 0 THEN in.price ELSE None]

Init ==
  /\ company \in Companies
  /\ omitted = {} /\ down = {}
  /\ chart \in Charts

\* The filings of this company leave one more figure out; one more source fails, of a
\* company whose filings leave out fewer than the bound.
Omit(x) ==
  /\ x \notin omitted /\ Cardinality(omitted) < MaxOmitted /\ down = {}
  /\ omitted' = omitted \cup {x}
  /\ UNCHANGED <<company, down, chart>>
Fail(s) ==
  /\ s \notin down /\ Cardinality(omitted) < MaxOmitted
  /\ down' = down \cup {s}
  /\ UNCHANGED <<company, omitted, chart>>

Next == (\E x \in DOMAIN company : Omit(x)) \/ (\E s \in Sources : Fail(s))

Spec == Init /\ [][Next]_ratioVars
-----------------------------------------------------------------------------
(* What the page promises. *)

RatioTypeOK ==
  /\ company \in Companies /\ omitted \subseteq DOMAIN company /\ Cardinality(omitted) <= MaxOmitted
  /\ down \subseteq Sources /\ chart \in Charts

Divisor[m \in Nat, n \in Nat] == IF n = 0 THEN m ELSE Divisor[n, m % n]
Reduced(v) ==
  LET g == Divisor[Magnitude(v[1]), Magnitude(v[2])] * (IF v[2] < 0 THEN -1 ELSE 1)
  IN  <<v[1] \div g, v[2] \div g>>
Equal(v, w) == (v = None /\ w = None) \/ (v # None /\ w # None /\ Reduced(v) = Reduced(w))

\* The ratios that do not ask for a figure they use: without it they count a zero.
Enterprise == {"ev", "evToSales", "evToFCF", "evToEBITDA", "roic", "netGearing"}
Operating == {"ebitMargin", "icrTIE", "roce", "roic", "altmanZ"}
TakenAsZero ==
  [NetIncome |-> {"roe", "npm", "roa", "earningsGrowthYoY", "accruals", "piotroskiF"},
   OperatingCashFlow |-> {"piotroskiF"}, AssetsCurrent |-> {"piotroskiF"},
   GrossProfit |-> {"gpGrowth", "piotroskiF"}, LongTermDebt |-> Enterprise \cup {"piotroskiF"},
   DebtCurrent |-> Enterprise, CashAndEquivalents |-> Enterprise,
   Shares |-> {"tsr", "piotroskiF"}, DividendsPaid |-> {"tsr"},
   CapEx |-> {"fcf", "fcfConversion", "fcfYield", "fcfps", "evToFCF"},
   RetainedEarnings |-> {"altmanZ"}, Goodwill |-> {"dtnw", "tangiblePB"},
   IntangiblesExGoodwill |-> {"dtnw", "tangiblePB"},
   TotalLiabilities |-> {"debtToAsset", "debtToEquity", "tobinsQ", "dtnw"},
   Revenue |-> {"revenueGrowthYoY"}, EPSDiluted |-> {"epsGrowth"}, TotalAssets |-> {"assetGrowth"},
   Equity |-> {"equityGrowth", "ltDebtRatio"}, OperatingIncomeLoss |-> {"opGrowth"},
   IncomeTaxExpense |-> {"roic"}]
\* Those that do so once the figure they prefer is missing too.
InPlaceOf ==
  [OperatingIncomeLoss |-> [of |-> {"NetIncome", "InterestExpense", "IncomeTaxExpense"}, ids |-> Operating],
   PreTaxIncome |-> [of |-> {"NetIncome"}, ids |-> {"preTaxMargin", "roic"}]]
Excused ==
  UNION {TakenAsZero[x] : x \in omitted \cap DOMAIN TakenAsZero}
    \cup UNION {InPlaceOf[x].ids : x \in {y \in omitted \cap DOMAIN InPlaceOf : InPlaceOf[y].of \cap omitted # {}}}

\* A figure the filings leave out makes the ratios built on it insufficient, and no ratio
\* wrong: what is still shown is what the complete filings give. The ratios of TakenAsZero
\* are the exceptions, and only for the figures named there.
NoneIsFabricated(here) ==
  LET complete == Values(chart, Live, company)
  IN  \A id \in DOMAIN here \ Excused : here[id] # None => Equal(here[id], complete[id])

\* The quotients that only make sense of a gain, a price or a turnover are never shown
\* negative, and the score of nine tests is one.
ShownInRange(here) ==
  /\ \A id \in {"peTTM", "pb", "ps", "pcf", "peLYR", "tangiblePB", "marketCap", "assetTurnover",
                "inventoryTurnover", "dio", "dso", "dpo", "currentRatio", "payoutRatio", "dividendYield",
                "debtToEquity", "equityMultiplier", "rdIntensity", "buybackYield", "wcTurnover"} :
       here[id] # None => here[id][1] >= 0 /\ here[id][2] > 0
  /\ here.piotroskiF # None => here.piotroskiF[1] \in 0..9

\* Ratios that are computed apart fit together: a page never shows two that contradict
\* each other.
Plus(v, w) == <<v[1] * w[2] + w[1] * v[2], v[2] * w[2]>>
Times(v, w) == <<v[1] * w[1], v[2] * w[2]>>
Coherent(here) ==
  LET AllShown(ids) == \A id \in ids : here[id] # None  IN
  /\ here.payoutRatio = None <=> here.retentionRatio = None
  /\ AllShown({"payoutRatio", "retentionRatio"}) => Equal(Plus(here.payoutRatio, here.retentionRatio), <<1, 1>>)
  /\ AllShown({"sgr"}) => Equal(here.sgr, Times(here.roe, here.retentionRatio))
  /\ AllShown({"roe", "npm", "assetTurnover", "equityMultiplier"}) =>
       Equal(here.roe, Times(here.npm, Times(here.assetTurnover, here.equityMultiplier)))
  /\ AllShown({"pb", "bvps"}) => Equal(Times(here.pb, here.bvps), <<Live, 1>>)
  /\ AllShown({"ps", "sps"}) => Equal(Times(here.ps, here.sps), <<Live, 1>>)
  /\ AllShown({"pcf", "cfps"}) => Equal(Times(here.pcf, here.cfps), <<Live, 1>>)
  /\ AllShown({"ccc"}) => AllShown({"dio", "dso", "dpo"}) /\ Equal(Plus(here.ccc, here.dpo), Plus(here.dio, here.dso))
  /\ AllShown({"currentRatio", "quickRatio"}) => here.quickRatio[1] <= here.currentRatio[1]
  /\ AllShown({"evToEBITDA", "evToSales", "ebitdaMargin"}) =>
       Equal(here.evToSales, Times(here.evToEBITDA, here.ebitdaMargin))

\* The page has every computed indicator once, the shown ones first; a source that fails
\* takes only the indicators that need it, and the fund's page has none of the filings'.
PageIsWhole(here) ==
  LET answer == stockIndicators(FALSE)
      page == answer.indicators
      etf == stockIndicators(TRUE).indicators
      rank == [ok |-> 1, insufficient |-> 2, unsupported |-> 3]
      needs(id) == CASE id \in DOMAIN Technical -> {"ohlcv"}
                     [] id = "beta" -> {"ohlcv", "benchmark"}
                     [] id \in MarketIds -> {id}
                     [] OTHER -> {"fund"}
      given(id) == CASE id \in DOMAIN Technical -> Len(chart) >= Technical[id]
                     [] id = "beta" -> Len(chart) > betaMinPairs
                     [] id \in MarketIds -> TRUE
                     [] OTHER -> here[id] # None
  IN  /\ {page[i].id : i \in DOMAIN page} =
           ToSet(Catalog) \cap (DOMAIN Technical \cup DOMAIN here \cup Crypto \cup MarketIds \cup {"beta"})
      /\ \A i, j \in DOMAIN page : i < j => page[i].id # page[j].id /\ rank[page[i].status] <= rank[page[j].status]
      /\ \A i \in DOMAIN page :
           LET id == page[i].id IN id \notin Crypto =>
             /\ needs(id) \cap down # {} => page[i].status = "insufficient"
             /\ needs(id) \cap down = {} /\ down \cap {"ohlcv", "price"} = {} => (page[i].status = "ok" <=> given(id))
      /\ \A i \in DOMAIN etf : etf[i].id \in DOMAIN here => etf[i].status = "insufficient"
      /\ answer.price = None => (chart = <<>> \/ "ohlcv" \in down) /\ "price" \in down

RatiosAreSound ==
  LET here == Values(chart, Live, Reported(company, omitted))
  IN  NoneIsFabricated(here) /\ ShownInRange(here) /\ Coherent(here) /\ PageIsWhole(here)
=============================================================================
