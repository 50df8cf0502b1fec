---------------------------- MODULE Disclosures -----------------------------
(***************************************************************************)
(* The trades of members of Congress (internal/ingest/congress.go and      *)
(* internal/congress): one goroutine sweeps the House Clerk's index, reads *)
(* the PDFs of reports it has not tried yet, a few in a sweep, and swaps a *)
(* snapshot that the pages of members and stocks are served from.  On a    *)
(* member's page, a simulation of following the trades (internal/          *)
(* congressbt) is computed once a day.                                     *)
(*                                                                         *)
(* A trade is the n-th of the report it is disclosed in; what it says is   *)
(* in the PDF.  A price is 0 if there is none.  Percentages are rounded    *)
(* down, in the simulation and in its curve alike.  The parsing of index   *)
(* and PDFs, amounts, states and asset names are left out.                 *)
(***************************************************************************)
EXTENDS Integers, Sequences, FiniteSets, SequencesExt

CONSTANTS
  Rows,      \* external: periodic reports of the Clerk's indexes
  PdfOf,     \* external: what the PDF of each document has, trades or Scan
  Scan,
  Paper,     \* the documents with a short id, which were filed on paper
  SlugOf,    \* Slugify: the slug of each name, or None
  Universe,  \* the tickers of the symbol directory
  Bars,      \* external: the closes of each ticker by trading day
  SPY, None,
  YearOf,    \* the year of each day
  Thin,      \* an index with fewer reports calls for the prior year's (50)
  MaxRows,   \* reports kept (150)
  Budget,    \* maxParsePerSweep (60)
  Week,      \* curveStep
  LastDay,   \* bound: days
  Gaps,      \* bound: the sets of tickers whose closes may be missing
  MaxOutages \* bound: outages and restarts

VARIABLES
  date,      \* of the UTC clock
  clerkUp,   \* FALSE: any call to the Clerk may fail
  directory, \* the symbol directory is loaded
  extractor, \* pdftotext is installed
  listing,   \* of the sweep under way: the reports, None between sweeps,
  unread,    \* those still to be looked at
  credit,    \* and how many more PDFs it may fetch
  tried,     \* c.seen
  parsed,    \* the documents of c.parsed
  dropped,   \* history: documents tried in vain, for a call that failed
  gated,     \* the cache has a ticker validator
  snapshot,
  request,   \* a simulation under way
  kept,      \* members whose entry in btCache is of today
  outages

outside == <<date, clerkUp, directory, extractor, outages>>
sweeping == <<listing, unread, credit>>
cache == <<tried, parsed, dropped, gated, snapshot>>
simulating == <<request, kept>>
disclosureVars == <<outside, sweeping, cache, simulating>>

-----------------------------------------------------------------------------
(* The index and the snapshot. *)

DisclosureAssumption ==
  /\ Rows \subseteq [doc : DOMAIN PdfOf, name : DOMAIN SlugOf, year : Nat, at : Nat, filed : Nat]
  /\ IsFiniteSet(Rows)
  /\ \A x, y \in Rows : x.year = y.year /\ x.at = y.at => x = y
  /\ \A L \in SUBSET Rows : L # None
  /\ \A d \in DOMAIN PdfOf : PdfOf[d] = Scan \/ PdfOf[d] \in Seq([ticker : DOMAIN Bars \cup {None},
       type : {"purchase", "sale", "exchange"}, day : Nat])
  /\ None \notin Universe
  /\ YearOf \in [1..LastDay -> Nat]
  /\ Budget \in Nat \ {0} /\ MaxRows \in Nat \ {0} /\ Thin \in Nat \ {0} /\ LastDay \in Nat \ {0}
  /\ MaxOutages \in Nat

\* The stable sort by filing date: newest first, this year's index before the prior one's, and
\* in an index its own order.
Newer(x, y) ==
  \/ x.filed > y.filed
  \/ x.filed = y.filed /\ (x.year > y.year \/ (x.year = y.year /\ x.at < y.at))
Newest(S) == {x \in S : Cardinality({y \in S : Newer(y, x)}) < MaxRows}
Readable == {d \in DOMAIN PdfOf : PdfOf[d] # Scan}
Published == {x \in Rows : x.filed <= date}
Index(year, failing) == {x \in Published : x.year = year /\ year \notin failing}

\* This year's index, and the prior one's if that is thin or failed.
Merged(failing) ==
  LET year == YearOf[date]
      current == Index(year, failing)
  IN  IF Cardinality(current) < Thin THEN current \cup Index(year - 1, failing) ELSE current

\* aggregate: a document counts once, for the owner the newest report of it names.
First(L) == {x \in L : ~\E y \in L : y.doc = x.doc /\ Newer(y, x)}

\* Mutant: a document that both years list counts twice.
aggregateOfAll(L) ==
  LET told == {x \in L : x.doc \in parsed /\ SlugOf[x.name] # None}
  IN  UNION {{[from |-> x, n |-> i] : i \in DOMAIN PdfOf[x.doc]} : x \in told}

aggregate(L) ==
  LET told == {x \in First(L) : x.doc \in parsed /\ SlugOf[x.name] # None}
  IN  UNION {{[from |-> x, n |-> i] : i \in DOMAIN PdfOf[x.doc]} : x \in told}
Said(t) == PdfOf[t.from.doc][t.n]

\* SetWithTransactions: what has no ticker, or one outside the validator's universe, is on the
\* member's page only.
Snapshot(L, trades, gate) ==
  [filings |-> L, trades |-> trades,
   indexed |-> {t \in trades : Said(t).ticker # None /\ (gate => Said(t).ticker \in Universe)}]
Empty == [filings |-> {}, trades |-> {}, indexed |-> {}]

ByMember(slug) == {t \in snapshot.trades : SlugOf[t.from.name] = slug}
ByTicker(ticker) == {t \in snapshot.indexed : Said(t).ticker = ticker}

-----------------------------------------------------------------------------
(* The simulation. *)

Purchase(t) == Said(t).type = "purchase"
Sale(t) == Said(t).type = "sale"

\* A member's transactions are newest first, those of a day as their reports are.
Before(t, u) ==
  \/ Said(t).day < Said(u).day
  \/ /\ Said(t).day = Said(u).day
     /\ Newer(t.from, u.from) \/ (t.from = u.from /\ t.n < u.n)
Replay(T) ==
  [i \in 1..Cardinality(T) |-> CHOOSE t \in T : Cardinality({u \in T : Before(u, t)}) = i - 1]

\* What the source has by now; nothing of a ticker whose fetch fails or times out.
Candles(ticker, gone) ==
  IF ticker \in gone THEN <<>> ELSE SelectSeq(Bars[ticker], LAMBDA c : c.day <= date)
closeOnOrAfter(candles, day) ==
  LET S == SelectSeq(candles, LAMBDA c : c.day >= day) IN IF S = <<>> THEN 0 ELSE Head(S).close

\* Mutant: a point of the past is marked to the newest close.
lastCloseOfAll(candles, asOf) == IF candles = <<>> THEN 0 ELSE Last(candles).close

lastClose(candles, asOf) ==
  LET S == SelectSeq(candles, LAMBDA c : c.day <= asOf) IN IF S = <<>> THEN 0 ELSE Last(S).close
Gain(entry, exit) == ((exit - entry) * 100) \div entry
Mean(gains) == IF gains = <<>> THEN 0 ELSE FoldLeft(LAMBDA m, g : m + g, 0, gains) \div Len(gains)

\* SPY bought on the days of the entries and held.
spyReturn(spy, entries, asOf) ==
  LET mark == lastClose(spy, asOf)
      priced == SelectSeq(entries, LAMBDA d : closeOnOrAfter(spy, d) > 0)
  IN  IF mark = 0 THEN 0
      ELSE Mean([i \in DOMAIN priced |-> Gain(closeOnOrAfter(spy, priced[i]), mark)])

\* samplePoint: the legs opened up to a day, sold or marked to its close.
samplePoint(ordered, closes, asOf) ==
  LET known == SelectSeq(ordered, LAMBDA t : Said(t).day <= asOf)
      price(t) == closeOnOrAfter(closes[Said(t).ticker], Said(t).day)
      step(legs, t) ==
        IF price(t) = 0 THEN legs
        ELSE IF Purchase(t) THEN Append(legs, [ticker |-> Said(t).ticker, entry |-> price(t), exit |-> 0,
                                               day |-> Said(t).day])
        ELSE IF Sale(t) THEN [i \in DOMAIN legs |->
               IF legs[i].ticker = Said(t).ticker /\ legs[i].exit = 0
               THEN [legs[i] EXCEPT !.exit = price(t)] ELSE legs[i]]
        ELSE legs
      legs == FoldLeft(step, <<>>, known)
      mark(leg) == IF leg.exit > 0 THEN leg.exit ELSE lastClose(closes[leg.ticker], asOf)
      marked == SelectSeq(legs, LAMBDA leg : mark(leg) > 0)
  IN  [day |-> asOf,
       member |-> Mean([i \in DOMAIN marked |-> Gain(marked[i].entry, mark(marked[i]))]),
       spy |-> spyReturn(closes[SPY], [i \in DOMAIN legs |-> legs[i].day], asOf)]

buildCurve(ordered, closes, start) ==
  LET weekly == {d \in start..date : (d - start) % Week = 0}
  IN  {samplePoint(ordered, closes, d) : d \in weekly \cup {date}}

\* congressbt.Run: every purchase opens a leg at its close, the first sale that has a price
\* closes the open legs of its ticker, and the rest is held.  A trade without a ticker and one
\* of the benchmark is passed over.
Run(T, gone) ==
  LET ordered == SelectSeq(Replay(T), LAMBDA t : Said(t).ticker \notin {None, SPY})
      closes == [k \in DOMAIN Bars |-> Candles(k, gone)]
      step(r, t) ==
        LET k == Said(t).ticker
            price == closeOnOrAfter(closes[k], Said(t).day)
        IN  IF Purchase(t) /\ price = 0 THEN [r EXCEPT !.skipped = @ + 1]
            ELSE IF Purchase(t) THEN
              [r EXCEPT !.legs[k] = Append(@, price), !.entries = Append(@, Said(t).day)]
            ELSE IF Sale(t) /\ r.legs[k] # <<>> /\ price > 0 THEN
              [r EXCEPT !.legs[k] = <<>>,
                        !.realized = @ \o [i \in DOMAIN r.legs[k] |-> Gain(r.legs[k][i], price)]]
            ELSE r
      end == FoldLeft(step, [legs |-> [k \in DOMAIN Bars |-> <<>>], entries |-> <<>>, realized |-> <<>>,
                             skipped |-> 0], ordered)
      held(k) == LET mark == lastClose(closes[k], date)
                 IN  IF mark = 0 THEN <<>> ELSE [i \in DOMAIN end.legs[k] |-> Gain(end.legs[k][i], mark)]
      open == FoldLeft(LAMBDA q, k : q \o held(k), <<>>, SetToSeq(DOMAIN Bars))
      start == Head(end.entries)
  IN  IF end.entries = <<>> THEN [insufficient |-> TRUE, used |-> 0, skipped |-> end.skipped]
      ELSE [insufficient |-> FALSE, used |-> Len(end.entries), skipped |-> end.skipped,
            member |-> Mean(end.realized \o open), spy |-> spyReturn(closes[SPY], end.entries, date),
            start |-> start, end |-> date, curve |-> buildCurve(ordered, closes, start)]

-----------------------------------------------------------------------------
(* The sweep. *)

Init ==
  /\ date = 1 /\ clerkUp \in BOOLEAN /\ directory = FALSE
  /\ extractor \in BOOLEAN /\ outages = 0
  /\ listing = None /\ unread = {} /\ credit = 0
  /\ tried = {} /\ parsed = {} /\ dropped = {} /\ gated = FALSE /\ snapshot = Empty
  /\ request = None /\ kept = {}

\* refresh: nothing changes if both indexes have nothing.
Refresh ==
  /\ listing = None
  /\ \E failing \in SUBSET {YearOf[date], YearOf[date] - 1} :
       LET all == Merged(failing)
       IN  /\ clerkUp => failing = {}
           /\ all # {}
           /\ IF extractor
              THEN /\ listing' = Newest(all) /\ unread' = Newest(all) /\ credit' = Budget
                   /\ UNCHANGED snapshot
              ELSE /\ snapshot' = Snapshot(Newest(all), snapshot.trades, gated \/ directory)
                   /\ UNCHANGED sweeping
  /\ gated' = (gated \/ directory)
  /\ UNCHANGED <<outside, tried, parsed, dropped, simulating>>

\* parseNew, the newest report left: one that was tried is passed over, a paper one is too but
\* for good, and another is tried once, whether its PDF comes or not.
Parse(x) ==
  /\ listing # None /\ credit > 0
  /\ x \in unread /\ \A y \in unread : ~Newer(y, x)
  /\ unread' = unread \ {x} /\ tried' = tried \cup {x.doc}
  /\ \/ /\ x.doc \in tried \/ x.doc \in Paper
        /\ UNCHANGED <<credit, parsed, dropped>>
     \/ /\ x.doc \notin tried /\ x.doc \notin Paper /\ credit' = credit - 1
        /\ \/ parsed' = parsed \cup ({x.doc} \cap Readable) /\ UNCHANGED dropped
           \/ ~clerkUp /\ dropped' = dropped \cup {x.doc} /\ UNCHANGED parsed
  /\ UNCHANGED <<outside, listing, gated, snapshot, simulating>>

\* The rest of refresh: the snapshot is swapped.
Swap ==
  /\ listing # None /\ (unread = {} \/ credit = 0)
  /\ snapshot' = Snapshot(listing, aggregate(listing), gated)
  /\ listing' = None /\ unread' = {} /\ credit' = 0
  /\ UNCHANGED <<outside, tried, parsed, dropped, gated, simulating>>

Sweep == Refresh \/ (\E x \in unread : Parse(x)) \/ Swap

-----------------------------------------------------------------------------
(* getCongressBacktest. *)

Members == {SlugOf[t.from.name] : t \in snapshot.trades}

\* A member who was not simulated today: the trades are read now, the closes are fetched.
Ask(slug) ==
  /\ request = None /\ slug \in Members \ kept
  /\ request' = [slug |-> slug, trades |-> ByMember(slug), day |-> date]
  /\ UNCHANGED <<outside, sweeping, cache, kept>>

\* What Run makes of the request is kept for the day it was asked, whatever closes were missing
\* and whatever the day and the snapshot are by now.
Simulate ==
  /\ request # None /\ request' = None
  /\ kept' = IF request.day = date THEN kept \cup {request.slug} ELSE kept
  /\ UNCHANGED <<outside, sweeping, cache>>

-----------------------------------------------------------------------------
(* The environment. *)

Midnight ==
  /\ date < LastDay /\ date' = date + 1 /\ kept' = {}
  /\ UNCHANGED <<clerkUp, directory, extractor, outages, sweeping, cache, request>>

DirectoryLoads ==
  /\ ~directory /\ directory' = TRUE
  /\ UNCHANGED <<date, clerkUp, extractor, outages, sweeping, cache, simulating>>

Outage ==
  /\ clerkUp' = ~clerkUp /\ outages' = (IF clerkUp THEN outages + 1 ELSE outages)
  /\ outages' <= MaxOutages
  /\ UNCHANGED <<date, directory, extractor, sweeping, cache, simulating>>

\* Everything is in memory; a download that failed is tried again.
Restart ==
  /\ outages < MaxOutages /\ outages' = outages + 1
  /\ directory' = FALSE
  /\ listing' = None /\ unread' = {} /\ credit' = 0
  /\ tried' = {} /\ parsed' = {} /\ dropped' = {} /\ gated' = FALSE /\ snapshot' = Empty
  /\ request' = None /\ kept' = {}
  /\ UNCHANGED <<date, clerkUp, extractor>>

Next ==
  \/ Sweep
  \/ \E slug \in Members : Ask(slug)
  \/ Simulate
  \/ Midnight \/ DirectoryLoads \/ Outage \/ Restart

\* The ticker fires, and every call has a deadline.
Fairness == WF_disclosureVars(Sweep)

Spec == Init /\ [][Next]_disclosureVars /\ Fairness

-----------------------------------------------------------------------------
(* Properties. *)

Trades == [from : Rows, n : Nat]

TypeOK ==
  /\ date \in 1..LastDay /\ clerkUp \in BOOLEAN
  /\ directory \in BOOLEAN /\ extractor \in BOOLEAN /\ outages \in 0..MaxOutages
  /\ listing = None \/ listing \subseteq Published
  /\ unread \subseteq Published /\ credit \in 0..Budget
  /\ parsed \subseteq tried \cap Readable /\ dropped \subseteq tried /\ gated \in BOOLEAN
  /\ snapshot.filings \subseteq Published
  /\ snapshot.indexed \subseteq snapshot.trades /\ snapshot.trades \subseteq Trades

\* What each report in the snapshot discloses is shown, all of it, for one member only and on
\* the page of each real ticker, and once the directory is loaded of no other: but for paper,
\* reports not yet tried, and those whose PDF failed to come, which are not tried again.
Told(x) == {t \in snapshot.trades : t.from.doc = x.doc}
TradesAreShown ==
  /\ \A t \in snapshot.trades : t.from \in snapshot.filings
  /\ \A t, u \in snapshot.trades : t.from.doc = u.from.doc => t.from = u.from
  /\ \A x \in snapshot.filings :
       \/ Told(x) # {} /\ \A i \in DOMAIN PdfOf[x.doc] : \E t \in Told(x) : t.n = i
       \/ PdfOf[x.doc] \in {Scan, <<>>} \/ x.doc \in Paper \/ x.doc \in dropped
       \/ \E y \in snapshot.filings : y.doc = x.doc /\ SlugOf[y.name] = None
       \/ x.doc \notin tried \/ listing # None \/ ~extractor
  /\ \A k \in Universe : ByTicker(k) = {t \in snapshot.trades : Said(t).ticker = k}
  /\ gated /\ listing = None => \A t \in snapshot.indexed : Said(t).ticker \in Universe

\* Once the Clerk answers again, the newest reports are listed and, but for those whose PDF
\* failed to come before, read in the end, a few in a sweep.
Settled(x) == x.doc \in parsed \/ x.doc \in dropped \/ PdfOf[x.doc] = Scan \/ x.doc \in Paper
ReportsAreRead ==
  <>[]clerkUp =>
    <>[](extractor /\ listing = None /\ Merged({}) # {} =>
           snapshot.filings = Newest(Merged({})) /\ \A x \in snapshot.filings : Settled(x))

\* A simulation ends where its curve does and counts every purchase of a ticker once, used or
\* without a price.  A point of its curve rests on nothing after its day, neither trades nor
\* closes, if all trades up to that day had a close by then, and is zero at the start if that
\* was a trading day.  It does rest on what nobody knew: a trade enters on its own day, not
\* on the later one its report is filed.
TradedOn(k, days) == \E i \in DOMAIN Bars[k] : Bars[k][i].day \in days
UpTo(day, gone) == [k \in DOMAIN Bars |-> SelectSeq(Candles(k, gone), LAMBDA c : c.day <= day)]
AddsUp(T, gone) ==
  LET r == Run(T, gone)
      listed == {t \in T : Said(t).ticker \notin {None, SPY}}
      MadeBy(day) == {t \in listed : Said(t).day <= day}
      PricedBy(t, day) ==
        \A k \in {Said(t).ticker, SPY} \ gone : TradedOn(k, Said(t).day..day)
  IN  /\ r.used + r.skipped = Cardinality({t \in listed : Purchase(t)})
      /\ ~r.insufficient =>
           /\ [day |-> r.end, member |-> r.member, spy |-> r.spy] \in r.curve
           /\ \A p \in r.curve :
                /\ (\A t \in MadeBy(p.day) : PricedBy(t, p.day)) =>
                     p = samplePoint(Replay(MadeBy(p.day)), UpTo(p.day, gone), p.day)
                /\ p.day = r.start /\ (\A k \in DOMAIN Bars \ gone : TradedOn(k, {r.start})) =>
                     p.member = 0 /\ p.spy = 0
SimulationAddsUp == request # None => \A gone \in Gaps : AddsUp(request.trades, gone)
=============================================================================
