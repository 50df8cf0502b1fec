# Tickwind: TLA+ models and proofs

This directory models the parts of the Tickwind server (`src/internal`) in which
concurrency, failures and time decide whether the program is right: who is Pro, what an
LLM report costs, what is streamed and cached, what the daily jobs keep, and who is
throttled; and the data that all of it rests on: what the two stores keep, and what is
computed from filings and bars. TLC checks every module on small instances; TLAPS proves the most important
theorems for every value of the constants. `PROJECT.json` lists the components, the runs,
the lines each definition models, the hazards and the theorems.

Run a model with `tlc -config <X>.cfg <module>`, check a proof with `tlapm <X>Proofs.tla`.

## The system

Tickwind is one Go process (`src/cmd/server/main.go`) in front of Postgres, with a Next.js
client. A redeploy restarts it and loses everything in memory.

| component | state | operations | what is hard | what makes it correct |
|---|---|---|---|---|
| Pro entitlement: `api/billing.go`, `api/reconcile.go`, `billing/` | `subscriptions` rows by user, ledger of processed events | checkout, webhook (4 event types), reconciler (forward and reverse pass), `tierOf` | events duplicated, reordered, lost; two store calls per request; whole-row writes by three writers; stale listings | nobody Pro without paying; a recorded event was processed; a paying user ends up Pro |
| Report cache: `api/api.go` 3061-3560 | `researchCache`, `researchInflight`, day counter, stored reports, quota per user and month | sync report, deep report, background compose, day roll | single-flight by hand, slots reserved and refunded, quota checked early and charged late, midnight, panics, restarts | one generation per key, the gate opens unless a sync report panics, no failure is paid for, caps hold |
| Digest, movement, My digest, 8-K and Form 4 caches: `api/api.go` | five more caches with a gate, three with a cap | as above, in the background or in the request | five variants of the same protocol | as above |
| Live stream: `alpacaws/` | base list, LRU of viewed tickers, nudge, symbols on the wire, quotes | `Subscribe`, `RefreshBase`, writer, reconnect, reseed, `publishTrades` | edits during a sync, one-slot nudge channel, connection loss, two publishers | the wire follows the set, cap of the feed, a baseline for each quote |
| SSE hub: `stream/` | set of subscriber channels | subscribe, publish, unsubscribe | drops for slow subscribers | no send on a closed channel; the latest price arrives |
| Fetched caches: `ingest/bars.go`, `options.go`, `fundamentals.go`, `etfholdingscache.go` | entries, calls in flight | read, fetch, wait, warm | the leader fails or leaves | everybody returns, failures heal |
| Report content: `research/assemble.go`, `flows.go`, `sentiment.go`, `compose.go`, `api/api.go` | the fact sheet of one report, the prose in it | assemble, compose, respond, keep, show | rankings that are still cold, a response written while the composer fills its copy, advice across lines | facts as assembled, no advice, a teaser that is a copy, nothing incomplete kept |
| Congress: `ingest/congress.go`, `congress/`, `congressbt/`, `api/congress_backtest.go` | documents tried and parsed, the snapshot, a simulation per member and day | sweep, PDF pass, swap, simulate | a budget a sweep, reports listed in two years, failed downloads, gaps in the closes | each trade shown once, for its member; a simulation that adds up |
| Boards: `ingest/*scan.go`, `guru.go`, `universe.go`, ... | a snapshot each | a scan on a cadence | outages, partial answers | not blanked, not older, catches up |
| Insider purchases: `ingest/opportunity.go` | `seen_form4`, `insider_buys`, board | daily sweep, recompute | marks before saves, outages | no purchase forgotten |
| Fear & Greed: `ingest/sentiment.go`, `shortvolume.go`, `finrashvol/`, `sentiment/` | short-volume history, readings, `fear_greed` | sweep, hourly reading, seed | cold caches, missing files, restarts | one point a day, restored by a restart |
| News: `ingest/ingest.go`, `translate.go`, `prune.go` | news rows, hot list | collect, translate, prune | three writers of a row, restarts | hot news kept, headlines translated |
| Alerts, briefing: `ingest/alerts.go`, `briefing.go`, `telegram_broadcast.go` | alert rows; the day's text and the day posted | evaluate, re-arm, generate, post | users against the evaluator, lost answers, restarts | once, and in the end |
| Chat: `chat/`, `api/chat.go` | conversations, messages, token meters | a turn with its tool loop, deletion | quota against parallel turns, an arbitrary LLM | overshoot bounded, no card twice |
| Comments: `store/postgres` | comment, mentions, likes | create, edit, delete, like | transactions at READ COMMITTED | body, mentions and likes agree |
| Rate limiter: `ratelimit/` | a token bucket per IP in 16 shards | `allow`, `sweep` | clock read outside the lock, eviction of state | bounded admission over every window |
| Outbound pacing: `alpaca/ratelimit.go` | one token bucket | `Wait` | many waiters wake at once | the upstream limit holds, every waiter gets through |
| Signing keys: `auth/auth.go` | cached key set | verify, refresh | concurrent refreshes, rotation | nobody locked out |
| Store: `store/`, `store/memory`, `store/postgres` | some thirty tables, in memory or in two databases | every method of the interface, `Split`'s routing, prunes | the same promise written twice | both answer alike; nobody changes another's row |
| Company figures: `edgar/fundamentals.go` | none | periods, trailing twelve months, history | tags that change, amendments, fiscal years, gaps | each figure is of the period it is shown for |
| Ratios: `indicators/fundamental*.go`, `compute.go` | none | eighty ratios and scores, the page | absent figures are 0, sources fail | a ratio of the complete filings, or none |
| Technical indicators: `indicators/technical*.go`, `history.go`, `backtest.go` | none | values, series, signals, replays | the same number computed twice, short and flat charts | scales kept, they agree |
| Statistics and boards: `indicators/seasonality.go`, `relativestrength.go`, `earningsreaction.go`, `scorecard.go`, `dividend.go`, `screen.go` | none | studies of one stock, rankings of many | gaps in bars, metrics that are missing, the order of a map | the past stays what it was; ranks do not depend on the order |
| Parsers, clients, enrichment, other calculators, configuration, web | - | - | formats, presentation | unit tests |

Interaction: handlers call the store and the in-memory caches directly; the caches are
guarded by one mutex each and spawn goroutines; `Subscribe` of the stream is called by
quote handlers, `RefreshBase` by a ticker of `main.go`; `tierOf` (entitlement) decides the
quotas of reports and chat; the limiter wraps all handlers; every scan and fetch waits for
the pacer; the hot list decides what the pruner keeps and is an input of Fear & Greed.

## Modules

| module | models | extends / uses |
|---|---|---|
| `Entitlement` | webhook, checkout, reconciler; Stripe as environment | |
| `SingleFlight` | abstract specification of a generation gate | |
| `Research` | both report paths, goroutine, quota, daily budget | refines `SingleFlight` |
| `FactSheet` | what a report says, from the providers to the page of a viewer | |
| `DailyGates` | the five other gated caches | refines `SingleFlight` |
| `Streamer` | symbol set, nudge, writer, sessions | |
| `PriceFeed` | session, poller, quote table, hub and browsers: one symbol from trade to screen | |
| `Pacer`, `RateLimit`, `KeyCache`, `OnDemand` | outbound pacing, throttling, signing keys, fetched caches | |
| `Boards`, `InsiderBuys`, `MarketMood`, `Corpus` | the background jobs and what they keep | |
| `Disclosures` | the trades of Congress: sweep, snapshot, pages and simulation | |
| `Alerts`, `Briefing` | evaluator and table; generator and broadcaster | |
| `Chat`, `ChatTools`, `Comments` | a user's turns and threads; the tool loop; one comment | |
| `Tables`, `MemoryStore`, `PostgresStore` | rows; the two backends, an operator for each method | `Tables` |
| `Stores` | requests and collected data given to both deployments | refers each answer of one to the other |
| `CompanyFacts` | from the facts of filings to figures | |
| `Ratios` | ratios, scores and the page | |
| `Candles`, `Technicals` | indicators as last value, series, signal and replay; the expanded set | `Candles` |
| `TrackRecord`, `Leaderboards` | statistics of a stock's past; scorecard, rankings and the screener | |
| `MCEntitlement`, `MCResearch`, `MCStreamer` | instances for TLC | the module |
| `MCFeeds`, `MCServing`, `MCJobs`, `MCData` | instances of several modules, one run each | the modules |
| `*Proofs` | theorems | the module, TLAPS |

`MCFeeds`, `MCServing`, `MCJobs` and `MCData` put modules that share no state into one run. A variable
`focus`, chosen in `Init`, says whose actions a behaviour is made of; the variables of the
others keep a value of their own initial state. The state space is the sum of the modules'
own, not the product, an invariant is checked in every focus, and a liveness property is
stated as `focus = "M" /\ M!Fairness => M!Property`.

**Entitlement.** `row` is the table, a row with no customer standing for an absent one;
`ledger` is the table of processed events; `worker` are webhook requests in flight; `rec`
is the reconciler. One action is the code between two calls that leave the process:
`Receive` (`StripeEventSeen`), `LookupUser`/`LookupCustomer`/`Unbound` (the row is read),
`Repull`/`RepullFails` (Stripe is asked), `Upsert`, `Mark`; for the reconciler `RecList`,
`RecDrifted`/`RecKept`, `RecWrite`, `RecListPro`, `RecRevoke`. `StoreFails` and `RecFails`
are the error returns; a death of the process between two steps of a request leaves the
same state as an error return. Statuses are reduced to `active` (with `trialing`),
`past_due` and `canceled` (with the ended ones); price, interval and cancel flag, which
decide nothing, are left out, and so are the funnel event, signatures and HTTP. Stripe
emits at most `MaxEvents` events, delivers each any number of times, in any order, or
never. A customer belongs to the user whose checkout created it.

**Research.** A process `p` is a request and the goroutine it spawns. The critical
sections of `researchMu`, the store calls and the LLM call are one step each: `SyncHit`,
`SyncTake`, `Assemble`, `SyncRefund`, `SyncPanics`, `Finish` for `getResearchSync`; `DeepHit`,
`DeepMiss`, `StoreHit`, `StoreMiss`, `NoGeneration`, `Exhausted`, `DeepTake` for
`getResearchDeep`; `ComposeProse`, `ComposeNothing`, `ComposePanics`, `Charge`,
`DeepRefund`, `Finish`, `Persist` for `composeDeepBackground`. A ticker stands for a
(ticker, language) pair. The cache stores the day of an entry, because that is what the
sweep looks at; the sweep is nondeterministic on the entries around UTC midnight. `made`,
`granted` and `lost` are history: reports with prose per day and per user and month, and
charges that failed or that a restart cut off. A request that waits for another's
generation just stays in `lookup`. `composeDeepBackground` recovers a panic and finishes; `getResearchSync`
does not, so a process that panics there (`SyncPanics`) keeps its key and its slot until `Restart`. `Midnight` and `Restart` are the environment. The two
quota reads are made under the lock and so are part of the step `DeepTake`; a read that
fails counts as quota left, a tier that cannot be read as free.

**FactSheet.** One report, where `Research` has the gate and the quotas around it. `answer` is what
each provider gives, `warm` the rankings whose first scan has landed. `Report` is two steps,
`AssembleCompany` and `AssembleMarket`, so that a scan may land between them; `Ask` and `Decide` are
the two places where a handler looks for cold rankings. The instant response of the deep path is
written section by section (`Marshal`) from `array[1]`, while the composer fills `array[2]` (`Fill`):
the slice header the code copies, and what its elements share, is what the two arrays are for. A fact
keeps its key, its date and whether it reads as a loss or as trailing; a line of prose keeps whether
it advises, alone or with the next line.

**DailyGates.** `kind` picks one of five handlers, which are variants of one protocol: look
the key up (`LookHit`, `LookMiss`), for the digest also in the table (`LoadStored`,
`LoadNothing`), decide under the lock (`Decide...`: hit, busy, full, generate), compose, and
finish (`FinishKept`, `FinishDropped`). Three spawn a goroutine whose panic is recovered
(`PanicRecovered`); two generate in the request, where a panic is swallowed by `net/http` and
wedges the key (`PanicSwallowed`, recorded in `wedged`). `Roll` is the day roll, which may
turn the counter back, `Refunded` the refund, which differs from handler to handler.

**Streamer.** `Subscribe` and `RefreshBase` change the set under `submu` and then owe a
`Nudge`, the non-blocking send on the channel of capacity one. The writer goes through
`Connect`, `Authenticated`, `Diff` (reads the set), `SendUnsubscribe`, `SendSubscribe` and
waits for `Wake`. `EndSession` is every way a session ends; a writer that ends may have
received a nudge it no longer serves. `subscribed` is the writer's map. `Run` returns for good if the
set is empty at the start (`alpacaws.go:202-205`); `BasesStart` says that a base names a symbol, as those
of `main.go:580-601`, which begin with SPY, DIA and QQQ, always do.

**PriceFeed.** Two publishers, the stream and the poller, each take a quote in `hand`, merge it
with the row (the stream), save it (`Save`) and offer it to each channel in turn. A quote is the
number of its trade and whether it has a previous close. `cooling` are the throttles that have
not run out, `seed` says that the previous close was fetched on this connection. Clients subscribe, drain,
and leave in two steps, as `once.Do` does: out of the set, then closed.

**OnDemand** and **Boards** have a `kind` too: the four variants of a fetched cache, and the
nine rules of swapping a board. `Boards` keeps of a source a version and whether there is
anything to show; `down` are the sources (and the table of watchlists, and SPY) that do not
answer. **InsiderBuys** has a step for every statement of `ingestDay`, and a crash between any
two. **MarketMood** composes the short-volume sweep and cache with the hourly reading that
uses it: `Set` is the cache's, with its comparison of dates, `Gather` and `Compute` are apart
because the put/call ratio is asked before the caches are read. **Corpus** follows a few news
items of one ticker through the scheduler, the translator and the pruner on Postgres. `stubborn` are
the headlines the LLM leaves blank whenever asked, any of them: a whole batch of them at the head of the
pending list keeps what is behind it out (`KeptOut`), which `HeadlinesTranslated` excuses.

**Disclosures.** `Refresh` reads the index, of one year or two, `Parse` fetches one PDF, `Swap` builds
the snapshot; `tried` and `parsed` are the ingestor's maps, and `dropped` is history: documents whose
PDF was tried in vain for a call that failed. Pages are served between any two of these. `Ask` takes a
member's trades from the snapshot, `Simulate` keeps the result for the day it was asked. `Run` is the
simulation itself, over every set of tickers in `Gaps` whose closes may be missing; percentages are
whole numbers, rounded alike in the result and in its curve.

**Alerts** has the evaluator's listing, look-ups and stamps as steps between which users
create, delete and re-arm; `backend` says which store, since the two differ in what a stamp of a
row that is no longer armed does. **Briefing** has the generator and the broadcaster with rate limits, failed sends
and answers that are lost; `lost` counts those. **Chat** has a turn between its store calls
and those of a second tab, on either store. **ChatTools** lets the LLM call any tools in any
order. **Comments** has the statements of the transactions of `UpdateComment` and
`LikeComment`; a row lock is held until the commit. **KeyCache** has the look-up, the fetch
outside the mutex and the second look-up.

**RateLimit** and **Pacer** count tokens in the ticks it takes to refill them, so the float of the
code becomes an integer and the refill is exact. `AllowNew`, `Allow`, `Reject` are the three
outcomes of `allow`, `Evict` one iteration of `sweep`; the clock value each uses may be up to
`MaxLag` ticks old. Shards share nothing, so one map of buckets stands for all of them. In
`Pacer` a caller asks, sleeps for what its token takes to refill, and asks again.

**Candles** computes in fixed-point arithmetic, so that both sides of a comparison round
alike, and compares what the page of a day showed with the series and the replay that are
computed from all bars later. MACD and KDJ are charted part by part: the MACD line and K
are there earlier than the signal, D and J, on bars where the page has too little history; `LineOf` and
`KOf` say which value that is. **Technicals** has an operator for every further indicator of the
catalog, on the same bars. A guard of the code that is left out shows as an index outside a
series, a division by zero or arithmetic on `None`, at which TLC stops. Of exp, log and sqrt only
their order is kept.

**Stores** gives every request to both deployments in one step, the handler's normalisation
included, and `BackendsAgree` (in the run, `StoresAgree`) compares what every query would answer then. A behaviour stays
within one family of tables, for which `MaxCalls` calls are made. Where the two differ, the query is left
out of the comparison or asked with what they agree on, and the difference is in the list below.
`OthersUntouched` compares what each user sees before and after another user's request.

**CompanyFacts** has one action: the next quarter is filed, as usual or oddly (a concept left
out, a quarter only by itself or only within the year to date, another tag, no share count). A flow of quarter `k` is a
multiple of `2^k`, so a sum tells which quarters it is of, and `FiguresAreTrue` can ask of every
figure that it is of one year, of four quarters in a row or of one quarter, and of the history
that each year is its own. Years have 365 days and end in the same month; companies whose years
end on the Saturday nearest to a date are left out (see below).

**Ratios** keeps a value as a fraction. `omitted` are the figures the filings leave out. `RatiosAreSound`
compares each ratio that is still shown with that of the complete filings; `TakenAsZero` and
`InPlaceOf` list the ratios that count an absent figure as zero, and every other one must be
insufficient or equal. It also relates ratios (a margin times a turnover, and the like) and asks that
the page has each id of the catalog once, whatever sources are `down`.

**TrackRecord** lets days pass on which the stock, or the benchmark, is traded, halted or has a bar
without a price, and on which results are filed; **Leaderboards** lets a scan put any stocks, in any
order, into the population.

## Runs

| run | instance | question and answer |
|---|---|---|
| `entitlement` | 2 users, 2 customers, 2 subscriptions, 2 requests, 4 events | Can stale whole-row writes, duplicates and the reconciler make a row inconsistent or someone Pro who never paid? No. |
| `entitlement_repair` | 1 user, 1 customer, 2 subscriptions, 1 request, 5 events, 1 fault | Does a store failure lose a checkout, and does the reconciler repair everything else in the end? It does not, and it does. |
| `entitlement_duplicate` | 2 requests, 4 events | Is a duplicate always harmless? No: a second delivery of a recorded event writes its older snapshot over a row that holds what a newer recorded event reported. |
| `entitlement_revoke` | 1 request | Is a revoked user never a paying one? No: the listing is older than the rows. |
| `research` | 2 processes, 1 ticker, 2 days, 1 restart, store failures | Is the gate exact and single-flight, does no failure burn the budget, but for the panic of a sync report, is a report charged once? Yes. |
| `research_quota` | 2 tickers, quota 1 | Is one report per month the limit? No: two generations of one user overlap. |
| `research_budget` | 2 tickers, 2 days, cap 1 | Does the daily cap hold? No: a request from before midnight resets the counter. |
| `streamer_cap` | bases that grow | Does the cap hold when the base grows? No: viewed tickers are not trimmed. |
| `feeds` | `Streamer`: 6 symbols (1 foreign), cap 4, bases of equal length, 3 edits, 1 drop; `PriceFeed`: 1 browser with a channel of 1, 2 trades, 1 fault; `Pacer`: 3 callers, a burst of two tokens or less than one; `OnDemand`: 3 readers; `KeyCache`: 2 requests, 2 keys | Is an edit, a last price or a waiter ever lost, a channel closed under a send, a failure or a retired key served for good? No. |
| `serving` | `RateLimit`: 1 client, 12 ticks, burst 2, lag 1; `Chat`: 2 tabs, 3 turns, 2 conversations, 2 days; `ChatTools`: a stock and a fund, 2 rounds, 3 calls; `Comments`: 2 sessions, 5 calls; `Corpus`: 3 items, 3 days, 1 fault; `Ratios`: 2 companies, any 2 figures left out, any sources down, 2 charts | Is throttling exact, an overshoot bounded, an answer sound whatever the LLM does, a comment consistent, hot news kept once the board is up, every headline translated that no whole blank batch stays ahead of, a ratio that of the filings? Yes. |
| `jobs` | `DailyGates`: 2 processes, 2 tickers, 2 days, 3 requests, 1 fault; `Alerts`: 2 alerts on one ticker, 2 armings; `Briefing`: 2 days, 2 attempts, 3 faults; `Boards`: 2 sources, 1 change; `InsiderBuys`: 2 filings, 3 days, 1 fault; `Disclosures`: 5 rows of 4 documents, 2 of them kept and 1 PDF a sweep, 2 members, 3 days over a new year, 1 outage or restart | Do the gates implement single flight and reopen, is the budget kept, an alert fired once and in the end, a briefing posted, a board never blanked or stale for good, a purchase never forgotten, a disclosure shown once and read in the end, a simulation fair? Yes, but for the exceptions the properties name. |
| `data` | `Stores`: 2 users, 2 tickers in 3 spellings, 3 calls in each of 14 families (2 of comments); `CompanyFacts`: 2 fiscal calendars, 9 to 12 quarters, 2 of them odd; `Technicals`: all charts of 6 bars of 3 shapes; `TrackRecord`: 4 to 7 days, 2 gaps; `Leaderboards`: every population of 3 stocks out of 4 profiles; `MarketMood`: 2 days, 1 fault; `FactSheet`: 3 filings, 5 holders, 3 sets of providers that may give less, 3 answers of the LLM | Do both backends answer alike, is a user's data out of others' reach, a figure of its period, an indicator on its scale and the same either way, the past not rewritten, a day one point, a report what was assembled? Yes. |

Where the code has a weakness, the property says what does hold and names the exception in a
conjunct of its own: `turnedBack` and `stray` in `BudgetKept`, `wedged` in `GatesReopen`,
`lost` and `restarts` in `OnceADay`, `raced` and `late` in `ThreadsKept`, `lostBuys` and `dropped` in `BuysAreKept`,
`Blanking` in `NeverBlanked`, `cold` in `HotIsKeptOnceUp`, `wentBack` and `unsaved` in `MoodIsSound`,
`TakenAsZero` and `InPlaceOf` in `NoneIsFabricated`. A run's property may be a conjunction that its MC
module makes of the modules' own (`GatesAreSound`, `BoardsCatchUp`, `BuysAreKept`, `FeedIsSound`,
`CachesCatchUp`, `ChatIsSound`, `NewsIsSound`, `IndicatorsAreSound`, `MoodIsSound`). The list of disagreements
below has what each stands for.

Why the bounds are enough. Entitlement: four events are two checkouts with their
subscription events, or one with two later changes, which is what it takes to be overtaken;
two requests are what an overwrite takes. Five events let one of two active subscriptions
of a customer end, which is what the choice of its representative is for; the customer is
single there, and a user who moves to a second customer is in `entitlement`. Two users
matter only for `ProIsPaidFor` (`entitlement`), a fault and fairness only for
`entitlement_repair`. Research and DailyGates: every race is between two requests; one
ticker has them share a key, two are used where they share only the user, the day or the
cap; the caps are 1, so that the limits are reached. The report's week of freshness is one
day. Streamer: four symbols on the wire stand for thirty; three edits can evict a viewed
ticker, or replace the base between two views, during a sync. PriceFeed: with two trades one can overtake the
other, and a channel of one drops the second. RateLimit: twelve ticks cover a burst, its
refill, an eviction after five idle ticks and a second burst. OnDemand: three readers are a
leader and two followers, one of whom leads next. Alerts: two alerts share a look-up, the
second arming is what a stale listing may stamp. Comments: two transactions are what a lock
is for, and five calls let a delete and a like come between them. Candles: six bars exceed
every warm-up period used, and the shapes make prices rise, fall and stay flat, and
a halt has neither range nor volume.
FactSheet: the filings differ in what the P/E hangs on (a trailing EPS, a fiscal year's, a
quarter's date), the holders have a period that is unknown, one that is older and one that is beyond the four shown;
an answer advises in a line, across lines or in a side. Disclosures: one document is in both years' indexes, under
two spellings of a name or of two members, and one is on paper; two reports are kept, so that others age
out, and with one PDF a sweep a second sweep is needed. The one outage makes a download fail, or a restart
comes in its place; the closes skip days, on one of which a purchase is dated.
MarketMood: two days of history are trimmed by nothing less than a file installed twice.
Stores: three calls are two that meet on a row and one that asks or deletes. CompanyFacts: nine
quarters give two years and a running one, twelve complete the next year; one oddity may hide another. Ratios: two figures, because some ratios
fall back on a second one. TrackRecord: a month has two days, so that two gaps empty one.
Leaderboards: with a floor of two, three stocks are below it, at it and above it.

Symmetry is used over users, customers and requests (`entitlement`) and processes
(`research`), in runs that check no liveness. Deadlock checking is off where the day, the
edits, the clock or the calls come to an end.

## Fairness

`Entitlement`: a request that was received runs to its end (Go schedules it, calls carry
timeouts) and the reconciler's ticker keeps firing (`RunBillingReconciler`); nothing is
assumed of Stripe, which may never deliver. `EntitlementConverges` therefore rests on the
reconciler alone. `Streamer`: `Run` reconnects for ever, the handshake and all writes have
timeouts, and a call that changed the set goes on to its nudge. `DailyGates`, `OnDemand`,
`KeyCache`, `Pacer`: a goroutine that may go on does, since every call it makes has a
deadline. The jobs (`PriceFeed`'s poller, `Alerts`, `Briefing`, `Boards`, `InsiderBuys`,
`Disclosures`, `Corpus`'s translator, `MarketMood`): their tickers keep firing. Nothing is assumed of users, of clients,
of the LLM or of an upstream: that it answers again is always a premise (`<>[]`) of the
property. `Research`, `FactSheet`, `RateLimit`, `Chat` and `Comments` state no liveness.

## Proofs

All theorems hold for any number of users, processes, symbols and so on. The assumptions on
constants are the ASSUMEs of the modules, or a named assumption the theorem starts from
(`GatesAssumption`, `ChatAssumption`, `BoundsAssumption`, `FeedAssumption`, `ReadsAssumption`,
`CorpusAssumption`, `ScansAssumption`, `BuysAssumption`, `KeysAssumption`, `DisclosureAssumption`,
`SheetAssumption`), for a module whose parameters the MC module fixes; there `JobsConstants`,
`ServingConstants`, `FeedsConstants` and `SheetConstants` let TLC evaluate it for the values of the run. They say that sets are finite, bounds natural
numbers and periods positive.

* `EntitlementProofs`. `TierMatchesStatus` and `ProIsPaidFor` speak of stored rows but are
  broken by rows on their way to the table, so the invariant `IInv` asks the same of the
  pending row of every request, of the reconciler's pending write and of the rows it is
  about to revoke (`Sound`), and of every listing that it came from Stripe (`ListingInv`).
  `StripeInv` adds that customers are never shared and that an active subscription has
  been reported. `RecordedCheckoutIsBound` needs, besides, that a request about to record a
  checkout has bound it, and that no whole-row write anybody still holds would unbind it.
* `ResearchProofs`. `TypeCorrect` includes that the day counter stays within its cap.
  Every action is classified by its effect on the gate (`GateEffect`: none, one key taken,
  one given back, all lost), from which `GateCorrect` and the refinement
  `ResearchImplementsSingleFlight` follow. `ChargeCorrect`: only `ComposeProse`, `Charge` and
  `Restart` touch the account of a user, and each leaves it balanced. `BudgetCorrect` needs
  `SlotInv`: a generation that reaches its end without prose has given its slot back, so
  `Finish` drops no reservation, and one that starts has no prose yet; one that panicked in the handler is
among the `Holding`, whose slots count until a restart; the rest is what one
  process does to the number of reservations of a day (`MoveReserves`). The proofs about
  cardinalities assume finitely many processes. `ReportIsSound` is `SheetIsSound` for the content of a
  report (`SheetTypes` its types). A page is a copy of an array or of part of one, so `SheetInv` speaks of the
  arrays: no section of either advises, and none that is absent or bare has facts or prose (`ArrayInv`; a
  line that `ScrubAdvice` leaves is none that advises, and two lines that do are dropped
  with the rest); their facts are the providers' (`SourceInv`) and the
  composer changes prose only, in an array the response is not made of (`PathInv`, `ArrayInv`); what
  was sent is in the first array (`SentInv`), what is kept is in the composer's (`KeptInv`). `ColdInv` carries
  a look at the rankings made before the sheet was assembled up to the moment the report is kept.
  `Least`, by which the oldest of the holders' periods exists, replaces an induction.
* `DailyGatesProofs`. The same refinement for the five other caches, whose gate a panic may leave
  shut. `GatesBudget` has two halves. What is spent and held on a day is at most the allowance
  plus the strays (`Ledger`): a slot is held only by a generation under way (`SlotInv`), and the
  day roll, which may turn back, is excused. A key is made at most once unless a day turned back, a
  restart or a fault excuses it: what was made is in the cache or of a past day
  (`MadeInv`), without faults it is stored as well (`CleanInv`), a request that found neither
  knows of no generation that ended since (`SeenInv`), so one that generates is the first
  (`FreshInv`).
* `FeedsProofs`. `NoEditLost`: `QuietIsInSync` becomes inductive with `SyncIsFresh`: what a sync
  has read is still right unless somebody nudges or owes a nudge. The cap: the recency list never
  names a symbol twice (`RemoveAtProperties`, `LruAddProperties`), so
  the desired set exceeds the cap by no more than the base has grown
  (`OvershootIsTheGrowth`), and not at all when the bases have one length (`CapIsKept`).
  `PacerNeverStorms` compares the bucket with a leaky one of the same size (`level`); the
  two are complementary, up to what has refilled since. `StreamedQuotesAreSound`: no send on a closed
  channel, because who holds the hub's lock is where it says (the locks' part of `FeedInv`), and every
  quote on the way to a browser has a baseline once there is a seed (the baselines' part).
  `ReadsFetchOnce`: one fetch per key and variant, since the leader alone
  holds what the followers wait for. `KeysTypes`: whatever fetches fail or are stored late, no key is
  held, fetched or named by a token but one that was published by then.
* `ServingProofs`. `WindowBound` counts admissions only; `IInv` adds what the bucket still
  holds (`TrackedInv`) and that a forgotten client has refilled (`ForgottenInv`), which is
  where `RefillsBeforeEviction` is used. That assumption is the claim of the comment of
  `sweep`; `New` does not enforce it, the defaults satisfy it (12 s to refill, 10 min to
  evict). `NoEarlyRejection` is the other direction: what a bucket lacks was admitted. `LimitExact` joins them:
  `LimitIsExact` is what the run checks.
  `CommentsConsistent` speaks of committed rows; the invariant adds that whoever
  is between two statements of an edit holds the lock, and what it has written so far.
  `HotNewsIsKept` needs that a board saved since the start is up while its ticker is listed (`HotInv`).
* `ChatProofs`. `ChatSound`: a turn is let in while the meter is below its limit, so what is used
  plus the most a turn may cost for every turn that is in and not charged stays within the
  limit plus that cost for every process and every failed read (`QuotaInv`; `BackstopInv` is
  the same for the count of the day). Then, a turn is in a conversation that is
  there or was deleted under it (`TurnInv`), one that was deleted stays empty otherwise (`EmptyInv`),
  and while no two first turns have raced, whoever creates a stock's thread does so alone (`ThreadInv`).
  `AnswersAreSound` holds whatever the LLM calls: every widget collected keeps the rules for
  access and funds, `Dedupe` drops a card only if the same one, or a chart beside
  another card, is kept, and the backstop's widget keeps the rules too.
* `JobsProofs`. `OneShot` becomes inductive with what the evaluator still holds: an armed
  row has an arming left, and a row on the evaluator's list that is no longer armed is not
  stamped. `OnceADay` needs that a send under way, or a day remembered as posted, accounts
  for the posts, and that the tries of a day bound its generations. `BoardsNeverBlanked`: what is
  shown, and what a scan has found, is what its source has or had, and a scan finds nothing older
  than what is shown (`VersionInv`). `PurchasesAreKept`: `NoneForgotten` is inductive with `BoardInv`,
  by which a batch is empty outside the ingest of its day and only a process that is up has a board.
  `DisclosuresAreShown` (`TradesAreShown`; its types are `CongressTypes`) asks what is shown of each document.
  `CongressInv`: every trade shown is of the newest row of its document among those listed (`ShownInv`), so it is shown for
  one member; between two sweeps the snapshot is all that was read of them (`AllInv`), and what was
  tried is parsed, dropped, on paper or a scan (`TriedInv`), which together leave no report unexplained; a trade is
  on the page of its ticker if that is real, and only then once the directory has loaded (`IndexInv`);
  without an extractor there are no trades (`PlainInv`). That a document has a newest row among any
  reports is `SomeNewest`: the number of reports newer than one is a natural number, and the
  order is total because a report has a place in an index.
* `StoresProofs`. `OthersKeepTheirOwn`: a view is made of the user's own rows, and a request changes
  rows of its user only, by the statement's key (`MergeOwn`), a new id (`MergeNew`) or its WHERE
  (`OwnRowsEdited`). For conversations that takes an invariant across the two deployments (`ChatInv`):
  the model looks an owner up once for both, so an id must have one owner on
  both, and a message must be its conversation's owner's, or deleting by user would miss it.
  Comments are rows of the market database (`CommentsInv`); a report counts on anyone's, unseen.
  `UsersBackendsAgree`: `BackendsAgree` for seven of the fourteen families (`TwinFamilies`). The
  rows of the memory store are those of Postgres (`KeptTwin`, `ClipsTwin`, ...), with one id a row and the
  columns the table has, so an upsert of the columns its key does not fix is a replacement
  (`MergeReplaces`). Comments differ, where Postgres keeps what was deleted and the mentions in a table of
  their own: the memory store has the live rows with their mentions (`CommentsTwin`). Each query
  is then shown to select the same rows. Used of the constants: nobody has the empty name
  or an empty customer id, and a ticker spelt by `Key` is spelt the same again and not blank
  (`UsersAssumption`, `CustomerAssumption`, `KeyAssumption`).

Only model-checked: the liveness properties, since the prover does not handle fairness or
ENABLED (`ReportsAreRead` among them); what is computed with folds and sorts, which are recursive (`MarketMood`, `SimulationAddsUp` and the
modules of `data`, but for `SheetIsSound`, for `OthersUntouched`, which does not look into an order, and for
`UsersBackendsAgree`, whose queries sort the same rows); `BackendsAgree` of the other seven families
(company facts, filings, news, social posts, texts, notes, conversations), where a batch is saved row
by row in a fold or the two stores sort differently; what `Ratios` states of eighty formulas, one by
one; the refutations. A `TypesOK` of the runs of several modules is a conjunction; its parts are
proved module by module, but for those of `Ratios`, `Technicals`, `TrackRecord`, `Leaderboards`,
`MarketMood`, `CompanyFacts` and `Stores`.

## Where the code and its documentation disagree

Shown by a run:

1. `billing.go:56-60`: duplicates are said to converge to the same row. Two deliveries of a
   subscription event both pass the precheck; the first and a newer `past_due` event find no
   bound user and are recorded, the checkout's re-pull stores `past_due`, and the second
   delivery, looked up only then, writes `active` over it (`entitlement_duplicate`). Nothing
   delivers the newer state again; the reconciler repairs it.
2. `reconcile.go:102-103`: an absent customer is said to have no subscription. A user who
   pays after the listing and is bound before the rows are read is revoked
   (`entitlement_revoke`) until the next run.
3. `config.go:129`: one deep report per free user and month. Overlapping generations of one
   user are each granted (`research_quota`).
4. `api.go:3061-3062`: the daily cap is called a hard backstop. `sweepResearchDay` rolls
   back to an older day as readily as forward (`research_budget`).
5. `alpacaws.go:6-7`: the subscription set is said to be capped. It is not when the base
   grows (`streamer_cap`), and the boot base is usually smaller than its 20 slots.

Met while modelling, and kept in a model as an exception of a property:

6. `store/prune.go:14-15`: hot tickers are said to keep a longer window. After a restart the
   board is empty (`schema.sql:92`) and the pruner's first pass comes at once.
7. `getMaterialEvents` refunds a slot to whatever day the counter is of, below zero if need be
   (`api.go:3999`, `4011`); it, `getInsiderActivity` and `getResearchSync` leave the
   key in the gate when they panic.
8. A briefing is never complete, since the indices are nil (`main.go:545`), and is generated
   up to six times a day; it is posted again after a restart or a lost answer.
9. Two first messages about a stock at once make two conversations on Postgres (`postgres.go:1147`).
10. A re-armed `new_filing` alert fires at once on the filing it has reported (`alerts.go:164`).
11. Form 4s are marked before their purchases are saved (`opportunity.go:132`).
12. A client that leaves makes a fetch fail for everybody, for as long as a failure is kept (`bars.go:144`).
13. The signal and scorecard scans and the guru rail do blank their boards in an outage
    (`signalscan.go:107`, `scorecardscan.go:94`, `guru.go:138`); congress falls back to the prior
    year (`congress.go:119`); a universe sweep drops the tickers of a failed batch (`alpaca.go:425`).
14. An older short-volume file after a newer one removes the newer points (`finrashvol/cache.go:72`),
    and the first reading after a start overwrites the day's score (`sentiment.go:169`).
15. A refresh of the symbol directory without Nasdaq's file drops the ETF flags (`symbols.go:86`).
16. Ratios are computed from figures that are absent, as zeros (`fundamental_more.go:7`): the list is
    `TakenAsZero` and `InPlaceOf`.
17. Dividend yields of the card, the board and the indicator include preferred dividends, that of the
    overview does not (`dividend.go:37`, `fundamentals.go:522`).
18. The snapshot takes a figure's tag as a whole, the history year by year: after a change of tag they
    differ (`fundamentals.go:759`).
19. The backends differ in the case of a ticker in six handlers' queries (`api.go:1625`), in a clip that is
    saved again (`postgres.go:763`), in a marked Form 4 that is marked again (`store.go:355`), in `null` for an
    empty list, and in columns of comments and signals that only one fills in.
20. The id a repeated holding is answered with is not that of its row (`api.go:1255`).
21. The deep path looks for cold rankings after the sheet is assembled (`api.go:3373`), the sync path
    before (`api.go:3242`): a ranking that warms up in between is missing from a deep report that is kept,
    so `KeptIsComplete` speaks of sync reports.
22. The P/E of a profitable company without a price reads as loss-making, since its reason names the
    EPS first (`compute.go:233`); `LossIsFiled` allows for that.
23. A disclosure whose PDF failed to download is not tried again (`congress.go:191`): `dropped`.
24. The simulation is said to be made again as prices arrive (`congress_backtest.go:13`); it is kept for the
    UTC day, whatever closes were missing (`congress_backtest.go:76`), so `Gaps` may be any.
25. Both curves are said to start at zero (`congressbt.go:267`); not if the first purchase is of a day
    without trading, which `AddsUp` asks for.
26. The simulation is said to enter at the close of the disclosure date, "the price a follower could
    actually have paid" (`congressbt.go:10-14`, `congress_backtest.go:27-28`, `dict.ts:689`). It enters
    at the close of `TxDate` (`congressbt.go:139`), which is the day of the transaction
    (`ptr.go:103`), up to weeks before the report is filed. `AddsUp` therefore says only that a point
    rests on no trade and no close after its day, not that anybody could have known the trades.
27. The chart has the MACD line and the KDJ's K on bars for which the page said there was too little
    history (`history.go:226-236`, `356-358`; `technical.go:130-160`, `268-271`).
    `HistoryIsWhatWasShown` states which value is charted there, and elsewhere that it is the page's.

Outside the models: years of 52 or 53 weeks that end near the end of December
(`fundamentals.go:846`); the second differences of RMI (`technical_more.go:1071`); two writes of the
preferences at once (`api.go:1329`); the oldest rows of earnings (`postgres.go:546`); an anchor day of the
relative strength on which the stock was halted (`relativestrength.go:112`); the header of `split.go`, which knows of
watchlists and clips only; once a series outgrows 1300 bars its averages start at a later bar, so a
replay may differ from what was shown (`backtest.go:41`).

## Not modelled

The map covers about a third of the implementation's lines. Most of the others are not
state: parsers and HTTP clients (`edgar/`, `alpaca/`, `finnhub/`, feeds), the wording of
reports, prompts and answers of the LLM (`enrich/`), and handlers that read a cache
and write JSON (`api/`). A model of these would repeat them. What they can return to the code
that is modelled - an answer, an error, part of an answer, nothing - is an input of the
modules. Pure calculators that remain are those of `movement/` and `opportunity/`.

Not modelled though they keep state: the sliding window of the write limiter (one function
under one lock) and the report counter of comments. The
64 KiB limit on Stripe's answers is outside `Entitlement`: a listing either succeeds or ends the run.
