------------------------------ MODULE OnDemand ------------------------------
(***************************************************************************)
(* The caches of internal/ingest that fetch what a page asks for, for one  *)
(* ticker.  kind says which of them this behaviour is about:               *)
(*   candles  BarCache.DailyCandles: one fetch at a time, those who wait   *)
(*            share its result, a failure is kept for a shorter while;     *)
(*   options  OptionsCache.Options: one fetch at a time, those who wait    *)
(*            look at the cache again; the scan of the market warms it;    *)
(*   sheets   FundamentalsCache, ETFHoldingsCache: whoever misses fetches, *)
(*            a failure is kept for a shorter while;                       *)
(*   quotes   BarCache.DailyBars, IntradayCandles, LatestQuote(s): whoever *)
(*            misses fetches, a failure is not kept.                       *)
(* A fetch runs on the context of the caller that makes it.  Time is the   *)
(* age of the entry, in ticks, up to the longer of the two periods.        *)
(***************************************************************************)
EXTENDS Integers, FiniteSets

CONSTANTS
  Readers,    \* goroutines that ask
  FreshFor,   \* b.ttl, optionsTTL, fundamentalsTTL, etfHoldingsTTL, quoteTTL
  FailedFor,  \* candleNegTTL, fundamentalsNegTTL, etfHoldingsNegTTL
  MaxQuits    \* bound: callers whose context ends in the call

ReadsAssumption == FreshFor \in Nat /\ FailedFor \in Nat /\ MaxQuits \in Nat

Kinds == {"candles", "options", "sheets", "quotes"}
Flighted == {"candles", "options"}

Longest == IF FreshFor > FailedFor THEN FreshFor ELSE FailedFor

VARIABLES
  kind,
  entry,     \* the cached entry: none, good or failed
  age,       \* since entry.at
  inflight,  \* the ticker is in candleInf (inflight)
  reader,    \* out, fetching, waiting, woken or (history) just answered
  given,     \* what a woken reader finds in its call, what one was answered
  upstream,  \* Alpaca (Cboe, the SEC) answers
  quits

readVars == <<kind, entry, age, inflight, reader, given, upstream, quits>>

Init ==
  /\ kind \in Kinds
  /\ entry = "none" /\ age = 0 /\ inflight = FALSE
  /\ reader = [r \in Readers |-> "out"]
  /\ given = [r \in Readers |-> "nothing"]
  /\ upstream \in BOOLEAN /\ quits = 0

\* How long an entry answers for the upstream; OptionsCache has one period.
ShownFor(e) == IF e = "failed" /\ kind # "options" THEN FailedFor ELSE FreshFor

Answer(r, what) ==
  /\ reader' = [reader EXCEPT ![r] = "answered"]
  /\ given' = [given EXCEPT ![r] = what]

\* The first critical section; a reader that OptionsCache woke is in it again.
Ask(r) ==
  /\ reader[r] \in {"out", "answered"} \/ (reader[r] = "woken" /\ kind = "options")
  /\ \/ /\ entry # "none" /\ age < ShownFor(entry)
        /\ Answer(r, entry) /\ UNCHANGED inflight
     \/ /\ entry = "none" \/ age >= ShownFor(entry)
        /\ reader' = [reader EXCEPT ![r] = IF inflight THEN "waiting" ELSE "fetching"]
        /\ given' = [given EXCEPT ![r] = "nothing"]
        /\ inflight' = (kind \in Flighted)
  /\ UNCHANGED <<kind, entry, age, upstream, quits>>

\* What is kept of a fetch.
Keep(what) ==
  IF what = "failed" /\ kind = "quotes" THEN UNCHANGED <<entry, age>>
  ELSE entry' = what /\ age' = 0

\* Mutant: a failed fetch returns without giving the ticker back.
FinishedOnSuccess(r, what) ==
  /\ Keep(what) /\ inflight' = (inflight /\ what = "failed")
  /\ reader' = [s \in Readers |-> IF s = r THEN "answered"
                                  ELSE IF reader[s] = "waiting" /\ what = "good" THEN "woken"
                                  ELSE reader[s]]
  /\ given' = [s \in Readers |-> IF s = r \/ (reader[s] = "waiting" /\ what = "good")
                                 THEN what ELSE given[s]]

\* The second critical section, and the close of the call's channel.
Finished(r, what) ==
  /\ Keep(what) /\ inflight' = FALSE
  /\ reader' = [s \in Readers |-> IF s = r THEN "answered"
                                  ELSE IF reader[s] = "waiting" THEN "woken" ELSE reader[s]]
  /\ given' = [s \in Readers |-> IF s = r \/ reader[s] = "waiting" THEN what ELSE given[s]]

\* The fetch returns.
Fetched(r) ==
  /\ reader[r] = "fetching"
  /\ Finished(r, IF upstream THEN "good" ELSE "failed")
  /\ UNCHANGED <<kind, upstream, quits>>

\* The request that fetches is gone, and its fetch with it: an error as any other.
FetcherQuits(r) ==
  /\ reader[r] = "fetching" /\ quits < MaxQuits
  /\ Finished(r, "failed") /\ quits' = quits + 1
  /\ UNCHANGED <<kind, upstream>>

\* A waiter reads the finished call.
Wake(r) ==
  /\ reader[r] = "woken" /\ kind = "candles"
  /\ reader' = [reader EXCEPT ![r] = "answered"]
  /\ UNCHANGED <<kind, entry, age, inflight, given, upstream, quits>>

\* A waiter's context ends first.
WaiterQuits(r) ==
  /\ reader[r] \in {"waiting", "woken"} /\ quits < MaxQuits
  /\ quits' = quits + 1 /\ Answer(r, "failed")
  /\ UNCHANGED <<kind, entry, age, inflight, upstream>>

\* scanUnusual got this ticker's chain for its board, and stores it here too.
Warm ==
  /\ kind = "options" /\ upstream
  /\ entry' = "good" /\ age' = 0
  /\ UNCHANGED <<kind, inflight, reader, given, upstream, quits>>

\* A period is minutes or more: a goroutine that was woken runs before it is over.
Tick ==
  /\ age < Longest /\ age' = age + 1
  /\ \A r \in Readers : reader[r] # "woken"
  /\ UNCHANGED <<kind, entry, inflight, reader, given, upstream, quits>>

\* The upstream stops answering, or answers again.
Outage ==
  /\ upstream' = ~upstream
  /\ UNCHANGED <<kind, entry, age, inflight, reader, given, quits>>

Next ==
  \/ \E r \in Readers :
       Ask(r) \/ Fetched(r) \/ FetcherQuits(r) \/ Wake(r) \/ WaiterQuits(r)
  \/ Warm \/ Tick \/ Outage

\* Time passes, a fetch ends (the clients have timeouts), a goroutine that can
\* run is scheduled; the pages and the scans keep asking.
Fairness ==
  /\ WF_readVars(Tick)
  /\ \A r \in Readers : WF_readVars(Fetched(r)) /\ WF_readVars(Wake(r)) /\ WF_readVars(Ask(r))

Spec == Init /\ [][Next]_readVars /\ Fairness

-----------------------------------------------------------------------------
(* Properties. *)

TypeOK ==
  /\ kind \in Kinds
  /\ entry \in {"none", "good", "failed"} /\ age \in 0..Longest /\ inflight \in BOOLEAN
  /\ reader \in [Readers -> {"out", "fetching", "waiting", "woken", "answered"}]
  /\ given \in [Readers -> {"nothing", "good", "failed"}]
  /\ upstream \in BOOLEAN /\ quits \in 0..MaxQuits

\* "two callers can never both miss and both fetch the same ticker": there is one
\* that fetches exactly when a fetch is in flight, so nobody waits for a call
\* that no one will finish.
OneFetch ==
  /\ kind \in Flighted =>
       Cardinality({r \in Readers : reader[r] = "fetching"}) = (IF inflight THEN 1 ELSE 0)
  /\ (\E r \in Readers : reader[r] = "waiting") => inflight

\* Every reader returns, and a failure "self-heals": once the upstream answers
\* and no fetching client leaves any more, every reader that keeps asking is given
\* data again, even if the last fetch failed just before.
CachesHeal ==
  /\ \A r \in Readers : reader[r] \in {"fetching", "waiting", "woken"} ~> reader[r] = "answered"
  /\ (<>[]upstream) => \A r \in Readers : []<>(reader[r] = "answered" /\ given[r] = "good")
=============================================================================
