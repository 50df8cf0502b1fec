------------------------------ MODULE MCFeeds -------------------------------
(***************************************************************************)
(* Small instances, for TLC, of what the server takes from outside: the    *)
(* subscriptions and the quotes of Alpaca's stream (Streamer, PriceFeed),  *)
(* the pacing of its REST calls (Pacer), what a page fetches (OnDemand)    *)
(* and the signing keys (KeyCache).                                        *)
(* They share no state: a behaviour is one of the module in focus, and the *)
(* variables of the others keep a value of their own initial state.        *)
(***************************************************************************)
EXTENDS MCStreamer, Pacer

CONSTANTS Clients, ChanCap, MaxTrades, MaxFaults, Requests, MaxKey

VARIABLES
  focus,
  polled, wanted, market, session, inbox, seed, seedFailed, cooling, pc, hand, todo,
  stored, chan, buf, seen, faults,                      \* PriceFeed
  kind, entry, age, inflight, reader, given, upstream, quits, \* OnDemand
  current, keys, stale, at, kid, answer, misses, refused \* KeyCache

Feed == INSTANCE PriceFeed WITH wire <- session
Reads == INSTANCE OnDemand WITH
  Readers <- Callers, FreshFor <- 3, FailedFor <- 2, MaxQuits <- 1
Auth == INSTANCE KeyCache WITH pc <- at, faults <- misses

ASSUME FeedsConstants == Feed!FeedAssumption /\ Reads!ReadsAssumption /\ Auth!KeysAssumption

FeedVars == <<polled, wanted, market, session, inbox, seed, seedFailed, cooling, pc, hand,
              todo, stored, chan, buf, seen, faults>>
ReadVars == <<kind, entry, age, inflight, reader, given, upstream, quits>>
AuthVars == <<current, keys, stale, at, kid, answer, misses, refused>>

MCInit ==
  /\ focus \in {"Streamer", "PriceFeed", "Pacer", "OnDemand", "KeyCache"}
  /\ Init /\ (focus # "Streamer" => base = <<a, b>>)
  /\ PacerInit /\ (focus # "Pacer" => max = Cost)
  /\ Feed!Init /\ (focus # "PriceFeed" => polled /\ wanted)
  /\ Reads!Init /\ (focus # "OnDemand" => upstream /\ kind = "candles")
  /\ Auth!Init

MCNext ==
  \/ focus = "Streamer" /\ Next /\ UNCHANGED <<focus, pacerVars, FeedVars, ReadVars, AuthVars>>
  \/ focus = "Pacer" /\ PacerNext /\ UNCHANGED <<focus, vars, FeedVars, ReadVars, AuthVars>>
  \/ focus = "PriceFeed" /\ Feed!Next /\ UNCHANGED <<focus, vars, pacerVars, ReadVars, AuthVars>>
  \/ focus = "KeyCache" /\ Auth!Next /\ UNCHANGED <<focus, vars, pacerVars, FeedVars, ReadVars>>
  \/ focus = "OnDemand" /\ Reads!Next /\ UNCHANGED <<focus, vars, pacerVars, FeedVars, AuthVars>>

MCSpec == MCInit /\ [][MCNext]_<<focus, vars, pacerVars, FeedVars, ReadVars, AuthVars>>

-----------------------------------------------------------------------------
(* The properties of the modules, under one name each, liveness under the  *)
(* fairness of its own module.                                             *)

\* Every module's state has its type.
TypesOK == TypeOK /\ PacerTypeOK /\ Feed!TypeOK /\ Reads!TypeOK /\ Auth!TypeOK

\* A change of the symbol set reaches the feed as long as the connection stays up.
WireCatchesUp == focus = "Streamer" /\ WF_vars(Run) /\ WF_vars(Nudge) => WireFollows

\* The hub never sends on a closed channel and no quote goes out without its baseline; a
\* browser's prices converge to the newest ones.
FeedIsSound ==
  /\ [][Feed!StreamIsSound']_FeedVars
  /\ focus = "PriceFeed" /\ Feed!Fairness => Feed!FeedConverges

\* A call that waits for the pacer, and is not cancelled, gets its token.
PacedCallsReturn == focus = "Pacer" /\ PacerFairness => WaitReturns

\* A key is fetched by one at a time; a cache that fetches on demand serves again once its
\* upstream does, and the signing keys catch up with a rotation.
CachesCatchUp ==
  /\ [][Reads!OneFetch']_ReadVars
  /\ focus = "OnDemand" /\ Reads!Fairness => Reads!CachesHeal
  /\ focus = "KeyCache" /\ Auth!Fairness => Auth!KeysCatchUp
=============================================================================
