----------------------------- MODULE PriceFeed ------------------------------
(***************************************************************************)
(* The way of one symbol's price to a browser: the WebSocket session of    *)
(* internal/alpacaws reads trades and overlays them on a baseline, the     *)
(* poller of internal/ingest takes REST snapshots, both write the quote    *)
(* table and publish on the hub of internal/stream, and getStream drains   *)
(* a buffered channel per client.                                          *)
(*                                                                         *)
(* Prices are the numbers of the trades.  Publish holds the read lock of   *)
(* the hub while it offers the quote to each channel in turn, so Subscribe *)
(* and the unsubscription wait for it.  The throttles (500 ms, 5 s) are    *)
(* the set of those that have not run out.                                 *)
(***************************************************************************)
EXTENDS Naturals, Sequences

CONSTANTS
  Clients,    \* browsers, each with one connection to /v1/stream
  ChanCap,    \* capacity of a subscriber's channel (16)
  MaxTrades,  \* bound: trades of the symbol
  MaxFaults   \* bound: sessions that end, store and REST calls that fail

FeedAssumption == MaxTrades \in Nat /\ MaxFaults \in Nat

Publishers == {"session", "poller"}
\* A quote: the trade it shows, and whether it has a previous close to compare with.
Quote == [at : 0..MaxTrades, baseline : BOOLEAN]
NoQuote == [at |-> 0, baseline |-> FALSE]

VARIABLES
  polled,      \* the symbol is one of the poller's (a merely viewed one is not)
  wanted,      \* the symbol is in the streamer's set
  market,      \* trades so far
  wire,        \* the session: down, dialed, adding or live
  inbox,       \* trades sent by the feed and not read yet
  seed,        \* s.seed has the symbol
  seedFailed,  \* history: a reseed of the symbol failed
  cooling,     \* throttles of publishTrades that have not run out
  pc,          \* where each publisher is
  hand,        \* the quote it works on
  todo,        \* channels its Publish has still to offer the quote to
  stored,      \* the row of the quote table
  chan,        \* none, open (in hub.subs), leaving (its handler has ended) or closed
  buf, seen,   \* the channel's content, and the last quote sent to the browser
  faults

wireVars == <<wire, inbox, seed, seedFailed>>
pubVars == <<cooling, pc, hand, todo, stored>>
hubVars == <<chan, buf, seen>>
feedVars == <<polled, wanted, market, wireVars, pubVars, hubVars, faults>>

Init ==
  /\ polled \in BOOLEAN /\ wanted \in BOOLEAN
  /\ market = 0 /\ wire = "down" /\ inbox = <<>>
  /\ seed = FALSE /\ seedFailed = FALSE
  /\ cooling = {}
  /\ pc = [p \in Publishers |-> "idle"]
  /\ hand = [p \in Publishers |-> NoQuote]
  /\ todo = [p \in Publishers |-> {}]
  /\ stored = NoQuote
  /\ chan = [c \in Clients |-> "none"]
  /\ buf = [c \in Clients |-> <<>>]
  /\ seen = [c \in Clients |-> NoQuote]
  /\ faults = 0

-----------------------------------------------------------------------------
(* The session. *)

\* One REST snapshot for the baseline; a failure is logged and goes on.
Reseed ==
  \/ seed' = TRUE /\ UNCHANGED <<seedFailed, faults>>
  \/ /\ faults < MaxFaults
     /\ faults' = faults + 1
     /\ seedFailed' = TRUE
     /\ UNCHANGED seed

\* session: reseed the desired symbols, then dial and authenticate.
Dial ==
  /\ wire = "down"
  /\ wire' = "dialed"
  /\ IF wanted THEN Reseed ELSE UNCHANGED <<seed, seedFailed, faults>>
  /\ UNCHANGED <<polled, wanted, market, inbox, pubVars, hubVars>>

\* sync finds the symbol missing on the wire and reseeds it.
SyncAdd ==
  /\ wire = "dialed" /\ wanted
  /\ wire' = "adding"
  /\ Reseed
  /\ UNCHANGED <<polled, wanted, market, inbox, pubVars, hubVars>>

SendSubscribe ==
  /\ wire = "adding"
  /\ wire' = "live"
  /\ UNCHANGED <<polled, wanted, market, inbox, seed, seedFailed, faults, pubVars, hubVars>>

\* The connection is lost; the reader is between two frames.
SessionEnds ==
  /\ wire # "down" /\ faults < MaxFaults /\ pc["session"] = "idle"
  /\ wire' = "down" /\ inbox' = <<>> /\ faults' = faults + 1
  /\ UNCHANGED <<polled, wanted, market, seed, seedFailed, pubVars, hubVars>>

\* A viewer's Subscribe puts the symbol in the set (Streamer models the set).
View ==
  /\ ~wanted /\ wanted' = TRUE
  /\ UNCHANGED <<polled, market, wireVars, pubVars, hubVars, faults>>

\* The symbol trades; the feed sends what is subscribed.
Trade ==
  /\ market < MaxTrades
  /\ market' = market + 1
  /\ inbox' = IF wire = "live" THEN Append(inbox, market') ELSE inbox
  /\ UNCHANGED <<polled, wanted, wire, seed, seedFailed, pubVars, hubVars, faults>>

\* merge, and the throttle section of publishTrades: a quote to publish, to
\* upsert, both or neither.
ReadTrade ==
  /\ pc["session"] = "idle" /\ inbox # <<>>
  /\ inbox' = Tail(inbox)
  /\ cooling' = {"publish", "upsert"}
  /\ LET q == [at |-> Head(inbox), baseline |-> seed]
     IN  CASE "publish" \notin cooling ->
                /\ pc' = [pc EXCEPT !["session"] =
                            IF "upsert" \in cooling THEN "publishing" ELSE "publishing first"]
                /\ hand' = [hand EXCEPT !["session"] = q]
                /\ todo' = [todo EXCEPT !["session"] = {c \in Clients : chan[c] \in {"open", "leaving"}}]
           [] "publish" \in cooling /\ "upsert" \notin cooling ->
                /\ pc' = [pc EXCEPT !["session"] = "saving"]
                /\ hand' = [hand EXCEPT !["session"] = q]
                /\ UNCHANGED todo
           [] OTHER -> UNCHANGED <<pc, hand, todo>>
  /\ UNCHANGED <<polled, wanted, market, wire, seed, seedFailed, stored, hubVars, faults>>

CoolOff(t) ==
  /\ t \in cooling /\ cooling' = cooling \ {t}
  /\ UNCHANGED <<polled, wanted, market, wireVars, pc, hand, todo, stored, hubVars, faults>>

\* The upsert of publishTrades, whose error is ignored.
SessionUpsert ==
  /\ pc["session"] = "saving"
  /\ pc' = [pc EXCEPT !["session"] = "idle"]
  /\ hand' = [hand EXCEPT !["session"] = NoQuote]
  /\ \/ stored' = hand["session"] /\ UNCHANGED faults
     \/ faults < MaxFaults /\ faults' = faults + 1 /\ UNCHANGED stored
  /\ UNCHANGED <<polled, wanted, market, wireVars, cooling, todo, hubVars>>

-----------------------------------------------------------------------------
(* The poller: snapshot, upsert, publish. *)

Snapshot ==
  /\ polled /\ pc["poller"] = "idle"
  /\ \/ /\ hand' = [hand EXCEPT !["poller"] = [at |-> market, baseline |-> TRUE]]
        /\ pc' = [pc EXCEPT !["poller"] = "saving"]
        /\ UNCHANGED faults
     \/ faults < MaxFaults /\ faults' = faults + 1 /\ UNCHANGED <<hand, pc>>
  /\ UNCHANGED <<polled, wanted, market, wireVars, cooling, todo, stored, hubVars>>

\* Mutant: save does not broadcast.
SaveQuietly ==
  /\ pc["poller"] = "saving"
  /\ pc' = [pc EXCEPT !["poller"] = "idle"]
  /\ stored' = hand["poller"]
  /\ hand' = [hand EXCEPT !["poller"] = NoQuote]
  /\ UNCHANGED <<polled, wanted, market, wireVars, cooling, todo, hubVars, faults>>

\* save: a failed upsert is not published.
Save ==
  /\ pc["poller"] = "saving"
  /\ \/ /\ stored' = hand["poller"]
        /\ pc' = [pc EXCEPT !["poller"] = "publishing"]
        /\ todo' = [todo EXCEPT !["poller"] = {c \in Clients : chan[c] \in {"open", "leaving"}}]
        /\ UNCHANGED <<faults, hand>>
     \/ /\ faults < MaxFaults /\ faults' = faults + 1
        /\ pc' = [pc EXCEPT !["poller"] = "idle"]
        /\ hand' = [hand EXCEPT !["poller"] = NoQuote]
        /\ UNCHANGED <<stored, todo>>
  /\ UNCHANGED <<polled, wanted, market, wireVars, cooling, hubVars>>

-----------------------------------------------------------------------------
(* The hub. *)

ReadLocked == \E p \in Publishers : pc[p] \in {"publishing", "publishing first"}

\* One round of the loop of Publish: a full channel drops the quote.
Offer(p, c) ==
  /\ c \in todo[p]
  /\ buf' = IF Len(buf[c]) < ChanCap THEN [buf EXCEPT ![c] = Append(@, hand[p])] ELSE buf
  /\ todo' = [todo EXCEPT ![p] = @ \ {c}]
  /\ UNCHANGED <<polled, wanted, market, wireVars, cooling, pc, hand, stored, chan, seen, faults>>

\* Publish returns; the session goes on to the upsert if that is due.
Published(p) ==
  /\ pc[p] \in {"publishing", "publishing first"} /\ todo[p] = {}
  /\ pc' = [pc EXCEPT ![p] = IF @ = "publishing first" THEN "saving" ELSE "idle"]
  /\ hand' = [hand EXCEPT ![p] = IF pc[p] = "publishing first" THEN @ ELSE NoQuote]
  /\ UNCHANGED <<polled, wanted, market, wireVars, cooling, todo, stored, hubVars, faults>>

HubSubscribe(c) ==
  /\ chan[c] = "none" /\ ~ReadLocked
  /\ chan' = [chan EXCEPT ![c] = "open"]
  /\ UNCHANGED <<polled, wanted, market, wireVars, pubVars, buf, seen, faults>>

\* getStream writes the next quote to the browser.
Deliver(c) ==
  /\ chan[c] = "open" /\ buf[c] # <<>>
  /\ seen' = [seen EXCEPT ![c] = Head(buf[c])]
  /\ buf' = [buf EXCEPT ![c] = Tail(@)]
  /\ UNCHANGED <<polled, wanted, market, wireVars, pubVars, chan, faults>>

\* The browser goes away: the handler stops draining and will unsubscribe.
Leave(c) ==
  /\ chan[c] = "open"
  /\ chan' = [chan EXCEPT ![c] = "leaving"]
  /\ UNCHANGED <<polled, wanted, market, wireVars, pubVars, buf, seen, faults>>

\* Mutant: the channel is closed without the lock.
CloseUnlocked(c) ==
  /\ chan[c] = "leaving"
  /\ chan' = [chan EXCEPT ![c] = "closed"] /\ buf' = [buf EXCEPT ![c] = <<>>]
  /\ seen' = [seen EXCEPT ![c] = NoQuote]
  /\ UNCHANGED <<polled, wanted, market, wireVars, pubVars, faults>>

\* unsubscribe: delete and close under the write lock.
Close(c) ==
  /\ chan[c] = "leaving" /\ ~ReadLocked
  /\ chan' = [chan EXCEPT ![c] = "closed"] /\ buf' = [buf EXCEPT ![c] = <<>>]
  /\ seen' = [seen EXCEPT ![c] = NoQuote]
  /\ UNCHANGED <<polled, wanted, market, wireVars, pubVars, faults>>

SessionStep == Dial \/ SyncAdd \/ SendSubscribe \/ ReadTrade \/ SessionUpsert
PollerStep == Snapshot \/ Save
PublishStep == \E p \in Publishers : Published(p) \/ \E c \in Clients : Offer(p, c)

Next ==
  \/ SessionStep \/ SessionEnds \/ View \/ Trade
  \/ \E t \in {"publish", "upsert"} : CoolOff(t)
  \/ PollerStep \/ PublishStep
  \/ \E c \in Clients : HubSubscribe(c) \/ Deliver(c) \/ Leave(c) \/ Close(c)

\* Run reconnects for ever, the poller's ticker keeps firing, a publisher that
\* is in Publish is scheduled, and so is the handler of a connected browser.
Fairness ==
  /\ WF_feedVars(SessionStep)
  /\ WF_feedVars(PollerStep)
  /\ \A p \in Publishers :
       WF_feedVars(Published(p) \/ \E c \in Clients : Offer(p, c))
  /\ \A c \in Clients : WF_feedVars(Deliver(c) \/ Close(c))

Spec == Init /\ [][Next]_feedVars /\ Fairness

-----------------------------------------------------------------------------
(* Properties. *)

TypeOK ==
  /\ polled \in BOOLEAN /\ wanted \in BOOLEAN /\ market \in 0..MaxTrades
  /\ wire \in {"down", "dialed", "adding", "live"} /\ inbox \in Seq(1..MaxTrades)
  /\ seed \in BOOLEAN /\ seedFailed \in BOOLEAN
  /\ cooling \subseteq {"publish", "upsert"}
  /\ pc \in [Publishers -> {"idle", "saving", "publishing", "publishing first"}]
  /\ hand \in [Publishers -> Quote] /\ todo \in [Publishers -> SUBSET Clients]
  /\ stored \in Quote
  /\ chan \in [Clients -> {"none", "open", "leaving", "closed"}]
  /\ buf \in [Clients -> Seq(Quote)] /\ seen \in [Clients -> Quote]
  /\ faults \in 0..MaxFaults

\* No publisher is about to send on a channel that its handler has closed (a
\* send on a closed channel would bring the process down).
NoSendOnClosed ==
  \A p \in Publishers : \A c \in todo[p] : chan[c] \in {"open", "leaving"}

\* A streamed trade is shown against a previous close: no quote without a
\* baseline reaches the store, a channel or a browser unless a reseed failed.
QuotesHaveBaseline ==
  seedFailed \/
    /\ stored.at = 0 \/ stored.baseline
    /\ \A c \in Clients : /\ \A i \in DOMAIN buf[c] : buf[c][i].baseline
                          /\ seen[c].at = 0 \/ seen[c].baseline

\* What subscribers are sent is sound.
StreamIsSound == NoSendOnClosed /\ QuotesHaveBaseline

\* "the next tick carries the latest price anyway": throttled and dropped
\* quotes, and rows overwritten by an older snapshot, are made good by the
\* poller: once the market is quiet, the table and every connected browser end
\* up with the last trade of a polled symbol.
FeedConverges ==
  polled => <>[](/\ stored.at = market
                 /\ \A c \in Clients : chan[c] = "open" => seen[c].at = market)
=============================================================================
