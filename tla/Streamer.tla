------------------------------ MODULE Streamer ------------------------------
(***************************************************************************)
(* The live quote stream of internal/alpacaws: request handlers            *)
(* (Subscribe) and a ticker (RefreshBase) edit the set of symbols to       *)
(* stream, and nudge the writer goroutine of the current WebSocket session *)
(* to bring the subscriptions on the wire in line with it.                 *)
(*                                                                         *)
(* A critical section of submu, the nudge that follows it and each         *)
(* message on the wire is one step.  Quotes and their baselines are left   *)
(* out.                                                                    *)
(***************************************************************************)
EXTENDS Naturals, FiniteSets, SequencesExt

CONSTANTS
  Symbols,      \* tickers
  Foreign,      \* those with a foreign suffix, which the feed rejects
  Bases,        \* the lists RefreshBase and New are called with
  MaxSymbols,   \* symbols one connection may hold
  ViewedSlots,  \* those the base leaves to viewed tickers
  MaxEdits,     \* bound: calls that change the set
  MaxDrops      \* bound: sessions that end

ASSUME BasesType == Bases \subseteq Seq(Symbols) /\ Foreign \subseteq Symbols
ASSUME SlotsType == /\ MaxSymbols \in Nat /\ ViewedSlots \in 0..MaxSymbols
                    /\ MaxEdits \in Nat /\ MaxDrops \in Nat

VARIABLES
  base,        \* s.base
  viewed,      \* s.viewed, the most recent last
  owed,        \* calls that changed the set and have not nudged yet
  nudge,       \* s.resyncCh holds a nudge
  writer,      \* where the writer of the session is; "off" between sessions
  want,        \* sync: the symbols it read
  subscribed,  \* the writer's map, which is what is on the wire
  edits, drops

client == <<base, viewed, owed>>
wire == <<writer, want, subscribed>>
vars == <<client, nudge, wire, edits, drops>>

-----------------------------------------------------------------------------
\* Mutant: the base is not capped.
CapBaseUncapped(list) == list

CapBase(list) == IF Len(list) > MaxSymbols - ViewedSlots
                 THEN SubSeq(list, 1, MaxSymbols - ViewedSlots)
                 ELSE list

\* Run does not start at all without a symbol to stream; main puts SPY, DIA and QQQ first.
ASSUME BasesStart == \A b \in Bases : ToSet(CapBase(b)) \ Foreign # {}

\* A ticker viewed again gives up its old place, of which it has one at most.
LruAdd(lru, t, max) ==
  LET kept == IF t \in ToSet(lru) THEN RemoveAt(lru, CHOOSE i \in DOMAIN lru : lru[i] = t) ELSE lru
      out == Append(kept, t)
  IN  IF max > 0 /\ Len(out) > max THEN SubSeq(out, Len(out) - max + 1, Len(out)) ELSE out

Desired == (ToSet(base) \cup ToSet(viewed)) \ Foreign

Init ==
  /\ base \in {CapBase(b) : b \in Bases}
  /\ viewed = <<>>
  /\ owed = 0
  /\ nudge = FALSE
  /\ writer = "off"
  /\ want = {}
  /\ subscribed = {}
  /\ edits = 0
  /\ drops = 0

-----------------------------------------------------------------------------
(* Calls from handlers and from the refresh ticker. *)

\* A ticker of the base, or a base that leaves no room, changes nothing.
Subscribe(t) ==
  LET maxViewed == MaxSymbols - Len(base)
  IN  /\ edits < MaxEdits
      /\ t \notin Foreign /\ t \notin ToSet(base)
      /\ maxViewed >= 1
      /\ viewed' = LruAdd(viewed, t, maxViewed)
      /\ owed' = owed + 1
      /\ edits' = edits + 1
      /\ UNCHANGED <<base, nudge, wire, drops>>

RefreshBase(list) ==
  /\ edits < MaxEdits
  /\ CapBase(list) # base
  /\ base' = CapBase(list)
  /\ owed' = owed + 1
  /\ edits' = edits + 1
  /\ UNCHANGED <<viewed, nudge, wire, drops>>

\* Mutant: a nudge wakes the writer only when it is waiting for one.
NudgeIfWaiting ==
  /\ owed > 0
  /\ owed' = owed - 1
  /\ nudge' = (nudge \/ writer = "wait")
  /\ UNCHANGED <<base, viewed, wire, edits, drops>>

\* The send that follows the unlock; a nudge already there is enough.
Nudge ==
  /\ owed > 0
  /\ owed' = owed - 1
  /\ nudge' = TRUE
  /\ UNCHANGED <<base, viewed, wire, edits, drops>>

-----------------------------------------------------------------------------
(* The session and its writer. *)

Connect ==
  /\ writer = "off"
  /\ writer' = "handshake"
  /\ UNCHANGED <<client, nudge, want, subscribed, edits, drops>>

Authenticated ==
  /\ writer = "handshake"
  /\ writer' = "sync"
  /\ UNCHANGED <<client, nudge, want, subscribed, edits, drops>>

\* sync reads the desired set once.
Diff ==
  /\ writer = "sync"
  /\ want' = Desired
  /\ writer' = "unsubscribe"
  /\ UNCHANGED <<client, nudge, subscribed, edits, drops>>

\* Mutant: the new symbols are subscribed before the old ones are dropped.
SendUnsubscribeLate ==
  /\ writer = "unsubscribe"
  /\ subscribed' = subscribed \cup want
  /\ writer' = "subscribe"
  /\ UNCHANGED <<client, nudge, want, edits, drops>>

\* The symbols no longer wanted leave first, to make room under the cap.
SendUnsubscribe ==
  /\ writer = "unsubscribe"
  /\ subscribed' = subscribed \cap want
  /\ writer' = "subscribe"
  /\ UNCHANGED <<client, nudge, want, edits, drops>>

SendSubscribe ==
  /\ writer = "subscribe"
  /\ subscribed' = want
  /\ writer' = "wait"
  /\ UNCHANGED <<client, nudge, want, edits, drops>>

\* Mutant: the writer wakes to the set it read before.
WakeStale ==
  /\ writer = "wait"
  /\ nudge
  /\ nudge' = FALSE
  /\ writer' = "unsubscribe"
  /\ UNCHANGED <<client, want, subscribed, edits, drops>>

Wake ==
  /\ writer = "wait"
  /\ nudge
  /\ nudge' = FALSE
  /\ writer' = "sync"
  /\ UNCHANGED <<client, want, subscribed, edits, drops>>

\* A read, write or ping error, or a handshake that times out.  The writer that
\* ends may take the nudge with it.
EndSession ==
  /\ drops < MaxDrops
  /\ drops' = drops + 1
  /\ writer # "off"
  /\ writer' = "off"
  /\ want' = {}
  /\ subscribed' = {}
  /\ nudge' \in {nudge, FALSE}
  /\ UNCHANGED <<client, edits>>

-----------------------------------------------------------------------------
Run == Connect \/ Authenticated \/ Diff \/ SendUnsubscribe \/ SendSubscribe \/ Wake

Next ==
  \/ \E t \in Symbols : Subscribe(t)
  \/ \E list \in Bases : RefreshBase(list)
  \/ Nudge \/ Run \/ EndSession

\* Run reconnects for ever, the handshake and the writes carry timeouts, and a
\* call that changed the set goes on to its nudge.
Spec == Init /\ [][Next]_vars /\ WF_vars(Run) /\ WF_vars(Nudge)

-----------------------------------------------------------------------------
(* Properties. *)

TypeOK ==
  /\ base \in Seq(Symbols) /\ Len(base) <= MaxSymbols - ViewedSlots
  /\ viewed \in Seq(Symbols) /\ IsInjective(viewed)
  /\ owed \in Nat
  /\ nudge \in BOOLEAN
  /\ writer \in {"off", "handshake", "sync", "unsubscribe", "subscribe", "wait"}
  /\ want \subseteq Symbols
  /\ subscribed \subseteq Symbols
  /\ edits \in 0..MaxEdits
  /\ drops \in 0..MaxDrops

\* No edit is lost: a writer that waits, with no nudge sent or still to be sent,
\* has exactly the desired symbols on the wire.
QuietIsInSync == writer = "wait" /\ ~nudge /\ owed = 0 => subscribed = Desired

\* "Free tier allows one connection and <=30 symbols, so the subscription set is
\* capped" (package comment): holds, also between the two messages of a sync,
\* while the base keeps its length; refuted when the base grows, because
\* RefreshBase does not trim the viewed tickers.
WithinCap == Cardinality(subscribed) <= MaxSymbols

\* A foreign symbol would make the feed reject the whole subscribe message.
NoForeignOnWire == subscribed \cap Foreign = {}

\* Once the edits and the disconnections cease, the wire carries the desired set
\* for good: the ticker a user opened last goes live, across reconnects too.
WireFollows == <>[](subscribed = Desired)
=============================================================================
