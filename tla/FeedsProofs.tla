----------------------------- MODULE FeedsProofs -----------------------------
(***************************************************************************)
(* Proofs about the connection to Alpaca and what is served from it.       *)
(*                                                                         *)
(* Streamer, for any symbols, bases, caps and bounds: no edit of the       *)
(* desired set is lost on its way to the wire, no foreign symbol gets      *)
(* there, and the wire carries no more symbols than the cap and what the   *)
(* longest base has over the shortest.                                     *)
(*                                                                         *)
(* Pacer, for any number of callers, any rate and any burst: the state     *)
(* stays well typed, and no stretch of time lets more through than a burst *)
(* and its refill.                                                         *)
(*                                                                         *)
(* PriceFeed, for any browsers, channel capacity and number of trades: a   *)
(* channel is never sent on after it was closed, and a quote has the       *)
(* baseline it is shown against wherever it gets to.                       *)
(*                                                                         *)
(* OnDemand, for any readers and lifetimes: while a fetch is in flight     *)
(* exactly one reader is fetching.                                         *)
(*                                                                         *)
(* KeyCache, for any requests and rotations: whatever the cache holds, a   *)
(* fetch brings or a token names was published by the issuer.              *)
(***************************************************************************)
EXTENDS Streamer, Pacer, SequenceTheorems, FiniteSetTheorems, TLAPS

CONSTANTS
  Clients, ChanCap, MaxTrades, MaxFaults,  \* PriceFeed
  Readers, FreshFor, FailedFor, MaxQuits,  \* OnDemand
  Requests, MaxKey                         \* KeyCache
VARIABLES
  polled, wanted, market, session, inbox, seed, seedFailed, cooling, pc, hand, todo, stored,
  chan, buf, seen, faults,                                    \* PriceFeed
  kind, entry, age, inflight, reader, given, upstream, quits, \* OnDemand
  current, keys, stale, at, kid, answer, misses, refused      \* KeyCache

Feed == INSTANCE PriceFeed WITH wire <- session
Reads == INSTANCE OnDemand
Auth == INSTANCE KeyCache WITH pc <- at, faults <- misses

\* The counters of the nudge.
NudgeType == owed \in Nat /\ nudge \in BOOLEAN

\* While a sync is under way and nobody nudges, what it read is still right.
SyncIsFresh ==
  writer \in {"unsubscribe", "subscribe"} /\ ~nudge /\ owed = 0 => want = Desired

WantIsDomestic == want \cap Foreign = {}

\* The inductive invariant: QuietIsInSync needs what a sync read to be fresh,
\* NoForeignOnWire what it read to be domestic.
IInv ==
  /\ NudgeType
  /\ QuietIsInSync
  /\ SyncIsFresh
  /\ WantIsDomestic
  /\ NoForeignOnWire

LEMMA InitInv == Init => IInv
<1> SUFFICES ASSUME Init PROVE IInv
  OBVIOUS
<1>1. owed = 0 /\ nudge = FALSE /\ writer = "off" /\ want = {} /\ subscribed = {}
  BY DEF Init
<1> QED
  BY <1>1 DEF IInv, NudgeType, QuietIsInSync, SyncIsFresh, WantIsDomestic, NoForeignOnWire

LEMMA NextInv == IInv /\ [Next]_vars => IInv'
<1> SUFFICES ASSUME IInv, [Next]_vars PROVE IInv'
  OBVIOUS
<1> USE DEF IInv, NudgeType, QuietIsInSync, SyncIsFresh, WantIsDomestic, NoForeignOnWire
\* An edit owes a nudge, which makes the two freshness conjuncts vacuous.
<1>1. ASSUME NEW t \in Symbols, Subscribe(t) PROVE IInv'
  BY <1>1 DEF Subscribe, wire
<1>2. ASSUME NEW list \in Bases, RefreshBase(list) PROVE IInv'
  BY <1>2 DEF RefreshBase, wire
<1>3. CASE Nudge
  BY <1>3 DEF Nudge, wire
<1>4. CASE Connect
  BY <1>4 DEF Connect, client, Desired
<1>5. CASE Authenticated
  BY <1>5 DEF Authenticated, client, Desired
<1>6. CASE Diff
  BY <1>6 DEF Diff, client, Desired
<1>7. CASE SendUnsubscribe
  BY <1>7 DEF SendUnsubscribe, client, Desired
<1>8. CASE SendSubscribe
  BY <1>8 DEF SendSubscribe, client, Desired
<1>9. CASE Wake
  BY <1>9 DEF Wake, client, Desired
<1>10. CASE EndSession
  BY <1>10 DEF EndSession, client, Desired
<1>11. CASE UNCHANGED vars
  BY <1>11 DEF vars, client, wire, Desired
<1> QED
  BY <1>1, <1>2, <1>3, <1>4, <1>5, <1>6, <1>7, <1>8, <1>9, <1>10, <1>11 DEF Next, Run

\* A waiting writer that nobody has to wake has exactly the desired symbols on
\* the wire, whatever the interleaving of edits, nudges, syncs and reconnects.
THEOREM NoEditLost == Spec => []QuietIsInSync
<1>1. IInv => QuietIsInSync
  BY DEF IInv
<1> QED  BY InitInv, NextInv, <1>1, PTL DEF Spec

\* The feed is never sent a foreign symbol, whatever the bases hold.
THEOREM NoForeign == Spec => []NoForeignOnWire
<1>1. IInv => NoForeignOnWire
  BY DEF IInv
<1> QED  BY InitInv, NextInv, <1>1, PTL DEF Spec

-----------------------------------------------------------------------------
(* The lists of symbols. *)

LEMMA CapBaseType ==
  ASSUME NEW list \in Bases
  PROVE  CapBase(list) \in Seq(Symbols) /\ Len(CapBase(list)) <= MaxSymbols - ViewedSlots
<1>1. list \in Seq(Symbols) /\ MaxSymbols - ViewedSlots \in Nat
  BY BasesType, SlotsType
<1>2. CASE Len(list) > MaxSymbols - ViewedSlots
  <2>1. \A i \in 1..(MaxSymbols - ViewedSlots) : list[i] \in Symbols
    BY <1>1, <1>2
  <2>2. /\ SubSeq(list, 1, MaxSymbols - ViewedSlots) \in Seq(Symbols)
        /\ Len(SubSeq(list, 1, MaxSymbols - ViewedSlots)) <= MaxSymbols - ViewedSlots
    BY <1>1, <2>1, SubSeqProperties
  <2> QED  BY <1>2, <2>2 DEF CapBase
<1>3. CASE ~(Len(list) > MaxSymbols - ViewedSlots)
  BY <1>1, <1>3 DEF CapBase
<1> QED  BY <1>2, <1>3

\* Giving up the only place of a ticker leaves a list without it.
LEMMA RemoveAtProperties ==
  ASSUME NEW s \in Seq(Symbols), IsInjective(s), NEW k \in 1..Len(s)
  PROVE  /\ RemoveAt(s, k) \in Seq(Symbols)
         /\ IsInjective(RemoveAt(s, k))
         /\ \A i \in 1..Len(RemoveAt(s, k)) : RemoveAt(s, k)[i] # s[k]
<1> DEFINE left == SubSeq(s, 1, k - 1)
           right == SubSeq(s, k + 1, Len(s))
<1>1. Len(s) \in Nat /\ DOMAIN s = 1..Len(s) /\ \A i \in 1..Len(s) : s[i] \in Symbols
  OBVIOUS
<1>2. left \in Seq(Symbols) /\ Len(left) = k - 1 /\ \A i \in 1..(k - 1) : left[i] = s[i]
  <2>1. \A i \in 1..(k - 1) : s[i] \in Symbols
    BY <1>1
  <2>2. /\ left \in Seq(Symbols)
        /\ Len(left) = IF 1 <= k - 1 THEN k - 1 - 1 + 1 ELSE 0
        /\ \A i \in 1..(k - 1 - 1 + 1) : left[i] = s[1 + i - 1]
    BY <2>1, <1>1, SubSeqProperties DEF left
  <2> QED  BY <2>2, <1>1
<1>3. right \in Seq(Symbols) /\ Len(right) = Len(s) - k /\ \A i \in 1..(Len(s) - k) : right[i] = s[k + i]
  <2>1. \A i \in (k + 1)..Len(s) : s[i] \in Symbols
    BY <1>1
  <2>2. /\ right \in Seq(Symbols)
        /\ Len(right) = IF k + 1 <= Len(s) THEN Len(s) - (k + 1) + 1 ELSE 0
        /\ \A i \in 1..(Len(s) - (k + 1) + 1) : right[i] = s[k + 1 + i - 1]
    BY <2>1, <1>1, SubSeqProperties DEF right
  <2> HIDE DEF right
  <2>3. Len(s) - (k + 1) + 1 = Len(s) - k
    BY <1>1
  <2>4. ASSUME NEW i \in 1..(Len(s) - k) PROVE right[i] = s[k + i]
    <3>1. right[i] = s[k + 1 + i - 1]
      BY <2>2, <2>3
    <3>2. k + 1 + i - 1 = k + i
      BY <1>1
    <3> QED  BY <3>1, <3>2
  <2>5. Len(right) = Len(s) - k
    <3>1. Len(right) = IF k + 1 <= Len(s) THEN Len(s) - (k + 1) + 1 ELSE 0
      BY <2>2
    <3>2. CASE k + 1 <= Len(s)
      <4>1. Len(right) = Len(s) - (k + 1) + 1
        BY <3>1, <3>2
      <4> QED  BY <4>1, <2>3
    <3>3. CASE ~(k + 1 <= Len(s))
      <4>1. Len(right) = 0
        BY <3>1, <3>3
      <4>2. k = Len(s)
        <5>1. Len(s) \in Nat
          BY <1>1
        <5>2. \A m \in Nat : \A j \in 1..m : ~(j + 1 <= m) => j = m
          OBVIOUS
        <5> QED  BY <5>1, <5>2, <3>3, Zenon
      <4>3. Len(s) - k = 0
        BY <1>1, <4>2
      <4> QED  BY <4>1, <4>3
    <3> QED  BY <3>2, <3>3
  <2> QED  BY <2>2, <2>4, <2>5
<1> HIDE DEF left, right
<1> DEFINE rest == left \o right
<1>4. /\ rest \in Seq(Symbols) /\ Len(rest) = Len(s) - 1
      /\ \A i \in 1..(Len(s) - 1) : rest[i] = s[IF i < k THEN i ELSE i + 1]
  <2>1. /\ rest \in Seq(Symbols) /\ Len(rest) = Len(left) + Len(right)
        /\ \A i \in 1..(Len(left) + Len(right)) :
             rest[i] = IF i <= Len(left) THEN left[i] ELSE right[i - Len(left)]
    BY <1>2, <1>3, ConcatProperties
  <2>2. ASSUME NEW i \in 1..(Len(s) - 1) PROVE rest[i] = s[IF i < k THEN i ELSE i + 1]
    <3>1. CASE i < k
      <4>1. i \in 1..(k - 1) /\ i <= Len(left)
        BY <3>1, <1>2
      <4> QED  BY <4>1, <3>1, <2>1, <1>1, <1>2, <1>3
    <3>2. CASE ~(i < k)
      <4>1. i - Len(left) = i - k + 1 /\ i - k + 1 \in 1..(Len(s) - k) /\ ~(i <= Len(left))
            /\ k + (i - k + 1) = i + 1
        BY <3>2, <1>1, <1>2
      <4>2. rest[i] = right[i - k + 1]
        BY <4>1, <2>1, <1>1, <1>2, <1>3
      <4>3. right[i - k + 1] = s[k + (i - k + 1)]
        BY <4>1, <1>3
      <4> QED  BY <4>1, <4>2, <4>3, <3>2
    <3> QED  BY <3>1, <3>2
  <2> QED  BY <2>1, <2>2, <1>1, <1>2, <1>3
<1>5. rest = RemoveAt(s, k)
  BY DEF rest, left, right, RemoveAt
<1> HIDE DEF rest
<1>6. DOMAIN rest = 1..(Len(s) - 1)
  BY <1>4, <1>1
<1> DEFINE old(i) == IF i < k THEN i ELSE i + 1
<1>7. \A i \in 1..(Len(s) - 1) : old(i) \in 1..Len(s) /\ old(i) # k /\ rest[i] = s[old(i)]
  BY <1>1, <1>4
<1>8. \A i, j \in 1..(Len(s) - 1) : old(i) = old(j) => i = j
  BY <1>1
<1>9. \A x, y \in 1..Len(s) : s[x] = s[y] => x = y
  BY <1>1 DEF IsInjective
<1> HIDE DEF old
<1>10. IsInjective(rest)
  BY <1>6, <1>7, <1>8, <1>9 DEF IsInjective
<1>11. \A i \in 1..Len(rest) : rest[i] # s[k]
  BY <1>4, <1>7, <1>9
<1> QED  BY <1>4, <1>5, <1>10, <1>11

\* lruAdd keeps a list of tickers without repeats, no longer than it may be.
LEMMA LruAddProperties ==
  ASSUME NEW lru \in Seq(Symbols), IsInjective(lru), NEW t \in Symbols, NEW room \in Nat, room >= 1
  PROVE  /\ LruAdd(lru, t, room) \in Seq(Symbols)
         /\ IsInjective(LruAdd(lru, t, room))
         /\ Len(LruAdd(lru, t, room)) <= room
<1> DEFINE place == CHOOSE i \in DOMAIN lru : lru[i] = t
           kept == IF t \in ToSet(lru) THEN RemoveAt(lru, place) ELSE lru
           out == Append(kept, t)
<1>1. /\ kept \in Seq(Symbols) /\ IsInjective(kept)
      /\ \A i \in 1..Len(kept) : kept[i] # t
  <2>1. CASE t \in ToSet(lru)
    <3>1. place \in 1..Len(lru) /\ lru[place] = t
      BY <2>1 DEF ToSet
    <3> QED  BY <2>1, <3>1, RemoveAtProperties
  <2>2. CASE t \notin ToSet(lru)
    BY <2>2 DEF ToSet
  <2> QED  BY <2>1, <2>2
<1> HIDE DEF kept
<1>2. /\ out \in Seq(Symbols) /\ Len(out) = Len(kept) + 1
      /\ DOMAIN out = 1..(Len(kept) + 1)
      /\ \A i \in 1..Len(kept) : out[i] = kept[i]
      /\ out[Len(kept) + 1] = t
  BY <1>1, AppendProperties
<1>3. IsInjective(out)
  <2>1. DOMAIN kept = 1..Len(kept) /\ Len(kept) \in Nat
    BY <1>1
  <2> QED  BY <1>1, <1>2, <2>1 DEF IsInjective
<1> HIDE DEF out
<1>4. CASE Len(out) > room
  <2> DEFINE first == Len(out) - room + 1
             last == SubSeq(out, first, Len(out))
  <2>1. first \in 1..Len(out) /\ Len(out) \in Nat /\ first + room - 1 = Len(out) /\ room > 0
    BY <1>2, <1>4
  <2>2. \A i \in first..Len(out) : out[i] \in Symbols
    BY <2>1, <1>2
  <2>3. /\ last \in Seq(Symbols) /\ Len(last) = room
        /\ \A i \in 1..room : last[i] = out[first + i - 1]
    <3>1. /\ last \in Seq(Symbols)
          /\ Len(last) = IF first <= Len(out) THEN Len(out) - first + 1 ELSE 0
          /\ \A i \in 1..(Len(out) - first + 1) : last[i] = out[first + i - 1]
      <4>1. /\ out \in Seq(Symbols) /\ first \in Int /\ Len(out) \in Int
            /\ \A i \in first..Len(out) : out[i] \in Symbols /\ i \in 1..Len(out)
        BY <2>1, <2>2, <1>2
      <4> HIDE DEF first
      <4> QED  BY <4>1, SubSeqProperties
    <3>2. Len(out) - first + 1 = room /\ first <= Len(out)
      BY <2>1
    <3>3. Len(last) = Len(out) - first + 1
      BY <3>1, <3>2
    <3> QED  BY <3>1, <3>2, <3>3
  <2> HIDE DEF last, first
  <2>4. IsInjective(last)
    <3>1. DOMAIN last = 1..room /\ DOMAIN out = 1..Len(out)
      BY <2>3, <1>2
    <3>2. \A i \in 1..room : first + i - 1 \in 1..Len(out)
      BY <2>1
    <3>3. \A x, y \in 1..Len(out) : out[x] = out[y] => x = y
      BY <3>1, <1>3 DEF IsInjective
    <3>4. ASSUME NEW x \in 1..room, NEW y \in 1..room, last[x] = last[y] PROVE x = y
      <4>1. first + x - 1 = first + y - 1
        BY <3>2, <3>3, <3>4, <2>3
      <4> QED  BY <4>1, <2>1
    <3> QED  BY <3>1, <3>4 DEF IsInjective
  <2>5. LruAdd(lru, t, room) =
          IF room > 0 /\ Len(out) > room THEN SubSeq(out, Len(out) - room + 1, Len(out)) ELSE out
    BY Zenon DEF LruAdd, out, kept, place
  <2>6. LruAdd(lru, t, room) = last
    BY <1>4, <2>1, <2>5 DEF last, first
  <2> QED  BY <2>3, <2>4, <2>6
<1>5. CASE ~(Len(out) > room)
  <2>1. LruAdd(lru, t, room) = out
    BY <1>5 DEF LruAdd, out, kept, place
  <2> QED  BY <2>1, <1>2, <1>3, <1>5
<1> QED  BY <1>4, <1>5

\* A list has at least as many places as members.
LEMMA ListIsFinite ==
  ASSUME NEW s \in Seq(Symbols)
  PROVE  IsFiniteSet(ToSet(s)) /\ Cardinality(ToSet(s)) \in Nat /\ Cardinality(ToSet(s)) <= Len(s)
<1>1. s \in Surjection(1..Len(s), ToSet(s))
  BY DEF Surjection, ToSet
<1>2. IsFiniteSet(1..Len(s)) /\ Cardinality(1..Len(s)) = Len(s)
  <2>1. Len(s) \in Nat
    OBVIOUS
  <2> QED  BY <2>1, FS_Interval
<1> QED  BY <1>1, <1>2, FS_Surjection, FS_CardinalityType

-----------------------------------------------------------------------------
(* The types. *)

LEMMA TypeInit == Init => TypeOK
<1> SUFFICES ASSUME Init PROVE TypeOK
  OBVIOUS
<1>1. base \in Seq(Symbols) /\ Len(base) <= MaxSymbols - ViewedSlots
  BY CapBaseType DEF Init
<1>2. viewed \in Seq(Symbols) /\ IsInjective(viewed)
  BY DEF Init, IsInjective
<1>3. owed = 0 /\ nudge = FALSE /\ writer = "off" /\ want = {} /\ subscribed = {} /\ edits = 0 /\ drops = 0
  BY DEF Init
<1>4. edits \in 0..MaxEdits /\ drops \in 0..MaxDrops
  BY <1>3, SlotsType
<1> QED  BY <1>1, <1>2, <1>3, <1>4 DEF TypeOK

LEMMA TypeNext == TypeOK /\ [Next]_vars => TypeOK'
<1> SUFFICES ASSUME TypeOK, [Next]_vars PROVE TypeOK'
  OBVIOUS
<1> USE DEF TypeOK
<1>1. ASSUME NEW t \in Symbols, Subscribe(t) PROVE TypeOK'
  <2>1. MaxSymbols - Len(base) \in Nat
    BY <1>1, SlotsType DEF Subscribe
  <2>2. viewed' \in Seq(Symbols) /\ IsInjective(viewed')
    BY <1>1, <2>1, LruAddProperties DEF Subscribe
  <2> QED  BY <1>1, <2>2, SlotsType DEF Subscribe, wire
<1>2. ASSUME NEW list \in Bases, RefreshBase(list) PROVE TypeOK'
  BY <1>2, CapBaseType, SlotsType DEF RefreshBase, wire
<1>3. CASE Nudge
  BY <1>3 DEF Nudge, wire
<1>4. CASE Run
  <2>1. Desired \subseteq Symbols
    BY DEF Desired, ToSet
  <2> QED  BY <1>4, <2>1
      DEF Run, Connect, Authenticated, Diff, SendUnsubscribe, SendSubscribe, Wake, client
<1>5. CASE EndSession
  <2>1. nudge' \in BOOLEAN
    BY <1>5 DEF EndSession
  <2>2. drops' \in 0..MaxDrops
    BY <1>5, SlotsType DEF EndSession
  <2>3. IsInjective(viewed')
    BY <1>5 DEF EndSession, client
  <2> QED  BY <1>5, <2>1, <2>2, <2>3 DEF EndSession, client
<1>6. CASE UNCHANGED vars
  BY <1>6 DEF vars, client, wire
<1> QED
  BY <1>1, <1>2, <1>3, <1>4, <1>5, <1>6 DEF Next

\* The state has its type: the list of viewed tickers holds none of them twice,
\* and a base leaves the viewed their slots.
THEOREM StreamerTypes == Spec => []TypeOK
BY TypeInit, TypeNext, PTL DEF Spec

-----------------------------------------------------------------------------
(* The cap. *)

\* What a base of lo to hi symbols and the viewed tickers amount to; no sync
\* reads more, and the wire carries no more.
Most(lo, hi) == MaxSymbols + (hi - lo)
CapInv(lo, hi) ==
  /\ Len(base) \in lo..hi
  /\ Len(viewed) <= MaxSymbols - lo
  /\ IsFiniteSet(want) /\ Cardinality(want) <= Most(lo, hi)
  /\ IsFiniteSet(subscribed) /\ Cardinality(subscribed) <= Most(lo, hi)

LEMMA DesiredIsBounded ==
  ASSUME TypeOK, NEW lo \in Nat, NEW hi \in Nat, CapInv(lo, hi)
  PROVE  IsFiniteSet(Desired) /\ Cardinality(Desired) <= Most(lo, hi)
<1> DEFINE all == ToSet(base) \cup ToSet(viewed)
<1>1. /\ IsFiniteSet(ToSet(base)) /\ Cardinality(ToSet(base)) \in Nat /\ Cardinality(ToSet(base)) <= hi
      /\ IsFiniteSet(ToSet(viewed)) /\ Cardinality(ToSet(viewed)) \in Nat
      /\ Cardinality(ToSet(viewed)) <= MaxSymbols - lo
  BY ListIsFinite, SlotsType DEF TypeOK, CapInv
<1>2. IsFiniteSet(all) /\ Cardinality(all) <= Most(lo, hi)
  <2>1. IsFiniteSet(ToSet(base) \cap ToSet(viewed))
    BY <1>1, FS_Subset
  <2>2. Cardinality(ToSet(base) \cap ToSet(viewed)) \in Nat
    BY <2>1, FS_CardinalityType
  <2> QED  BY <1>1, <2>2, FS_Union, SlotsType DEF Most
<1>3. Desired \in SUBSET all
  BY DEF Desired
<1> HIDE DEF all
<1>4. IsFiniteSet(Desired) /\ Cardinality(Desired) <= Cardinality(all)
  BY <1>2, <1>3, FS_Subset
<1>5. Cardinality(Desired) \in Nat /\ Cardinality(all) \in Nat /\ Most(lo, hi) \in Int
  BY <1>2, <1>4, FS_CardinalityType, SlotsType DEF Most
<1> QED  BY <1>2, <1>4, <1>5

LEMMA CapInit ==
  ASSUME NEW lo \in Nat, NEW hi \in Nat, \A b \in Bases : Len(CapBase(b)) \in lo..hi, Init
  PROVE  CapInv(lo, hi)
<1>1. Len(base) \in lo..hi /\ Len(base) <= MaxSymbols
  BY CapBaseType, SlotsType DEF Init
<1>2. Len(viewed) <= MaxSymbols - lo
  BY <1>1, SlotsType DEF Init
<1>3. IsFiniteSet({}) /\ Cardinality({}) <= Most(lo, hi)
  BY <1>1, FS_EmptySet, SlotsType DEF Most
<1> QED  BY <1>1, <1>2, <1>3 DEF Init, CapInv

LEMMA CapNext ==
  ASSUME NEW lo \in Nat, NEW hi \in Nat, \A b \in Bases : Len(CapBase(b)) \in lo..hi,
         TypeOK, CapInv(lo, hi), [Next]_vars
  PROVE  CapInv(lo, hi)'
<1> USE DEF CapInv, Most
<1>1. ASSUME NEW t \in Symbols, Subscribe(t) PROVE CapInv(lo, hi)'
  <2>1. Len(viewed') <= MaxSymbols - Len(base)
    BY <1>1, LruAddProperties, SlotsType DEF Subscribe, TypeOK
  <2>2. Len(viewed') \in Nat
    BY <1>1, LruAddProperties, SlotsType DEF Subscribe, TypeOK
  <2> QED  BY <1>1, <2>1, <2>2, SlotsType DEF Subscribe, wire, TypeOK
<1>2. ASSUME NEW list \in Bases, RefreshBase(list) PROVE CapInv(lo, hi)'
  BY <1>2 DEF RefreshBase, wire
<1>3. CASE Nudge
  BY <1>3 DEF Nudge, wire
<1>4. CASE Connect \/ Authenticated \/ Wake
  BY <1>4 DEF Connect, Authenticated, Wake, client
<1>5. CASE Diff
  BY <1>5, DesiredIsBounded DEF Diff, client
<1>6. CASE SendUnsubscribe
  <2>1. subscribed' \in SUBSET subscribed
    BY <1>6 DEF SendUnsubscribe
  <2>2. /\ IsFiniteSet(subscribed') /\ Cardinality(subscribed') <= Cardinality(subscribed)
        /\ Cardinality(subscribed') \in Nat /\ Cardinality(subscribed) \in Nat
    BY <2>1, FS_Subset, FS_CardinalityType
  <2> QED  BY <1>6, <2>2, SlotsType DEF SendUnsubscribe, client
<1>7. CASE SendSubscribe
  BY <1>7 DEF SendSubscribe, client
<1>8. CASE EndSession
  <2>1. IsFiniteSet({}) /\ Cardinality({}) = 0 /\ lo <= hi
    BY FS_EmptySet
  <2> QED  BY <1>8, <2>1, SlotsType DEF EndSession, client
<1>9. CASE UNCHANGED vars
  BY <1>9 DEF vars, client, wire
<1> QED
  BY <1>1, <1>2, <1>3, <1>4, <1>5, <1>6, <1>7, <1>8, <1>9 DEF Next, Run

\* However the base is refreshed, the wire is over the cap by no more than the
\* longest capped base has over the shortest.
THEOREM OvershootIsTheGrowth ==
  ASSUME NEW lo \in Nat, NEW hi \in Nat, \A b \in Bases : Len(CapBase(b)) \in lo..hi
  PROVE  Spec => [](Cardinality(subscribed) <= MaxSymbols + (hi - lo))
<1>1. Init => CapInv(lo, hi)
  BY CapInit
<1>2. TypeOK /\ CapInv(lo, hi) /\ [Next]_vars => CapInv(lo, hi)'
  BY CapNext
<1>3. CapInv(lo, hi) => Cardinality(subscribed) <= MaxSymbols + (hi - lo)
  BY DEF CapInv, Most
<1> QED  BY <1>1, <1>2, <1>3, StreamerTypes, PTL DEF Spec

\* Bases of one length keep the subscriptions within the cap, also between the
\* two messages of a sync.
THEOREM CapIsKept ==
  ASSUME NEW n \in Nat, \A b \in Bases : Len(CapBase(b)) = n
  PROVE  Spec => []WithinCap
<1>1. Init => CapInv(n, n)
  BY CapInit
<1>2. TypeOK /\ CapInv(n, n) /\ [Next]_vars => CapInv(n, n)'
  BY CapNext
<1>3. CapInv(n, n) => WithinCap
  BY SlotsType DEF CapInv, Most, WithinCap
<1> QED  BY <1>1, <1>2, <1>3, StreamerTypes, PTL DEF Spec

-----------------------------------------------------------------------------
(* The token bucket. *)

\* What the bucket could give out now and what the reference bucket holds
\* never exceed the burst together: a refill gives back only what has leaked.
Balanced == level + Refilled <= max

BucketInv == PacerTypeOK /\ Balanced

\* A burst is worth at least one token, so a full bucket lets a call through.
LEMMA BucketMaxIsWhole == \A b \in Bursts : BucketMax(b) \in Nat /\ BucketMax(b) >= Cost
<1>. TAKE b \in Bursts
<1>1. b \in Nat /\ Cost \in Nat \ {0}
  BY PacerConstants
<1>2. CASE b < 1
  BY <1>1, <1>2 DEF BucketMax
<1>3. CASE ~(b < 1)
  <2>1. BucketMax(b) = b * Cost
    BY <1>3 DEF BucketMax
  <2>2. b * Cost = (b - 1) * Cost + Cost /\ (b - 1) * Cost >= 0 /\ b * Cost \in Nat
    BY <1>1, <1>3
  <2>. QED BY <2>1, <2>2, <1>1
<1>. QED BY <1>2, <1>3

LEMMA RefilledType ==
  ASSUME PacerTypeOK
  PROVE  Refilled \in 0..max
BY DEF PacerTypeOK, Refilled, Smaller

LEMMA BucketInit == PacerInit => BucketInv
<1>. SUFFICES ASSUME PacerInit PROVE BucketInv
  OBVIOUS
<1>1. max \in Nat
  BY BucketMaxIsWhole DEF PacerInit
<1>2. PacerTypeOK
  BY <1>1, PacerConstants DEF PacerInit, PacerTypeOK
<1>3. Balanced
  BY <1>1 DEF PacerInit, Balanced, Refilled, Smaller
<1>. QED BY <1>2, <1>3 DEF BucketInv

LEMMA BucketStep == BucketInv /\ [PacerNext]_pacerVars => BucketInv'
<1>. SUFFICES ASSUME BucketInv, [PacerNext]_pacerVars PROVE BucketInv'
  OBVIOUS
<1>. USE PacerConstants
<1>0. PacerTypeOK /\ Balanced /\ Refilled \in 0..max
  BY RefilledType DEF BucketInv
<1>1. ASSUME NEW w \in Callers, Call(w) PROVE BucketInv'
  BY <1>0, <1>1 DEF Call, BucketInv, PacerTypeOK, Balanced, Refilled
<1>2. ASSUME NEW w \in Callers, TakeToken(w) PROVE BucketInv'
  <2>1. PacerTypeOK'
    BY <1>0, <1>2 DEF TakeToken, PacerTypeOK
  <2>2. Refilled' = Refilled - Cost
    BY <1>0, <1>2 DEF TakeToken, PacerTypeOK, Refilled, Smaller
  <2>3. Balanced'
    BY <1>0, <1>2, <2>2 DEF TakeToken, PacerTypeOK, Balanced
  <2>. QED BY <2>1, <2>3 DEF BucketInv
<1>3. ASSUME NEW w \in Callers, FallAsleep(w) PROVE BucketInv'
  <2>1. PacerTypeOK'
    BY <1>0, <1>3 DEF FallAsleep, PacerTypeOK
  <2>2. Refilled' = Refilled
    BY <1>0, <1>3 DEF FallAsleep, PacerTypeOK, Refilled, Smaller
  <2>3. Balanced'
    BY <1>0, <1>3, <2>2 DEF FallAsleep, PacerTypeOK, Balanced
  <2>. QED BY <2>1, <2>3 DEF BucketInv
<1>4. ASSUME NEW w \in Callers, WakeUp(w) PROVE BucketInv'
  BY <1>0, <1>4 DEF WakeUp, BucketInv, PacerTypeOK, Balanced, Refilled
<1>5. ASSUME NEW w \in Callers, Cancel(w) PROVE BucketInv'
  BY <1>0, <1>5 DEF Cancel, BucketInv, PacerTypeOK, Balanced, Refilled
<1>6. ASSUME PacerTick PROVE BucketInv'
  <2>1. PacerTypeOK'
    BY <1>0, <1>6 DEF PacerTick, PacerTypeOK
  \* What one tick refills, one tick of the reference bucket drains.
  <2>2. Balanced'
    BY <1>0, <1>6 DEF PacerTick, PacerTypeOK, Balanced, Refilled, Smaller
  <2>. QED BY <2>1, <2>2 DEF BucketInv
<1>7. CASE UNCHANGED pacerVars
  BY <1>0, <1>7 DEF pacerVars, BucketInv, PacerTypeOK, Balanced, Refilled
<1>. QED BY <1>1, <1>2, <1>3, <1>4, <1>5, <1>6, <1>7 DEF PacerNext

LEMMA BucketInvariance == PacerSpec => []BucketInv
BY BucketInit, BucketStep, PTL DEF PacerSpec

\* The variables keep their types, and the bucket never overflows or goes below
\* nothing (alpaca/ratelimit.go: wait).
THEOREM PacerTypeCorrect == PacerSpec => []PacerTypeOK
<1>1. BucketInv => PacerTypeOK
  BY DEF BucketInv
<1>. QED BY BucketInvariance, <1>1, PTL

\* Over every stretch of time no more calls are let through than a burst and
\* the refill of the stretch, however many goroutines wait, wake at once or give
\* up (alpaca/ratelimit.go: wait).
THEOREM PacerNeverStorms == PacerSpec => []NeverStorms
<1>1. BucketInv => NeverStorms
  BY RefilledType DEF BucketInv, Balanced, NeverStorms, PacerTypeOK
<1>. QED BY BucketInvariance, <1>1, PTL

-----------------------------------------------------------------------------
(* One price, from the trade to the browsers. *)

\* Who works on a quote has its baseline, ...
HandInv == \A p \in Feed!Publishers : pc[p] # "idle" => hand[p].baseline

\* ... since the feed is read only with the symbol on the wire, and it is put there only after
\* its baseline was asked for, ...
SeedInv ==
  /\ session \in {"adding", "live"} => seed
  /\ inbox # <<>> => session = "live"

\* ... and so has every place it comes to, unless the baseline could not be had.
BaselineInv == seedFailed \/ (HandInv /\ SeedInv /\ Feed!QuotesHaveBaseline)

\* Publish holds the read lock from the first channel to the last.
LockInv ==
  /\ \A p \in Feed!Publishers : pc[p] \notin {"publishing", "publishing first"} => todo[p] = {}
  /\ Feed!NoSendOnClosed

FeedInv == Feed!TypeOK /\ BaselineInv /\ LockInv

LEMMA FeedInit == Feed!FeedAssumption /\ Feed!Init => FeedInv
<1> SUFFICES ASSUME Feed!FeedAssumption, Feed!Init PROVE FeedInv
  OBVIOUS
<1>1. /\ polled \in BOOLEAN /\ wanted \in BOOLEAN /\ seed \in BOOLEAN /\ seedFailed \in BOOLEAN
  BY DEF Feed!Init
<1>2. Feed!NoQuote \in Feed!Quote
  BY DEF Feed!FeedAssumption, Feed!NoQuote, Feed!Quote
<1>3. <<>> \in Seq(1..MaxTrades) /\ <<>> \in Seq(Feed!Quote)
  OBVIOUS
<1>4. Feed!TypeOK
  BY <1>1, <1>2, <1>3 DEF Feed!Init, Feed!TypeOK, Feed!FeedAssumption
<1>5. BaselineInv
  BY DEF Feed!Init, BaselineInv, HandInv, SeedInv, Feed!QuotesHaveBaseline, Feed!NoQuote
<1>6. LockInv
  BY DEF Feed!Init, LockInv, Feed!NoSendOnClosed
<1> QED  BY <1>4, <1>5, <1>6 DEF FeedInv

\* The values a step may give to each variable.
FlagMoves ==
  /\ polled' = polled /\ wanted' \in {wanted, TRUE} /\ seed' \in {seed, TRUE}
  /\ seedFailed' \in {seedFailed, TRUE}
CountMoves ==
  /\ market' = market \/ (market < MaxTrades /\ market' = market + 1)
  /\ faults' = faults \/ (faults < MaxFaults /\ faults' = faults + 1)
PlaceMoves ==
  /\ session' \in {"down", "dialed", "adding", "live"} /\ cooling' \subseteq {"publish", "upsert"}
  /\ pc' \in [Feed!Publishers -> {"idle", "saving", "publishing", "publishing first"}]
  /\ chan' \in [Clients -> {"none", "open", "leaving", "closed"}]
InboxMoves ==
  \/ inbox' = inbox \/ inbox' = <<>>
  \/ inbox # <<>> /\ inbox' = Tail(inbox)
  \/ market < MaxTrades /\ inbox' = Append(inbox, market + 1)
HandMoves ==
  \/ hand' = hand
  \/ /\ inbox # <<>>
     /\ hand' = [hand EXCEPT !["session"] = [at |-> Head(inbox), baseline |-> seed]]
  \/ hand' = [hand EXCEPT !["poller"] = [at |-> market, baseline |-> TRUE]]
  \/ \E p \in Feed!Publishers : \/ hand' = [hand EXCEPT ![p] = Feed!NoQuote]
                                \/ hand' = [hand EXCEPT ![p] = @]
StoredMoves ==
  stored' = stored \/ \E p \in Feed!Publishers : pc[p] = "saving" /\ stored' = hand[p]
TodoMoves ==
  \/ todo' = todo
  \/ \E p \in Feed!Publishers :
       \/ todo' = [todo EXCEPT ![p] = {c \in Clients : chan[c] \in {"open", "leaving"}}]
       \/ \E c \in Clients : todo' = [todo EXCEPT ![p] = @ \ {c}]
BufMoves ==
  \/ buf' = buf
  \/ \E p \in Feed!Publishers, c \in Clients :
       c \in todo[p] /\ buf' = [buf EXCEPT ![c] = Append(@, hand[p])]
  \/ \E c \in Clients : \/ buf[c] # <<>> /\ buf' = [buf EXCEPT ![c] = Tail(@)]
                        \/ buf' = [buf EXCEPT ![c] = <<>>]
SeenMoves ==
  \/ seen' = seen
  \/ \E c \in Clients : \/ buf[c] # <<>> /\ seen' = [seen EXCEPT ![c] = Head(buf[c])]
                        \/ seen' = [seen EXCEPT ![c] = Feed!NoQuote]

LEMMA FeedSteps ==
  ASSUME Feed!TypeOK, [Feed!Next]_(Feed!feedVars)
  PROVE  /\ FlagMoves /\ CountMoves /\ PlaceMoves /\ InboxMoves /\ HandMoves /\ StoredMoves
         /\ TodoMoves /\ BufMoves /\ SeenMoves
<1> USE DEF Feed!wireVars, Feed!pubVars, Feed!hubVars, Feed!feedVars, Feed!Next, Feed!SessionStep,
     Feed!PollerStep, Feed!PublishStep, Feed!Dial, Feed!SyncAdd, Feed!SendSubscribe, Feed!Reseed,
     Feed!SessionEnds, Feed!View, Feed!Trade, Feed!ReadTrade, Feed!CoolOff, Feed!SessionUpsert,
     Feed!Snapshot, Feed!Save, Feed!Offer, Feed!Published, Feed!HubSubscribe, Feed!Deliver,
     Feed!Leave, Feed!Close
<1>1. FlagMoves /\ CountMoves
  BY DEF FlagMoves, CountMoves
<1>2. PlaceMoves
  <2>1. session' \in {"down", "dialed", "adding", "live"} /\ cooling' \subseteq {"publish", "upsert"}
    BY DEF Feed!TypeOK
  <2>2. pc' \in [Feed!Publishers -> {"idle", "saving", "publishing", "publishing first"}]
    BY DEF Feed!TypeOK
  <2>3. chan' \in [Clients -> {"none", "open", "leaving", "closed"}]
    BY DEF Feed!TypeOK
  <2> QED  BY <2>1, <2>2, <2>3 DEF PlaceMoves
<1>3. InboxMoves
  BY DEF InboxMoves
<1>4. HandMoves
  BY DEF HandMoves, Feed!Publishers
<1>5. StoredMoves
  BY DEF StoredMoves, Feed!Publishers
<1>6. TodoMoves
  BY DEF TodoMoves, Feed!Publishers
<1>7. BufMoves
  BY DEF BufMoves
<1>8. SeenMoves
  BY DEF SeenMoves
<1> QED  BY <1>1, <1>2, <1>3, <1>4, <1>5, <1>6, <1>7, <1>8

LEMMA FeedTypes ==
  ASSUME Feed!FeedAssumption, Feed!TypeOK, [Feed!Next]_(Feed!feedVars)
  PROVE  Feed!TypeOK'
<1>0. /\ FlagMoves /\ CountMoves /\ PlaceMoves /\ InboxMoves /\ HandMoves /\ StoredMoves
      /\ TodoMoves /\ BufMoves /\ SeenMoves
  BY FeedSteps
<1>1. /\ polled' \in BOOLEAN /\ wanted' \in BOOLEAN /\ seed' \in BOOLEAN /\ seedFailed' \in BOOLEAN
  BY <1>0 DEF Feed!TypeOK, FlagMoves
<1>2. market \in 0..MaxTrades /\ market' \in 0..MaxTrades /\ faults' \in 0..MaxFaults
  <2>1. market \in 0..MaxTrades /\ faults \in 0..MaxFaults
    BY DEF Feed!TypeOK
  <2> QED  BY <1>0, <2>1 DEF CountMoves, Feed!FeedAssumption
<1>3. Feed!NoQuote \in Feed!Quote
  BY DEF Feed!Quote, Feed!NoQuote, Feed!FeedAssumption
<1>4. inbox' \in Seq(1..MaxTrades)
  <2>1. inbox \in Seq(1..MaxTrades)
    BY DEF Feed!TypeOK
  <2>2. market < MaxTrades => market + 1 \in 1..MaxTrades
    BY <1>2 DEF Feed!FeedAssumption
  <2>3. inbox # <<>> => Tail(inbox) \in Seq(1..MaxTrades)
    BY <2>1, HeadTailProperties
  <2>4. market < MaxTrades => Append(inbox, market + 1) \in Seq(1..MaxTrades)
    BY <2>1, <2>2, AppendProperties
  <2>5. <<>> \in Seq(1..MaxTrades)
    OBVIOUS
  <2> QED  BY <1>0, <2>1, <2>3, <2>4, <2>5 DEF InboxMoves
<1>5. hand' \in [Feed!Publishers -> Feed!Quote]
  <2>1. inbox # <<>> => Head(inbox) \in 1..MaxTrades
    BY HeadTailProperties DEF Feed!TypeOK
  <2>2. seed \in BOOLEAN /\ hand \in [Feed!Publishers -> Feed!Quote]
    BY DEF Feed!TypeOK
  <2>3. /\ inbox # <<>> => [at |-> Head(inbox), baseline |-> seed] \in Feed!Quote
        /\ [at |-> market, baseline |-> TRUE] \in Feed!Quote
    BY <1>2, <2>1, <2>2 DEF Feed!Quote
  <2> QED  BY <1>0, <1>3, <2>2, <2>3 DEF HandMoves
<1>6. stored' \in Feed!Quote
  BY <1>0 DEF Feed!TypeOK, StoredMoves
<1>7. todo' \in [Feed!Publishers -> SUBSET Clients]
  <2>1. todo \in [Feed!Publishers -> SUBSET Clients]
    BY DEF Feed!TypeOK
  <2> QED  BY <1>0, <2>1 DEF TodoMoves
<1>8. buf' \in [Clients -> Seq(Feed!Quote)]
  <2>1. buf \in [Clients -> Seq(Feed!Quote)] /\ hand \in [Feed!Publishers -> Feed!Quote]
    BY DEF Feed!TypeOK
  <2>2. \A p \in Feed!Publishers, c \in Clients : Append(buf[c], hand[p]) \in Seq(Feed!Quote)
    BY <2>1, AppendProperties
  <2>3. \A c \in Clients : buf[c] # <<>> => Tail(buf[c]) \in Seq(Feed!Quote)
    BY <2>1, HeadTailProperties
  <2>4. <<>> \in Seq(Feed!Quote)
    OBVIOUS
  <2> QED  BY <1>0, <2>1, <2>2, <2>3, <2>4 DEF BufMoves
<1>9. seen' \in [Clients -> Feed!Quote]
  <2>1. \A c \in Clients : buf[c] # <<>> => Head(buf[c]) \in Feed!Quote
    BY HeadTailProperties DEF Feed!TypeOK
  <2>2. seen \in [Clients -> Feed!Quote]
    BY DEF Feed!TypeOK
  <2> QED  BY <1>0, <1>3, <2>1, <2>2 DEF SeenMoves
<1>10. PlaceMoves
  BY <1>0
<1> QED
  BY <1>1, <1>2, <1>4, <1>5, <1>6, <1>7, <1>8, <1>9, <1>10 DEF Feed!TypeOK, PlaceMoves

LEMMA FeedLocks ==
  ASSUME Feed!TypeOK, LockInv, [Feed!Next]_(Feed!feedVars)
  PROVE  LockInv'
<1>1. \A p \in Feed!Publishers : pc'[p] \notin {"publishing", "publishing first"} => todo'[p] = {}
  BY DEF LockInv, Feed!TypeOK, Feed!Publishers, Feed!wireVars, Feed!pubVars, Feed!hubVars, Feed!feedVars, Feed!Next, Feed!SessionStep,
     Feed!PollerStep, Feed!PublishStep, Feed!Dial, Feed!SyncAdd, Feed!SendSubscribe, Feed!Reseed,
     Feed!SessionEnds, Feed!View, Feed!Trade, Feed!ReadTrade, Feed!CoolOff, Feed!SessionUpsert,
     Feed!Snapshot, Feed!Save, Feed!Offer, Feed!Published, Feed!HubSubscribe, Feed!Deliver,
     Feed!Leave, Feed!Close
<1>2. \A p \in Feed!Publishers : \A c \in todo'[p] : c \in Clients /\ chan[c] \in {"open", "leaving"}
  <2>1. TodoMoves
    BY FeedSteps
  <2>2. \A p \in Feed!Publishers : \A c \in todo[p] : chan[c] \in {"open", "leaving"}
    BY DEF LockInv, Feed!NoSendOnClosed
  <2>3. todo \in [Feed!Publishers -> SUBSET Clients]
    BY DEF Feed!TypeOK
  <2> QED  BY <2>1, <2>2, <2>3 DEF TodoMoves
<1>3. ASSUME NEW c \in Clients, Feed!Close(c) PROVE Feed!NoSendOnClosed'
  <2>1. \A p \in Feed!Publishers : todo[p] = {}
    BY <1>3 DEF Feed!Close, Feed!ReadLocked, LockInv
  <2>2. todo' = todo
    BY <1>3 DEF Feed!Close, Feed!pubVars
  <2> QED  BY <2>1, <2>2 DEF Feed!NoSendOnClosed
<1>4. ASSUME ~(\E c \in Clients : Feed!Close(c)) PROVE Feed!NoSendOnClosed'
  <2>1. \A c \in Clients : chan[c] \in {"open", "leaving"} => chan'[c] \in {"open", "leaving"}
    BY <1>4 DEF Feed!TypeOK, Feed!wireVars, Feed!pubVars, Feed!hubVars, Feed!feedVars, Feed!Next,
       Feed!SessionStep, Feed!PollerStep, Feed!PublishStep, Feed!Dial, Feed!SyncAdd,
       Feed!SendSubscribe, Feed!SessionEnds, Feed!View, Feed!Trade, Feed!ReadTrade, Feed!CoolOff,
       Feed!SessionUpsert, Feed!Snapshot, Feed!Save, Feed!Offer, Feed!Published,
       Feed!HubSubscribe, Feed!Deliver, Feed!Leave
  <2> QED  BY <1>2, <2>1 DEF Feed!NoSendOnClosed
<1> QED  BY <1>1, <1>3, <1>4 DEF LockInv

LEMMA FeedBaselines ==
  ASSUME Feed!TypeOK, LockInv, BaselineInv, [Feed!Next]_(Feed!feedVars)
  PROVE  BaselineInv'
<1>0. SUFFICES ASSUME ~seedFailed, ~seedFailed'
               PROVE  (HandInv /\ SeedInv /\ Feed!QuotesHaveBaseline)'
  BY FeedSteps DEF BaselineInv, FlagMoves, Feed!TypeOK
<1>1. HandInv /\ SeedInv /\ Feed!QuotesHaveBaseline
  BY <1>0 DEF BaselineInv
<1>2. SeedInv'
  BY <1>0, <1>1 DEF SeedInv, Feed!wireVars, Feed!pubVars, Feed!hubVars, Feed!feedVars, Feed!Next, Feed!SessionStep,
     Feed!PollerStep, Feed!PublishStep, Feed!Dial, Feed!SyncAdd, Feed!SendSubscribe, Feed!Reseed,
     Feed!SessionEnds, Feed!View, Feed!Trade, Feed!ReadTrade, Feed!CoolOff, Feed!SessionUpsert,
     Feed!Snapshot, Feed!Save, Feed!Offer, Feed!Published, Feed!HubSubscribe, Feed!Deliver,
     Feed!Leave, Feed!Close
<1>3. \A p \in Feed!Publishers : pc'[p] # "idle" => hand'[p].baseline
  <2> SUFFICES ASSUME NEW p \in Feed!Publishers, pc'[p] # "idle" PROVE hand'[p].baseline
    OBVIOUS
  <2>0. pc[p] # "idle" => hand[p].baseline
    BY <1>1 DEF HandInv
  <2>1. CASE pc[p] # "idle" /\ hand'[p] = hand[p]
    BY <2>0, <2>1
  <2>2. ASSUME Feed!ReadTrade, hand'[p] # hand[p] \/ pc[p] = "idle" PROVE hand'[p].baseline
    <3>1. p = "session" /\ hand'[p] = [at |-> Head(inbox), baseline |-> seed]
      BY <2>2 DEF Feed!ReadTrade, Feed!TypeOK, Feed!Publishers
    <3>2. seed
      BY <1>1, <2>2 DEF Feed!ReadTrade, SeedInv
    <3> QED  BY <3>1, <3>2
  <2>3. ASSUME Feed!Snapshot, hand'[p] # hand[p] \/ pc[p] = "idle" PROVE hand'[p].baseline
    <3>1. hand'[p] = [at |-> market, baseline |-> TRUE]
      BY <2>3 DEF Feed!Snapshot, Feed!TypeOK, Feed!Publishers
    <3> QED  BY <3>1
  <2>4. ASSUME ~Feed!ReadTrade, ~Feed!Snapshot PROVE pc[p] # "idle" /\ hand'[p] = hand[p]
    BY <2>4 DEF Feed!TypeOK, Feed!Publishers, Feed!wireVars, Feed!pubVars, Feed!hubVars,
       Feed!feedVars, Feed!Next, Feed!SessionStep, Feed!PollerStep, Feed!PublishStep, Feed!Dial,
       Feed!SyncAdd, Feed!SendSubscribe, Feed!SessionEnds, Feed!View, Feed!Trade, Feed!CoolOff,
       Feed!SessionUpsert, Feed!Save, Feed!Offer, Feed!Published, Feed!HubSubscribe,
       Feed!Deliver, Feed!Leave, Feed!Close
  <2> QED  BY <2>1, <2>2, <2>3, <2>4
<1>4. HandInv'
  BY <1>3 DEF HandInv
<1>5. stored'.at = 0 \/ stored'.baseline
  <2>1. stored.at = 0 \/ stored.baseline
    BY <1>0, <1>1 DEF Feed!QuotesHaveBaseline
  <2>2. \A p \in Feed!Publishers : pc[p] = "saving" => hand[p].baseline
    BY <1>1 DEF HandInv
  <2> QED  BY <2>1, <2>2, FeedSteps DEF StoredMoves
<1>6. ASSUME NEW c \in Clients, NEW i \in DOMAIN buf'[c] PROVE buf'[c][i].baseline
  <2>1. \A d \in Clients : \A j \in DOMAIN buf[d] : buf[d][j].baseline
    BY <1>0, <1>1 DEF Feed!QuotesHaveBaseline
  <2>2. buf \in [Clients -> Seq(Feed!Quote)] /\ hand \in [Feed!Publishers -> Feed!Quote]
    BY DEF Feed!TypeOK
  <2>3. BufMoves
    BY FeedSteps
  <2>4. CASE buf'[c] = buf[c]
    BY <1>6, <2>1, <2>4
  <2>5. CASE buf'[c] = <<>>
    BY <1>6, <2>5
  <2>6. CASE buf[c] # <<>> /\ buf'[c] = Tail(buf[c])
    <3>1. i + 1 \in DOMAIN buf[c] /\ buf'[c][i] = buf[c][i + 1]
      BY <1>6, <2>2, <2>6, HeadTailProperties
    <3> QED  BY <2>1, <3>1
  <2>7. ASSUME NEW p \in Feed!Publishers, c \in todo[p], buf'[c] = Append(buf[c], hand[p])
        PROVE  buf'[c][i].baseline
    <3>1. hand[p].baseline
      BY <1>1, <2>7 DEF LockInv, HandInv
    <3>2. CASE i = Len(buf[c]) + 1
      BY <2>2, <2>7, <3>1, <3>2, AppendProperties
    <3>3. CASE i \in DOMAIN buf[c]
      <4>1. buf'[c][i] = buf[c][i]
        BY <2>2, <2>7, <3>3, AppendProperties
      <4> QED  BY <2>1, <3>3, <4>1
    <3>4. i = Len(buf[c]) + 1 \/ i \in DOMAIN buf[c]
      <4>1. buf[c] \in Seq(Feed!Quote) /\ hand[p] \in Feed!Quote
        BY <2>2
      <4>2. Len(buf'[c]) = Len(buf[c]) + 1 /\ DOMAIN buf'[c] = 1..Len(buf'[c])
        BY <2>7, <4>1, AppendProperties
      <4>3. DOMAIN buf[c] = 1..Len(buf[c]) /\ Len(buf[c]) \in Nat
        BY <4>1
      <4> QED  BY <1>6, <4>2, <4>3
    <3> QED  BY <3>2, <3>3, <3>4
  <2>8. \/ buf'[c] = buf[c] \/ buf'[c] = <<>>
        \/ buf[c] # <<>> /\ buf'[c] = Tail(buf[c])
        \/ \E p \in Feed!Publishers : c \in todo[p] /\ buf'[c] = Append(buf[c], hand[p])
    BY <2>2, <2>3 DEF BufMoves
  <2> QED  BY <2>4, <2>5, <2>6, <2>7, <2>8
<1>7. ASSUME NEW c \in Clients PROVE seen'[c].at = 0 \/ seen'[c].baseline
  <2>1. /\ \A j \in DOMAIN buf[c] : buf[c][j].baseline
        /\ seen[c].at = 0 \/ seen[c].baseline
    BY <1>0, <1>1 DEF Feed!QuotesHaveBaseline
  <2>2. buf[c] \in Seq(Feed!Quote) /\ seen \in [Clients -> Feed!Quote]
    BY DEF Feed!TypeOK
  <2>3. buf[c] # <<>> => Head(buf[c]).baseline
    <3>1. buf[c] # <<>> => 1 \in DOMAIN buf[c] /\ Head(buf[c]) = buf[c][1]
      BY <2>2
    <3> QED  BY <2>1, <3>1
  <2>4. \/ seen'[c] = seen[c] \/ seen'[c] = Feed!NoQuote
        \/ buf[c] # <<>> /\ seen'[c] = Head(buf[c])
    BY <2>2, FeedSteps DEF SeenMoves
  <2> QED  BY <2>1, <2>3, <2>4 DEF Feed!NoQuote
<1>8. Feed!QuotesHaveBaseline'
  BY <1>5, <1>6, <1>7 DEF Feed!QuotesHaveBaseline
<1> QED  BY <1>2, <1>4, <1>8

LEMMA FeedInvariant == ASSUME Feed!FeedAssumption PROVE Feed!Spec => []FeedInv
<1>1. Feed!Init => FeedInv
  BY FeedInit
<1>2. FeedInv /\ [Feed!Next]_(Feed!feedVars) => FeedInv'
  BY FeedTypes, FeedLocks, FeedBaselines DEF FeedInv
<1> QED  BY <1>1, <1>2, PTL DEF Feed!Spec

\* The way of a price is well typed, ...
THEOREM PriceTypes == ASSUME Feed!FeedAssumption PROVE Feed!Spec => []Feed!TypeOK
<1>1. FeedInv => Feed!TypeOK
  BY DEF FeedInv
<1> QED  BY <1>1, FeedInvariant, PTL

\* ... no quote is offered to a channel that was closed, and every quote in the table, in a
\* channel and on a browser has the previous close it is compared with unless a REST call for
\* it failed.
THEOREM StreamedQuotesAreSound == ASSUME Feed!FeedAssumption PROVE Feed!Spec => []Feed!StreamIsSound
<1>1. FeedInv => Feed!StreamIsSound
  BY DEF FeedInv, LockInv, BaselineInv, Feed!StreamIsSound, Feed!QuotesHaveBaseline
<1> QED  BY <1>1, FeedInvariant, PTL

-----------------------------------------------------------------------------
(* The caches that fetch on demand. *)

\* Only the caches that fly together have a fetch in flight, one reader fetches for it, and
\* the others wait.
FetchInv ==
  /\ inflight => kind \in Reads!Flighted
  /\ \A r \in Readers : reader[r] = "waiting" => inflight
  /\ kind \in Reads!Flighted /\ ~inflight => \A r \in Readers : reader[r] # "fetching"
  /\ inflight => \E r \in Readers :
       reader[r] = "fetching" /\ \A s \in Readers : reader[s] = "fetching" => s = r

ReadsInv == Reads!TypeOK /\ FetchInv

LEMMA LongestType == Reads!ReadsAssumption => Reads!Longest \in Nat
BY DEF Reads!ReadsAssumption, Reads!Longest

LEMMA ReadsInit == Reads!ReadsAssumption /\ Reads!Init => ReadsInv
<1> SUFFICES ASSUME Reads!ReadsAssumption, Reads!Init PROVE ReadsInv
  OBVIOUS
<1>1. inflight \in BOOLEAN /\ upstream \in BOOLEAN
  BY DEF Reads!Init
<1>2. Reads!TypeOK
  BY <1>1, LongestType DEF Reads!ReadsAssumption, Reads!Init, Reads!TypeOK
<1>3. FetchInv
  BY DEF Reads!Init, FetchInv
<1> QED  BY <1>2, <1>3 DEF ReadsInv

\* The end of a fetch: its reader is answered, and all that waited are woken.
LEMMA FetchEnds ==
  ASSUME Reads!ReadsAssumption, ReadsInv, NEW r \in Readers, NEW what \in {"good", "failed"},
         reader[r] = "fetching", Reads!Finished(r, what),
         kind' = kind, upstream' \in BOOLEAN, quits' \in 0..MaxQuits
  PROVE  ReadsInv'
<1>0. Reads!TypeOK /\ FetchInv
  BY DEF ReadsInv
<1>1. /\ entry' \in {"none", "good", "failed"} /\ age' \in 0..Reads!Longest
      /\ inflight' = FALSE
  BY <1>0, LongestType DEF Reads!Finished, Reads!Keep, Reads!TypeOK
<1>2. reader' \in [Readers -> {"out", "fetching", "waiting", "woken", "answered"}]
  BY <1>0 DEF Reads!Finished, Reads!TypeOK
<1>3. given' \in [Readers -> {"nothing", "good", "failed"}]
  BY <1>0 DEF Reads!Finished, Reads!TypeOK
<1>4. Reads!TypeOK'
  BY <1>0, <1>1, <1>2, <1>3 DEF Reads!TypeOK
<1>5. \A s \in Readers : /\ reader'[s] # "waiting"
                         /\ reader'[s] = "fetching" => reader[s] = "fetching" /\ s # r
  BY <1>0 DEF Reads!Finished, Reads!TypeOK
<1>6. kind \in Reads!Flighted => \A s \in Readers : reader[s] = "fetching" => s = r
  BY <1>0 DEF FetchInv
<1>7. FetchInv'
  BY <1>1, <1>5, <1>6 DEF FetchInv
<1> QED  BY <1>4, <1>7 DEF ReadsInv

LEMMA ReadsNext ==
  ASSUME Reads!ReadsAssumption, ReadsInv, [Reads!Next]_(Reads!readVars)
  PROVE  ReadsInv'
<1>0. Reads!TypeOK /\ FetchInv
  BY DEF ReadsInv
<1>1. ASSUME NEW r \in Readers, Reads!Ask(r) PROVE ReadsInv'
  <2>1. CASE entry # "none" /\ Reads!Answer(r, entry) /\ UNCHANGED inflight
    <3>1. /\ reader[r] # "fetching"
          /\ reader' = [reader EXCEPT ![r] = "answered"] /\ given' = [given EXCEPT ![r] = entry]
          /\ UNCHANGED <<kind, entry, age, upstream, quits, inflight>>
      BY <1>1, <2>1 DEF Reads!Ask, Reads!Answer
    <3>2. Reads!TypeOK'
      BY <1>0, <2>1, <3>1 DEF Reads!TypeOK
    <3>3. FetchInv'
      BY <1>0, <3>1 DEF Reads!TypeOK, FetchInv
    <3> QED  BY <3>2, <3>3 DEF ReadsInv
  <2>2. CASE /\ reader' = [reader EXCEPT ![r] = IF inflight THEN "waiting" ELSE "fetching"]
             /\ given' = [given EXCEPT ![r] = "nothing"]
             /\ inflight' = (kind \in Reads!Flighted)
    <3>1. reader[r] # "fetching" /\ UNCHANGED <<kind, entry, age, upstream, quits>>
      BY <1>1 DEF Reads!Ask
    <3>2. inflight' \in BOOLEAN
      BY <2>2
    <3>3. Reads!TypeOK'
      BY <1>0, <2>2, <3>1, <3>2 DEF Reads!TypeOK
    <3>4. FetchInv'
      <4>1. \A s \in Readers : reader'[s] = IF s # r THEN reader[s]
                                            ELSE IF inflight THEN "waiting" ELSE "fetching"
        BY <1>0, <2>2 DEF Reads!TypeOK
      <4>2. kind' = kind /\ (inflight' <=> kind \in Reads!Flighted)
        BY <2>2, <3>1
      <4>3. CASE inflight
        <5>1. \A s \in Readers : reader'[s] = "fetching" <=> reader[s] = "fetching"
          BY <3>1, <4>1, <4>3
        <5>2. inflight' /\ kind' \in Reads!Flighted
          BY <1>0, <4>2, <4>3 DEF FetchInv
        <5> QED  BY <1>0, <4>3, <5>1, <5>2 DEF FetchInv
      <4>4. CASE ~inflight
        <5>1. \A s \in Readers : reader'[s] = IF s = r THEN "fetching" ELSE reader[s]
          BY <4>1, <4>4
        <5>2. \A s \in Readers : reader'[s] # "waiting"
          BY <1>0, <4>4, <5>1 DEF FetchInv
        <5>3. kind \in Reads!Flighted => \A s \in Readers : reader'[s] = "fetching" <=> s = r
          BY <1>0, <4>4, <5>1 DEF FetchInv
        <5> QED  BY <4>2, <5>2, <5>3 DEF FetchInv
      <4> QED  BY <4>3, <4>4
    <3> QED  BY <3>3, <3>4 DEF ReadsInv
  <2> QED  BY <1>1, <2>1, <2>2 DEF Reads!Ask
<1>2. ASSUME NEW r \in Readers, Reads!Fetched(r) PROVE ReadsInv'
  <2>1. PICK what \in {"good", "failed"} : Reads!Finished(r, what)
    BY <1>2 DEF Reads!Fetched
  <2>2. reader[r] = "fetching" /\ kind' = kind /\ upstream' \in BOOLEAN /\ quits' \in 0..MaxQuits
    BY <1>0, <1>2 DEF Reads!Fetched, Reads!TypeOK
  <2> QED  BY <2>1, <2>2, FetchEnds
<1>3. ASSUME NEW r \in Readers, Reads!FetcherQuits(r) PROVE ReadsInv'
  <2>1. /\ Reads!Finished(r, "failed") /\ reader[r] = "fetching" /\ kind' = kind
        /\ upstream' = upstream
    BY <1>3 DEF Reads!FetcherQuits
  <2>2. quits' \in 0..MaxQuits
    BY <1>0, <1>3 DEF Reads!FetcherQuits, Reads!TypeOK, Reads!ReadsAssumption
  <2>3. upstream' \in BOOLEAN
    BY <1>0, <2>1 DEF Reads!TypeOK
  <2> QED  BY <2>1, <2>2, <2>3, FetchEnds
<1>4. ASSUME NEW r \in Readers, Reads!Wake(r) \/ Reads!WaiterQuits(r) PROVE ReadsInv'
  <2>1. /\ reader[r] # "fetching" /\ reader' = [reader EXCEPT ![r] = "answered"]
        /\ UNCHANGED <<kind, entry, age, inflight, upstream>>
    BY <1>4 DEF Reads!Wake, Reads!WaiterQuits, Reads!Answer
  <2>2. given' \in [Readers -> {"nothing", "good", "failed"}] /\ quits' \in 0..MaxQuits
    BY <1>0, <1>4 DEF Reads!Wake, Reads!WaiterQuits, Reads!Answer, Reads!TypeOK, Reads!ReadsAssumption
  <2>3. Reads!TypeOK'
    BY <1>0, <2>1, <2>2 DEF Reads!TypeOK
  <2>4. FetchInv'
    BY <1>0, <2>1 DEF Reads!TypeOK, FetchInv
  <2> QED  BY <2>3, <2>4 DEF ReadsInv
<1>5. CASE Reads!Warm \/ Reads!Tick \/ Reads!Outage \/ UNCHANGED Reads!readVars
  <2>1. UNCHANGED <<kind, inflight, reader, given, quits>>
    BY <1>5 DEF Reads!Warm, Reads!Tick, Reads!Outage, Reads!readVars
  <2>2. entry' \in {"none", "good", "failed"} /\ age' \in 0..Reads!Longest
    BY <1>0, <1>5, LongestType
      DEF Reads!Warm, Reads!Tick, Reads!Outage, Reads!readVars, Reads!TypeOK
  <2>3. upstream' \in BOOLEAN
    BY <1>0, <1>5 DEF Reads!Warm, Reads!Tick, Reads!Outage, Reads!readVars, Reads!TypeOK
  <2>4. Reads!TypeOK'
    BY <1>0, <2>1, <2>2, <2>3 DEF Reads!TypeOK
  <2> QED  BY <1>0, <2>1, <2>4 DEF FetchInv, ReadsInv
<1> QED
  BY <1>1, <1>2, <1>3, <1>4, <1>5 DEF Reads!Next

LEMMA FetchCount ==
  ASSUME ReadsInv
  PROVE  Reads!OneFetch
<1> DEFINE S == {r \in Readers : reader[r] = "fetching"}
<1>0. FetchInv
  BY DEF ReadsInv
<1>1. ASSUME kind \in Reads!Flighted, inflight PROVE Cardinality(S) = 1
  <2>1. PICK r \in Readers : S = {r}
    BY <1>0, <1>1 DEF FetchInv
  <2> QED  BY <2>1, FS_Singleton
<1>2. ASSUME kind \in Reads!Flighted, ~inflight PROVE Cardinality(S) = 0
  <2>1. S = {}
    BY <1>0, <1>2 DEF FetchInv
  <2> QED  BY <2>1, FS_EmptySet
<1>3. Reads!Cardinality(S) = Cardinality(S)
  BY DEF Reads!Cardinality, Cardinality
<1> QED  BY <1>0, <1>1, <1>2, <1>3 DEF Reads!OneFetch, FetchInv

\* The caches that fetch on demand are well typed, ...
THEOREM ReadsTypes == ASSUME Reads!ReadsAssumption PROVE Reads!Spec => []Reads!TypeOK
<1>1. ReadsInv => Reads!TypeOK
  BY DEF ReadsInv
<1> QED  BY ReadsInit, ReadsNext, <1>1, PTL DEF Reads!Spec

\* ... and a ticker is fetched by exactly one reader while a fetch is in flight, so none waits
\* for a call that nobody will finish.
THEOREM ReadsFetchOnce == ASSUME Reads!ReadsAssumption PROVE Reads!Spec => []Reads!OneFetch
BY ReadsInit, ReadsNext, FetchCount, PTL DEF Reads!Spec

-----------------------------------------------------------------------------
(* KeyCache. *)

\* The keys the issuer has published so far.
Published == 1..current

KeysInv ==
  /\ current \in Auth!Kids /\ stale \in BOOLEAN /\ misses \in 0..MaxFaults
  /\ at \in [Requests -> {"idle", "look", "fetch", "store", "again"}]
  /\ refused \in [Requests -> BOOLEAN]
  /\ keys \subseteq Published
  /\ kid \in [Requests -> {0} \cup Published] /\ answer \in [Requests -> SUBSET Published]

LEMMA KeysInit == Auth!KeysAssumption /\ Auth!Init => KeysInv
BY DEF Auth!KeysAssumption, Auth!Init, Auth!Kids, KeysInv, Published

LEMMA KeysNext ==
  ASSUME Auth!KeysAssumption, KeysInv, [Auth!Next]_Auth!keyVars
  PROVE  KeysInv'
<1> USE DEF KeysInv
<1>0. current \in Nat /\ current \in Published /\ MaxKey \in Nat /\ MaxFaults \in Nat
  BY DEF Auth!KeysAssumption, Auth!Kids, Published
<1>1. CASE Auth!Rotate
  <2>1. /\ current' = current + 1 /\ current' \in Auth!Kids
        /\ UNCHANGED <<keys, stale, at, kid, answer, misses, refused>>
    BY <1>0, <1>1 DEF Auth!Rotate, Auth!Kids
  <2>2. Published \subseteq Published'
    BY <1>0, <2>1 DEF Published
  <2> QED  BY <2>1, <2>2
<1>2. CASE Auth!Expire \/ UNCHANGED Auth!keyVars
  <2>1. stale' \in BOOLEAN /\ UNCHANGED <<current, keys, at, kid, answer, misses, refused>>
    BY <1>2 DEF Auth!Expire, Auth!keyVars
  <2> QED  BY <2>1 DEF Published
<1>3. ASSUME NEW r \in Requests, Auth!Arrive(r) PROVE KeysInv'
  BY <1>0, <1>3 DEF Auth!Arrive, Published
<1>4. ASSUME NEW r \in Requests, Auth!Look(r) PROVE KeysInv'
  <2>1. /\ UNCHANGED <<current, keys, stale, kid, answer, misses>>
        /\ at' \in [Requests -> {"idle", "look", "fetch", "store", "again"}]
        /\ refused' \in [Requests -> BOOLEAN]
    BY <1>4 DEF Auth!Look, Auth!Finish
  <2> QED  BY <2>1 DEF Published
<1>5. ASSUME NEW r \in Requests, Auth!Fetch(r) PROVE KeysInv'
  <2>1. UNCHANGED <<current, keys, stale, kid>>
    BY <1>5 DEF Auth!Fetch
  <2>2. /\ at' \in [Requests -> {"idle", "look", "fetch", "store", "again"}]
        /\ refused' \in [Requests -> BOOLEAN]
    BY <1>5 DEF Auth!Fetch, Auth!Finish
  <2>3. misses' \in 0..MaxFaults
    <3>1. \/ misses' = misses
          \/ misses < MaxFaults /\ misses' = misses + 1
      BY <1>5 DEF Auth!Fetch
    <3> QED  BY <3>1, <1>0
  <2>4. answer' \in [Requests -> SUBSET Published]
    <3>1. \/ answer' = answer
          \/ answer' = [answer EXCEPT ![r] = {current}]
      BY <1>5 DEF Auth!Fetch
    <3>2. {current} \in SUBSET Published
      BY <1>0
    <3> QED  BY <3>1, <3>2
  <2> QED  BY <2>1, <2>2, <2>3, <2>4 DEF Published
<1>6. ASSUME NEW r \in Requests, Auth!Store(r) PROVE KeysInv'
  <2>1. /\ UNCHANGED <<current, kid, misses, refused>> /\ stale' \in BOOLEAN
        /\ keys' \subseteq Published
    BY <1>6 DEF Auth!Store
  <2>2. /\ at' \in [Requests -> {"idle", "look", "fetch", "store", "again"}]
        /\ answer' \in [Requests -> SUBSET Published]
    BY <1>6 DEF Auth!Store
  <2> QED  BY <2>1, <2>2 DEF Published
<1>7. ASSUME NEW r \in Requests, Auth!LookAgain(r) PROVE KeysInv'
  <2>1. /\ UNCHANGED <<current, keys, stale, kid, answer, misses>>
        /\ at' \in [Requests -> {"idle", "look", "fetch", "store", "again"}]
        /\ refused' \in [Requests -> BOOLEAN]
    BY <1>7 DEF Auth!LookAgain, Auth!Finish
  <2> QED  BY <2>1 DEF Published
<1> QED  BY <1>1, <1>2, <1>3, <1>4, <1>5, <1>6, <1>7 DEF Auth!Next, Auth!Serve

\* The key cache is well typed: no key but one the issuer has published by now is held, was
\* fetched or is named by a token, however late an answer is stored.
THEOREM KeysTypes == ASSUME Auth!KeysAssumption PROVE Auth!Spec => []Auth!TypeOK
<1>1. Auth!KeysAssumption /\ KeysInv => Auth!TypeOK
  <2> SUFFICES ASSUME Auth!KeysAssumption, KeysInv PROVE Auth!TypeOK
    OBVIOUS
  <2>1. Published \subseteq Auth!Kids /\ {0} \cup Published \subseteq 0..MaxKey
    BY DEF Published, KeysInv, Auth!Kids, Auth!KeysAssumption
  <2> QED  BY <2>1 DEF KeysInv, Auth!TypeOK
<1> QED  BY KeysInit, KeysNext, <1>1, PTL DEF Auth!Spec
=============================================================================
