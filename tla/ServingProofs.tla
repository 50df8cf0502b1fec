---------------------------- MODULE ServingProofs ----------------------------
(***************************************************************************)
(* Proofs about what stands before and behind a request.                   *)
(*                                                                         *)
(* RateLimit, for any capacity, rate, idle time and lag that satisfy       *)
(* RefillsBeforeEviction: the limit holds over every window, and nobody    *)
(* who keeps to it is turned away.                                         *)
(*                                                                         *)
(* Comments, for any connections, bodies and users: however the            *)
(* transactions interleave, roll back or die, the comment is listed under  *)
(* what its body cashtags, a deleted one is what it was when it was        *)
(* deleted, and a like is a toggle.                                        *)
(*                                                                         *)
(* Corpus, for any news and any retention: once the hot list was saved, an *)
(* item of a ticker that stays on it is not pruned before its time.        *)
(***************************************************************************)
EXTENDS RateLimit, Comments, TLAPS

CONSTANTS News, Lookback, Days, HotDays, PerTicker, Batch, MaxDay, MaxFaults  \* Corpus
VARIABLES
  day, published, trending, row, board, pc, hand, batch, answered, stubborn, pass, booted,
  faults, listed, early, cold                                                \* Corpus

Corp == INSTANCE Corpus

\* The history never decreases and is filled up to the last tick.
HistoryInv ==
  \A ip \in IPs :
    /\ \A s, t \in Time : s <= t => admitted[ip][s] <= admitted[ip][t]
    /\ \A t \in Time : now <= t => admitted[ip][t] = admitted[ip][now]

\* What was admitted since s and what is left in the bucket came out of a burst
\* and the refill between s and the last refill.
TrackedInv ==
  \A ip \in IPs : \A s \in 0..now :
    buckets[ip] # None /\ Since(ip, s) > 0 =>
      Since(ip, s) * Cost + buckets[ip].tokens <= Cap + (buckets[ip].last - s) + MaxLag

\* A client that is forgotten has had the time to refill.
ForgottenInv ==
  \A ip \in IPs : \A s \in 0..now :
    buckets[ip] = None /\ Since(ip, s) > 0 => Since(ip, s) * Cost <= now - s

LastInv == \A ip \in IPs : buckets[ip] # None => buckets[ip].last <= now

\* The inductive invariant: WindowBound only speaks of what was admitted, so it
\* needs what the bucket, or its absence, still allows.
IInv == TypeOK /\ HistoryInv /\ TrackedInv /\ ForgottenInv /\ LastInv

-----------------------------------------------------------------------------
LEMMA CapType == Cap \in Nat /\ Cost <= Cap
<1>1. \A m, n \in Nat \ {0} : m * n \in Nat /\ n <= m * n
  OBVIOUS
<1> QED  BY <1>1, ConfigType DEF Cap

LEMMA OneMore == \A k \in Int : (k + 1) * Cost = k * Cost + Cost /\ k * Cost \in Int
BY ConfigType

LEMMA SinceType ==
  ASSUME TypeOK, HistoryInv, NEW ip \in IPs, NEW s \in 0..now
  PROVE  Since(ip, s) \in Nat
<1>1. now \in Time /\ s \in Time /\ (s # 0 => s - 1 \in Time)
  BY ConfigType DEF TypeOK, Time
<1>2. admitted[ip][now] \in Nat /\ (s # 0 => admitted[ip][s - 1] \in Nat)
  BY <1>1 DEF TypeOK
<1>3. s # 0 => admitted[ip][s - 1] <= admitted[ip][now]
  BY <1>1 DEF HistoryInv, Time
<1> QED  BY <1>2, <1>3 DEF Since

\* IInv bounds every window.
LEMMA InvBound == IInv => WindowBound
<1> SUFFICES ASSUME IInv, NEW ip \in IPs, NEW s \in 0..now
             PROVE  Since(ip, s) * Cost <= Cap + (now - s) + MaxLag
  BY DEF WindowBound
<1>1. Since(ip, s) \in Nat
  BY SinceType DEF IInv
<1>2. now \in Nat /\ s \in Nat /\ s <= now /\ Cap \in Nat /\ MaxLag \in Nat
  BY CapType, ConfigType DEF IInv, TypeOK, Time
<1>3. CASE Since(ip, s) = 0
  BY <1>2, <1>3, ConfigType
<1>4. CASE Since(ip, s) > 0 /\ buckets[ip] = None
  <2>1. Since(ip, s) * Cost <= now - s /\ Since(ip, s) * Cost \in Int
    BY <1>1, <1>4, OneMore DEF IInv, ForgottenInv
  <2> QED  BY <1>2, <2>1
<1>5. CASE Since(ip, s) > 0 /\ buckets[ip] # None
  <2>1. buckets[ip].tokens \in Nat /\ buckets[ip].last \in Nat /\ buckets[ip].last <= now
    BY <1>5, CapType DEF IInv, TypeOK, LastInv, Bucket, Time
  <2>2. Since(ip, s) * Cost + buckets[ip].tokens <= Cap + (buckets[ip].last - s) + MaxLag
    BY <1>5 DEF IInv, TrackedInv
  <2>3. Since(ip, s) * Cost \in Int
    BY <1>1, OneMore
  <2> QED  BY <1>2, <2>1, <2>2, <2>3
<1> QED  BY <1>1, <1>3, <1>4, <1>5

-----------------------------------------------------------------------------
(* The effect of the steps on what was admitted. *)

\* An admission counts once in every window that ends now.
LEMMA AdmitSince ==
  ASSUME TypeOK, HistoryInv, NEW ip \in IPs, Admit(ip), now' = now
  PROVE  /\ admitted' \in [IPs -> [Time -> Nat]]
         /\ HistoryInv'
         /\ \A q \in IPs : \A s \in 0..now :
              Since(q, s)' = IF q = ip THEN Since(q, s) + 1 ELSE Since(q, s)
<1>1. now \in Time /\ \A s \in 0..now : s \in Time /\ (s # 0 => s - 1 \in Time /\ s - 1 < now)
  BY ConfigType DEF TypeOK, Time
<1>2. \A q \in IPs, t \in Time :
        admitted'[q][t] = IF q = ip /\ t >= now THEN admitted[q][t] + 1 ELSE admitted[q][t]
  BY DEF Admit, TypeOK
<1>3. admitted' \in [IPs -> [Time -> Nat]]
  <2> DEFINE f == [t \in Time |-> IF t >= now THEN admitted[ip][t] + 1 ELSE admitted[ip][t]]
  <2>1. f \in [Time -> Nat]
    BY DEF TypeOK
  <2>2. admitted' = [admitted EXCEPT ![ip] = f]
    BY DEF Admit
  <2> HIDE DEF f
  <2> QED  BY <2>1, <2>2 DEF TypeOK
<1>4. HistoryInv'
  <2>1. \A q \in IPs, t \in Time : admitted[q][t] \in Nat /\ t \in Nat
    BY ConfigType DEF TypeOK, Time
  <2>2. ASSUME NEW q \in IPs, NEW s \in Time, NEW t \in Time, s <= t
        PROVE  admitted'[q][s] <= admitted'[q][t]
    <3>1. admitted[q][s] <= admitted[q][t]
      BY <2>2 DEF HistoryInv
    <3>2. now \in Nat
      BY <1>1 DEF Time
    <3> QED  BY <1>2, <2>1, <2>2, <3>1, <3>2
  <2>3. ASSUME NEW q \in IPs, NEW t \in Time, now <= t
        PROVE  admitted'[q][t] = admitted'[q][now]
    <3>1. admitted[q][t] = admitted[q][now]
      BY <2>3 DEF HistoryInv
    <3>2. now \in Nat
      BY <1>1 DEF Time
    <3> QED  BY <1>1, <1>2, <2>1, <2>3, <3>1, <3>2
  <2> QED  BY <2>2, <2>3 DEF HistoryInv
<1>5. ASSUME NEW q \in IPs, NEW s \in 0..now
      PROVE  Since(q, s)' = IF q = ip THEN Since(q, s) + 1 ELSE Since(q, s)
  <2>1. admitted[q][now] \in Nat /\ (s # 0 => admitted[q][s - 1] \in Nat)
    BY <1>1 DEF TypeOK
  <2>2. now \in Nat
    BY <1>1 DEF Time
  <2>3. admitted'[q][now] = IF q = ip THEN admitted[q][now] + 1 ELSE admitted[q][now]
    BY <1>1, <1>2, <2>2
  <2>4. s # 0 => admitted'[q][s - 1] = admitted[q][s - 1]
    BY <1>1, <1>2, <2>2
  <2> QED  BY <2>1, <2>3, <2>4 DEF Since
<1> QED  BY <1>3, <1>4, <1>5

\* A refill keeps the type and adds no more than the time it accounts for.
LEMMA RefillFacts ==
  ASSUME NEW b \in Bucket, NEW t \in Time, NEW r, r = Refilled(b, t)
  PROVE  /\ r \in Bucket
         /\ r.tokens \in 0..Cap /\ b.tokens \in 0..Cap
         /\ r.last \in Nat /\ b.last \in Nat /\ t \in Nat /\ Cap \in Nat
         /\ r.tokens <= b.tokens + (r.last - b.last)
         /\ t <= r.last /\ b.last <= r.last
         /\ r.last = t \/ r.last = b.last
<1>1. b.tokens \in 0..Cap /\ b.last \in Time
  BY DEF Bucket
<1>2. Cap \in Nat /\ b.last \in Nat /\ t \in Nat
  BY <1>1, CapType, ConfigType DEF Time
<1>3. CASE t > b.last
  <2> DEFINE k == IF b.tokens + (t - b.last) > Cap THEN Cap ELSE b.tokens + (t - b.last)
  <2>1. r = [tokens |-> k, last |-> t]
    BY <1>3 DEF Refilled
  <2>2. k \in 0..Cap /\ k <= b.tokens + (t - b.last)
    BY <1>1, <1>2, <1>3
  <2> HIDE DEF k
  <2>3. r \in Bucket /\ r.tokens = k /\ r.last = t
    BY <2>1, <2>2 DEF Bucket
  <2> QED  BY <1>1, <1>2, <1>3, <2>2, <2>3
<1>4. CASE ~(t > b.last)
  <2>1. r = b
    BY <1>4 DEF Refilled
  <2> QED  BY <1>1, <1>2, <1>4, <2>1
<1> QED  BY <1>3, <1>4

-----------------------------------------------------------------------------
(* The steps. *)

LEMMA InitInv == Init => IInv
<1> SUFFICES ASSUME Init PROVE IInv
  OBVIOUS
<1>1. 0 \in Time
  BY ConfigType DEF Time
<1>2. TypeOK
  BY <1>1 DEF Init, TypeOK
<1>3. HistoryInv
  BY <1>1 DEF Init, HistoryInv
<1>4. \A ip \in IPs : \A s \in 0..now : Since(ip, s) = 0
  BY <1>1 DEF Init, Since
<1>5. TrackedInv /\ ForgottenInv /\ LastInv
  BY <1>4 DEF Init, TrackedInv, ForgottenInv, LastInv
<1> QED  BY <1>2, <1>3, <1>5 DEF IInv

\* A lock taken now was preceded by a clock read of at most MaxLag ago.
LEMMA ReadType ==
  ASSUME TypeOK, NEW t \in Read
  PROVE  t \in Time /\ t \in Nat /\ now \in Nat /\ t <= now /\ now <= t + MaxLag /\ MaxLag \in Nat
BY ConfigType DEF Read, TypeOK, Time

LEMMA AllowNewInv ==
  ASSUME IInv, NEW ip \in IPs, NEW t \in Read, AllowNew(ip, t)
  PROVE  IInv'
<1> DEFINE n == [tokens |-> Cap - Cost, last |-> t]
<1>1. TypeOK /\ HistoryInv /\ now' = now /\ Admit(ip) /\ buckets[ip] = None
      /\ buckets' = [buckets EXCEPT ![ip] = n]
  BY DEF IInv, AllowNew
<1>2. t \in Time /\ t \in Nat /\ now \in Nat /\ t <= now /\ now <= t + MaxLag /\ MaxLag \in Nat
  BY <1>1, ReadType
<1>3. Cap \in Nat /\ Cost \in Nat /\ Cap - Cost \in 0..Cap
  BY CapType, ConfigType
<1>4. n \in Bucket /\ n.tokens = Cap - Cost /\ n.last = t
  BY <1>2, <1>3 DEF Bucket
<1> HIDE DEF n
<1>5. n # None
  BY <1>4, NoneIsNoBucket
<1>6. \A q \in IPs : buckets'[q] = IF q = ip THEN n ELSE buckets[q]
  BY <1>1 DEF TypeOK
<1>7. TypeOK' /\ HistoryInv'
  BY <1>1, <1>4, AdmitSince DEF TypeOK
<1>8. \A q \in IPs : \A s \in 0..now :
        Since(q, s)' = IF q = ip THEN Since(q, s) + 1 ELSE Since(q, s)
  BY <1>1, AdmitSince
<1>9. LastInv'
  BY <1>1, <1>2, <1>4, <1>6 DEF IInv, LastInv
<1>10. ForgottenInv'
  BY <1>1, <1>5, <1>6, <1>8 DEF IInv, ForgottenInv
<1>11. ASSUME NEW s \in 0..now
       PROVE  Since(ip, s)' * Cost + n.tokens <= Cap + (n.last - s) + MaxLag
  <2> DEFINE k == Since(ip, s)
  <2>1. k \in Nat /\ Since(ip, s)' = k + 1
    BY <1>1, <1>8, SinceType
  <2>2. k = 0 \/ k * Cost <= now - s
    BY <1>1, <2>1 DEF IInv, ForgottenInv
  <2> HIDE DEF k
  <2>3. (k + 1) * Cost = k * Cost + Cost /\ k * Cost \in Int /\ (k = 0 => k * Cost = 0)
    BY <2>1, OneMore, ConfigType
  <2>4. k * Cost <= now - s
    BY <1>2, <2>2, <2>3
  <2> QED  BY <1>2, <1>3, <1>4, <2>1, <2>3, <2>4
<1>12. TrackedInv'
  BY <1>1, <1>6, <1>8, <1>11 DEF IInv, TrackedInv
<1> QED  BY <1>7, <1>9, <1>10, <1>12 DEF IInv

LEMMA AllowInv ==
  ASSUME IInv, NEW ip \in IPs, NEW t \in Read, Allow(ip, t)
  PROVE  IInv'
<1> DEFINE b == buckets[ip]
           r == Refilled(b, t)
           n == [r EXCEPT !.tokens = @ - Cost]
<1>1. TypeOK /\ HistoryInv /\ now' = now /\ Admit(ip) /\ b # None /\ b \in Bucket
      /\ r.tokens >= Cost /\ buckets' = [buckets EXCEPT ![ip] = n]
  BY DEF IInv, Allow, TypeOK, Spend
<1>2. t \in Time /\ t \in Nat /\ now \in Nat /\ t <= now /\ now <= t + MaxLag /\ MaxLag \in Nat
  BY <1>1, ReadType
<1>3. /\ r \in Bucket /\ r.tokens \in 0..Cap /\ b.tokens \in 0..Cap
      /\ r.last \in Nat /\ b.last \in Nat /\ Cap \in Nat
      /\ r.tokens <= b.tokens + (r.last - b.last)
      /\ t <= r.last /\ b.last <= r.last /\ (r.last = t \/ r.last = b.last)
  BY <1>1, <1>2, RefillFacts
<1> HIDE DEF r
<1>4. n \in Bucket /\ n.tokens = r.tokens - Cost /\ n.last = r.last
  BY <1>1, <1>3, ConfigType DEF Bucket
<1> HIDE DEF n
<1>5. n # None
  BY <1>4, NoneIsNoBucket
<1>6. \A q \in IPs : buckets'[q] = IF q = ip THEN n ELSE buckets[q]
  BY <1>1 DEF TypeOK
<1>7. TypeOK' /\ HistoryInv'
  BY <1>1, <1>4, AdmitSince DEF TypeOK
<1>8. \A q \in IPs : \A s \in 0..now :
        Since(q, s)' = IF q = ip THEN Since(q, s) + 1 ELSE Since(q, s)
  BY <1>1, AdmitSince
<1>9. LastInv'
  BY <1>1, <1>2, <1>3, <1>4, <1>6 DEF IInv, LastInv
<1>10. ForgottenInv'
  BY <1>1, <1>5, <1>6, <1>8 DEF IInv, ForgottenInv
<1>11. ASSUME NEW s \in 0..now
       PROVE  Since(ip, s)' * Cost + n.tokens <= Cap + (n.last - s) + MaxLag
  <2> DEFINE k == Since(ip, s)
  <2>1. k \in Nat /\ Since(ip, s)' = k + 1
    BY <1>1, <1>8, SinceType
  <2>2. k = 0 \/ k * Cost + b.tokens <= Cap + (b.last - s) + MaxLag
    BY <1>1, <2>1 DEF IInv, TrackedInv
  <2> HIDE DEF k
  <2>3. (k + 1) * Cost = k * Cost + Cost /\ k * Cost \in Int /\ (k = 0 => k * Cost = 0)
        /\ Cost \in Nat
    BY <2>1, OneMore, ConfigType
  <2> HIDE DEF b
  <2>4. CASE k = 0
    BY <1>2, <1>3, <1>4, <2>1, <2>3, <2>4
  <2>5. CASE k * Cost + b.tokens <= Cap + (b.last - s) + MaxLag
    BY <1>2, <1>3, <1>4, <2>1, <2>3, <2>5
  <2> QED  BY <2>2, <2>4, <2>5
<1>12. TrackedInv'
  BY <1>1, <1>6, <1>8, <1>11 DEF IInv, TrackedInv
<1> QED  BY <1>7, <1>9, <1>10, <1>12 DEF IInv

\* The windows of a step that admits nobody.
LEMMA SameSince ==
  ASSUME UNCHANGED <<now, admitted>>
  PROVE  /\ HistoryInv => HistoryInv'
         /\ \A q \in IPs : \A s \in 0..now : Since(q, s)' = Since(q, s)
BY DEF HistoryInv, Since

LEMMA RejectInv ==
  ASSUME IInv, NEW ip \in IPs, NEW t \in Read, Reject(ip, t)
  PROVE  IInv'
<1> DEFINE b == buckets[ip]
           r == Refilled(b, t)
<1>1. TypeOK /\ HistoryInv /\ UNCHANGED <<now, admitted>> /\ b # None /\ b \in Bucket
      /\ buckets' = [buckets EXCEPT ![ip] = r]
  BY DEF IInv, Reject, TypeOK
<1>2. t \in Time /\ t \in Nat /\ now \in Nat /\ t <= now /\ now <= t + MaxLag /\ MaxLag \in Nat
  BY <1>1, ReadType
<1>3. /\ r \in Bucket /\ r.tokens \in 0..Cap /\ b.tokens \in 0..Cap
      /\ r.last \in Nat /\ b.last \in Nat /\ Cap \in Nat
      /\ r.tokens <= b.tokens + (r.last - b.last)
      /\ t <= r.last /\ b.last <= r.last /\ (r.last = t \/ r.last = b.last)
  BY <1>1, <1>2, RefillFacts
<1> HIDE DEF r
<1>4. r # None
  BY <1>3, NoneIsNoBucket
<1>5. \A q \in IPs : buckets'[q] = IF q = ip THEN r ELSE buckets[q]
  BY <1>1 DEF TypeOK
<1>6. TypeOK'
  BY <1>1, <1>3 DEF TypeOK
<1>7. HistoryInv' /\ \A q \in IPs : \A s \in 0..now : Since(q, s)' = Since(q, s)
  BY <1>1, SameSince
<1>8. LastInv'
  BY <1>1, <1>2, <1>3, <1>5 DEF IInv, LastInv
<1>9. ForgottenInv'
  BY <1>1, <1>4, <1>5, <1>7 DEF IInv, ForgottenInv
<1>10. ASSUME NEW s \in 0..now, Since(ip, s) > 0
       PROVE  Since(ip, s) * Cost + r.tokens <= Cap + (r.last - s) + MaxLag
  <2>1. Since(ip, s) * Cost + b.tokens <= Cap + (b.last - s) + MaxLag
    BY <1>1, <1>10 DEF IInv, TrackedInv
  <2>2. Since(ip, s) * Cost \in Int
    BY <1>1, SinceType, OneMore
  <2> HIDE DEF b
  <2> QED  BY <1>2, <1>3, <2>1, <2>2
<1>11. TrackedInv'
  BY <1>1, <1>5, <1>7, <1>10 DEF IInv, TrackedInv
<1> QED  BY <1>6, <1>7, <1>8, <1>9, <1>11 DEF IInv

\* The bucket that goes would have refilled: this is where the idle time has
\* to cover the capacity.
LEMMA EvictInv ==
  ASSUME IInv, NEW ip \in IPs, NEW t \in Read, Evict(ip, t)
  PROVE  IInv'
<1> DEFINE b == buckets[ip]
<1>1. TypeOK /\ HistoryInv /\ UNCHANGED <<now, admitted>> /\ b # None /\ b \in Bucket
      /\ b.last < t - IdleEv /\ buckets' = [buckets EXCEPT ![ip] = None]
  BY DEF IInv, Evict, TypeOK
<1>2. t \in Nat /\ now \in Nat /\ t <= now /\ MaxLag \in Nat /\ IdleEv \in Nat
  BY <1>1, ReadType, ConfigType
<1>3. b.tokens \in 0..Cap /\ b.last \in Nat /\ Cap \in Nat
  BY <1>1, CapType, ConfigType DEF Bucket, Time
<1>4. \A q \in IPs : buckets'[q] = IF q = ip THEN None ELSE buckets[q]
  BY <1>1 DEF TypeOK
<1>5. TypeOK'
  BY <1>1 DEF TypeOK
<1>6. HistoryInv' /\ \A q \in IPs : \A s \in 0..now : Since(q, s)' = Since(q, s)
  BY <1>1, SameSince
<1>7. LastInv' /\ TrackedInv'
  BY <1>1, <1>4, <1>6 DEF IInv, LastInv, TrackedInv
<1>8. ASSUME NEW s \in 0..now, Since(ip, s) > 0
      PROVE  Since(ip, s) * Cost <= now - s
  <2>1. Since(ip, s) * Cost + b.tokens <= Cap + (b.last - s) + MaxLag
    BY <1>1, <1>8 DEF IInv, TrackedInv
  <2>2. Since(ip, s) * Cost \in Int
    BY <1>1, SinceType, OneMore
  <2> HIDE DEF b
  <2> QED  BY <1>1, <1>2, <1>3, <2>1, <2>2, RefillsBeforeEviction
<1>9. ForgottenInv'
  BY <1>1, <1>4, <1>6, <1>8 DEF IInv, ForgottenInv
<1> QED  BY <1>5, <1>6, <1>7, <1>9 DEF IInv

LEMMA TickInv ==
  ASSUME IInv, Tick
  PROVE  IInv'
<1>1. TypeOK /\ HistoryInv /\ UNCHANGED <<buckets, admitted>>
      /\ now' = now + 1 /\ now < LastTick /\ now \in Nat /\ now' \in Time
  BY ConfigType DEF IInv, Tick, TypeOK, Time
<1>2. TypeOK'
  BY <1>1 DEF TypeOK
<1>3. \A q \in IPs : admitted[q][now'] = admitted[q][now]
  BY <1>1, ConfigType DEF HistoryInv, Time
<1>4. HistoryInv'
  BY <1>1, <1>3, ConfigType DEF HistoryInv, Time
<1>5. ASSUME NEW q \in IPs, NEW s \in 0..now'
      PROVE  \/ s \in 0..now /\ Since(q, s)' = Since(q, s)
             \/ Since(q, s)' = 0
  <2>1. CASE s \in 0..now
    BY <1>1, <1>3, <2>1 DEF Since
  <2>2. CASE s = now + 1
    <3>1. admitted[q][now] \in Nat
      BY <1>1 DEF TypeOK
    <3>2. s # 0 /\ s - 1 = now
      BY <1>1, <2>2
    <3> QED  BY <1>1, <1>3, <3>1, <3>2 DEF Since
  <2> QED  BY <1>1, <2>1, <2>2
<1>6. TrackedInv'
  BY <1>1, <1>5 DEF IInv, TrackedInv
<1>7. ASSUME NEW q \in IPs, NEW s \in 0..now', buckets'[q] = None, Since(q, s)' > 0
      PROVE  Since(q, s)' * Cost <= now' - s
  <2>1. s \in 0..now /\ Since(q, s)' = Since(q, s)
    BY <1>5, <1>7
  <2>2. Since(q, s) * Cost <= now - s
    BY <1>1, <1>7, <2>1 DEF IInv, ForgottenInv
  <2>3. Since(q, s) * Cost \in Int
    BY <1>1, <2>1, SinceType, OneMore
  <2> QED  BY <1>1, <2>1, <2>2, <2>3
<1>8. ForgottenInv'
  BY <1>7 DEF ForgottenInv
<1>9. LastInv'
  <2> SUFFICES ASSUME NEW q \in IPs, buckets[q] # None PROVE buckets[q].last <= now + 1
    BY <1>1 DEF LastInv
  <2>1. buckets[q].last \in Nat /\ buckets[q].last <= now
    BY <1>1, ConfigType DEF IInv, LastInv, TypeOK, Bucket, Time
  <2> QED  BY <1>1, <2>1
<1> QED  BY <1>2, <1>4, <1>6, <1>8, <1>9 DEF IInv

LEMMA NextInv == IInv /\ [Next]_vars => IInv'
<1> SUFFICES ASSUME IInv, [Next]_vars PROVE IInv'
  OBVIOUS
<1>1. ASSUME NEW ip \in IPs, NEW t \in Read,
             AllowNew(ip, t) \/ Allow(ip, t) \/ Reject(ip, t) \/ Evict(ip, t)
      PROVE  IInv'
  BY <1>1, AllowNewInv, AllowInv, RejectInv, EvictInv
<1>2. CASE UNCHANGED vars
  <2>1. UNCHANGED <<now, buckets, admitted>>
    BY <1>2 DEF vars
  <2> QED
    BY <2>1 DEF IInv, TypeOK, HistoryInv, TrackedInv, ForgottenInv, LastInv, Since
<1> QED  BY <1>1, <1>2, TickInv DEF Next

THEOREM Inductive == Spec => []IInv
BY InitInv, NextInv, PTL DEF Spec

\* The buckets stay between empty and full.
THEOREM TypeCorrect == Spec => []TypeOK
<1>1. IInv => TypeOK
  BY DEF IInv
<1> QED  BY Inductive, <1>1, PTL

\* No client is ever admitted more than a burst and the refill of the time in
\* between, however its bucket is evicted and made again and however the clock
\* reads and the locks interleave.
THEOREM LimitHolds == Spec => []WindowBound
BY Inductive, InvBound, PTL

-----------------------------------------------------------------------------
(* Nobody is throttled early. *)

\* A bucket was full at some tick, and has lost nothing since but the tokens of
\* the requests admitted.
SpentSince(ip, s) ==
  Since(ip, s) * Cost + buckets[ip].tokens >= Cap + (buckets[ip].last - s)

SpentInv == \A ip \in IPs : buckets[ip] # None => \E s \in 0..now : SpentSince(ip, s)

\* The windows that start by now keep their count when the clock ticks.
LEMMA TickSince ==
  ASSUME IInv, Tick, NEW ip \in IPs, NEW s \in 0..now
  PROVE  Since(ip, s)' = Since(ip, s) /\ s \in 0..now'
<1>1. now' = now + 1 /\ now < LastTick /\ now \in Nat /\ now' \in Time /\ now \in Time
      /\ admitted' = admitted
  BY ConfigType DEF IInv, Tick, TypeOK, Time
<1>2. admitted[ip][now'] = admitted[ip][now]
  BY <1>1 DEF IInv, HistoryInv
<1>3. s \in 0..now'
  BY <1>1
<1> QED  BY <1>1, <1>2, <1>3 DEF Since

\* A client that was let in is left with what a window accounts for: the one
\* from now if its bucket was new or full, the one it had otherwise.
LEMMA AdmittedSpent ==
  ASSUME IInv, SpentInv, NEW ip \in IPs, NEW t \in Read, AllowNew(ip, t) \/ Allow(ip, t)
  PROVE  \E s \in 0..now : SpentSince(ip, s)'
<1>1. TypeOK /\ HistoryInv /\ now' = now /\ Admit(ip)
  BY DEF IInv, AllowNew, Allow
<1>2. t \in Time /\ t \in Nat /\ now \in Nat /\ now \in 0..now /\ t <= now
  BY <1>1, ReadType
<1>3. Cap \in Nat /\ Cost \in Nat /\ Cost <= Cap
  BY CapType, ConfigType
<1>4. \A s \in 0..now : /\ Since(ip, s) \in Nat
                        /\ Since(ip, s)' * Cost = Since(ip, s) * Cost + Cost
                        /\ Since(ip, s) * Cost \in Nat
  <2>1. \A k \in Nat : k * Cost \in Nat
    BY ConfigType
  <2> QED  BY <1>1, <2>1, AdmitSince, SinceType, OneMore
\* A full bucket: the window from now.
<1>z. PICK z \in 0..now : z = now
  BY <1>2
<1>5. ASSUME NEW n, buckets' = [buckets EXCEPT ![ip] = n],
             n.tokens = Cap - Cost, n.last \in Nat, n.last <= now
      PROVE  SpentSince(ip, z)'
  <2>1. buckets'[ip] = n
    BY <1>1, <1>5 DEF TypeOK
  <2>2. Since(ip, z)' * Cost >= Cost /\ Since(ip, z)' * Cost \in Nat
    BY <1>3, <1>4
  <2>3. Since(ip, z)' * Cost + (Cap - Cost) >= Cap + (n.last - z)
    BY <1>2, <1>3, <1>5, <1>z, <2>2
  <2> QED  BY <1>1, <1>5, <2>1, <2>3 DEF SpentSince
<1>6. CASE AllowNew(ip, t)
  <2> DEFINE n == [tokens |-> Cap - Cost, last |-> t]
  <2>1. buckets' = [buckets EXCEPT ![ip] = n]
    BY <1>6 DEF AllowNew
  <2>2. n.tokens = Cap - Cost /\ n.last = t
    OBVIOUS
  <2> HIDE DEF n
  <2>3. SpentSince(ip, z)'
    BY <1>2, <1>5, <2>1, <2>2
  <2> QED  BY <2>3
<1>7. CASE Allow(ip, t)
  <2> DEFINE b == buckets[ip]
             r == Refilled(b, t)
             n == [r EXCEPT !.tokens = @ - Cost]
  <2>1. b # None /\ b \in Bucket /\ buckets' = [buckets EXCEPT ![ip] = n]
    BY <1>1, <1>7 DEF Allow, Spend, TypeOK
  <2>2. /\ r \in Bucket /\ r.tokens \in 0..Cap /\ b.tokens \in 0..Cap
        /\ r.last \in Nat /\ b.last \in Nat
        /\ r.last = t \/ r.last = b.last
    BY <1>2, <2>1, RefillFacts
  <2>3. r.tokens = Cap \/ r.tokens - r.last = b.tokens - b.last
    BY <1>2, <1>3, <2>2 DEF Refilled
  <2>4. b.last <= now
    BY <2>1 DEF IInv, LastInv
  <2>5. PICK s \in 0..now : SpentSince(ip, s)
    BY <2>1 DEF SpentInv
  <2>6. Since(ip, s) * Cost + b.tokens >= Cap + (b.last - s)
    BY <2>5 DEF SpentSince
  <2> HIDE DEF r, b
  <2>7. n.tokens = r.tokens - Cost /\ n.last = r.last
    BY <2>2 DEF Bucket
  <2> HIDE DEF n
  <2>8. CASE r.tokens = Cap
    <3>1. SpentSince(ip, z)'
      BY <1>2, <1>5, <2>1, <2>2, <2>4, <2>7, <2>8
    <3> QED  BY <3>1
  <2>9. CASE r.tokens - r.last = b.tokens - b.last
    <3>1. buckets'[ip] = n
      BY <1>1, <2>1 DEF TypeOK
    <3>2. Since(ip, s)' * Cost = Since(ip, s) * Cost + Cost /\ Since(ip, s) * Cost \in Nat
      BY <1>4
    <3>3. Since(ip, s)' * Cost + n.tokens >= Cap + (n.last - s)
      BY <1>2, <1>3, <2>2, <2>6, <2>7, <2>9, <3>2
    <3>4. SpentSince(ip, s)'
      BY <1>1, <3>1, <3>3 DEF SpentSince
    <3> QED  BY <3>4
  <2> QED  BY <2>3, <2>8, <2>9
<1> QED  BY <1>6, <1>7

\* A request that is turned away leaves its bucket accounted for.
LEMMA RejectedSpent ==
  ASSUME IInv, SpentInv, NEW ip \in IPs, NEW t \in Read,
         buckets[ip] # None, Refilled(buckets[ip], t).tokens < Cost
  PROVE  \E s \in 0..now :
           Since(ip, s) * Cost + Refilled(buckets[ip], t).tokens
             >= Cap + (Refilled(buckets[ip], t).last - s)
<1> DEFINE b == buckets[ip]
           r == Refilled(b, t)
<1>1. b \in Bucket /\ t \in Time
  BY ReadType DEF IInv, TypeOK
<1>2. /\ r.tokens \in 0..Cap /\ b.tokens \in 0..Cap /\ r.last \in Nat /\ b.last \in Nat
      /\ t \in Nat
  BY <1>1, RefillFacts
<1>3. Cap \in Nat /\ Cost \in Nat /\ Cost <= Cap
  BY CapType, ConfigType
<1>4. r.tokens - r.last = b.tokens - b.last
  BY <1>2, <1>3 DEF Refilled
<1>5. PICK s \in 0..now : SpentSince(ip, s)
  BY DEF SpentInv
<1>6. Since(ip, s) * Cost + b.tokens >= Cap + (b.last - s)
  BY <1>5 DEF SpentSince
<1>7. Since(ip, s) * Cost \in Int /\ s \in Nat
  <2>1. Since(ip, s) \in Nat
    BY SinceType DEF IInv
  <2>2. now \in Nat
    BY ReadType DEF IInv
  <2> QED  BY <2>1, <2>2, OneMore
<1> HIDE DEF r, b
<1>8. Since(ip, s) * Cost + r.tokens >= Cap + (r.last - s)
  BY <1>2, <1>3, <1>4, <1>6, <1>7
<1> QED  BY <1>8 DEF r, b

LEMMA SpentNext == IInv /\ SpentInv /\ [Next]_vars => SpentInv'
<1> SUFFICES ASSUME IInv, SpentInv, [Next]_vars, NEW q \in IPs, buckets'[q] # None
             PROVE  \E s \in 0..now' : SpentSince(q, s)'
  BY DEF SpentInv
<1>1. ASSUME NEW ip \in IPs, NEW t \in Read, AllowNew(ip, t) \/ Allow(ip, t)
      PROVE  \E s \in 0..now' : SpentSince(q, s)'
  <2>1. now' = now
    BY <1>1 DEF AllowNew, Allow
  <2>2. CASE q = ip
    BY <1>1, <2>1, <2>2, AdmittedSpent
  <2>3. CASE q # ip
    <3>1. buckets'[q] = buckets[q]
      BY <1>1, <2>3 DEF AllowNew, Allow, IInv, TypeOK
    <3>2. \A s \in 0..now : Since(q, s)' = Since(q, s)
      BY <1>1, <2>1, <2>3, AdmitSince DEF AllowNew, Allow, IInv
    <3> QED  BY <2>1, <3>1, <3>2 DEF SpentInv, SpentSince
  <2> QED  BY <2>2, <2>3
<1>2. ASSUME NEW ip \in IPs, NEW t \in Read, Reject(ip, t) \/ Evict(ip, t)
      PROVE  \E s \in 0..now' : SpentSince(q, s)'
  <2>1. UNCHANGED <<now, admitted>>
    BY <1>2 DEF Reject, Evict
  <2>2. \A s \in 0..now : Since(q, s)' = Since(q, s)
    BY <2>1, SameSince
  <2>3. CASE q = ip
    <3>1. Reject(ip, t)
      BY <1>2, <2>3 DEF Evict, IInv, TypeOK
    <3>2. buckets'[q] = Refilled(buckets[q], t)
      BY <2>3, <3>1 DEF Reject, IInv, TypeOK
    <3>3. PICK s \in 0..now : Since(q, s) * Cost + Refilled(buckets[q], t).tokens
                                >= Cap + (Refilled(buckets[q], t).last - s)
      BY <2>3, <3>1, RejectedSpent DEF Reject
    <3>4. SpentSince(q, s)'
      BY <2>1, <2>2, <3>2, <3>3 DEF SpentSince
    <3> QED  BY <2>1, <3>4
  <2>4. CASE q # ip
    <3>1. buckets'[q] = buckets[q]
      BY <1>2, <2>4 DEF Reject, Evict, IInv, TypeOK
    <3> QED  BY <2>1, <2>2, <3>1 DEF SpentInv, SpentSince
  <2> QED  BY <2>3, <2>4
<1>3. CASE Tick
  <2>1. buckets' = buckets
    BY <1>3 DEF Tick
  <2>2. PICK s \in 0..now : SpentSince(q, s)
    BY <2>1 DEF SpentInv
  <2>3. Since(q, s)' = Since(q, s) /\ s \in 0..now'
    BY <1>3, TickSince
  <2>4. SpentSince(q, s)'
    BY <2>1, <2>2, <2>3 DEF SpentSince
  <2> QED  BY <2>3, <2>4
<1>4. CASE UNCHANGED vars
  BY <1>4 DEF vars, SpentInv, SpentSince, Since
<1> QED  BY <1>1, <1>2, <1>3, <1>4 DEF Next

\* No request is turned away while its client keeps to the limit: some window
\* that ends now has used up all but less than a token of its allowance, give
\* or take the clock lag.
THEOREM NoEarlyRejection == Spec => []RejectsOnlyWhenSpent
<1>1. Init => SpentInv
  BY DEF Init, SpentInv
<1>2. IInv /\ SpentInv => RejectsOnlyWhenSpent
  <2> SUFFICES ASSUME IInv, SpentInv, NEW ip \in IPs, NEW t \in Read,
                      buckets[ip] # None, Refilled(buckets[ip], t).tokens < Cost
               PROVE  Exceeds(ip)
    BY DEF RejectsOnlyWhenSpent
  <2> DEFINE r == Refilled(buckets[ip], t)
  <2>1. buckets[ip] \in Bucket
    BY DEF IInv, TypeOK
  <2>2. /\ t \in Time /\ now \in Nat /\ t \in Nat /\ now <= t + MaxLag /\ MaxLag \in Nat
    BY ReadType DEF IInv
  <2>3. r.tokens \in 0..Cap /\ r.last \in Nat /\ t <= r.last /\ Cap \in Nat
    BY <2>1, <2>2, RefillFacts
  <2>4. PICK s \in 0..now : Since(ip, s) * Cost + r.tokens >= Cap + (r.last - s)
    BY RejectedSpent
  <2>5. (Since(ip, s) + 1) * Cost = Since(ip, s) * Cost + Cost /\ Since(ip, s) * Cost \in Int
    BY SinceType, OneMore DEF IInv
  <2>6. Cost \in Nat /\ r.tokens < Cost /\ s \in Nat
    BY <2>2, ConfigType
  <2> HIDE DEF r
  <2>7. (Since(ip, s) + 1) * Cost > Cap + (now - s) - MaxLag
    BY <2>2, <2>3, <2>4, <2>5, <2>6
  <2> QED  BY <2>7 DEF Exceeds
<1> QED  BY <1>1, <1>2, SpentNext, Inductive, PTL DEF Spec

\* Over every window a client is admitted its allowance and refused only beyond it, give or
\* take the clock lag: from either side, the limit is what it says.
THEOREM LimitExact == Spec => []LimitIsExact
<1>1. WindowBound /\ RejectsOnlyWhenSpent => LimitIsExact
  BY DEF LimitIsExact
<1> QED  BY <1>1, LimitHolds, NoEarlyRejection, PTL

-----------------------------------------------------------------------------
(* One comment in Postgres. *)

Mentioned(B) == UNION {MentionsOf(b) : b \in B}

Txs == [at : {"idle", "update", "clear", "commit", "toggle"}, body : SUBSET Bodies,
        gone : SUBSET Mentioned(Bodies), user : SUBSET Users, liked : BOOLEAN]

CommentTypes == /\ body \in SUBSET Bodies /\ deleted \in BOOLEAN
         /\ likes \subseteq Users /\ odd \subseteq Users /\ overlapped \subseteq Users
         /\ tx \in [Sessions -> Txs]

\* The committed row.
RowInv ==
  /\ mentions = Mentioned(body)
  /\ final \subseteq {<<body, mentions>>}
  /\ final # {} => deleted
  /\ deleted => body # {}

\* Who has updated the row holds its lock, on a row that is not deleted, and
\* clears the mentions that are there: nobody can change them meanwhile.
EditInv ==
  \A s \in Sessions :
    /\ tx[s].at \in {"update", "clear", "commit"} => body # {} /\ tx[s].body # {}
    /\ tx[s].at \in {"clear", "commit"} => lock = s /\ ~deleted
    /\ tx[s].at = "commit" => tx[s].gone = mentions

UserInv ==
  \A s \in Sessions :
    IF tx[s].at = "toggle" THEN \E u \in Users : tx[s].user = {u} ELSE tx[s].user = {}

\* A toggle that runs alone acts on what it has read.
LikeInv ==
  \A u \in Users \ overlapped :
    /\ u \in likes <=> u \in odd
    /\ \A s \in Sessions : tx[s].user = {u} =>
         /\ tx[s].liked <=> u \in likes
         /\ \A r \in Sessions : tx[r].user = {u} => r = s

CommentInv == CommentTypes /\ RowInv /\ EditInv /\ UserInv /\ LikeInv

LEMMA CommentInit == CommentsInit => CommentInv
<1>. SUFFICES ASSUME CommentsInit PROVE CommentInv
  OBVIOUS
<1>1. \A s \in Sessions : tx[s] = Idle
  BY DEF CommentsInit
<1>2. CommentTypes
  BY DEF CommentsInit, CommentTypes, Txs, Idle
<1>3. RowInv
  BY DEF CommentsInit, RowInv, Mentioned
<1>4. EditInv /\ UserInv /\ LikeInv
  BY <1>1 DEF CommentsInit, EditInv, UserInv, LikeInv, Idle
<1>. QED BY <1>2, <1>3, <1>4 DEF CommentInv

\* The effect of Do on the transactions.
LEMMA DoEffect ==
  ASSUME CommentTypes, NEW s \in Sessions, NEW t \in Txs, Do(s, t)
  PROVE  tx' \in [Sessions -> Txs] /\ \A r \in Sessions : tx'[r] = IF r = s THEN t ELSE tx[r]
BY DEF Do, CommentTypes

LEMMA CommentStep == Nobody \notin Sessions /\ CommentInv /\ [CommentsNext]_commentVars => CommentInv'
<1>. SUFFICES ASSUME Nobody \notin Sessions, CommentInv, [CommentsNext]_commentVars PROVE CommentInv'
  OBVIOUS
<1>0. CommentTypes /\ RowInv /\ EditInv /\ UserInv /\ LikeInv /\ Idle \in Txs
  BY DEF CommentInv, Idle, Txs
<1>1. ASSUME NEW s \in Sessions, NEW b \in Bodies, Save(s, b) PROVE CommentInv'
  <2>. body = {} /\ body' = {b} /\ mentions' = MentionsOf(b) /\ tx' = tx /\ final = {}
    BY <1>0, <1>1 DEF Save, RowInv
  <2>1. CommentTypes'
    BY <1>0, <1>1 DEF Save, CommentTypes
  <2>2. RowInv'
    BY <1>0, <1>1 DEF Save, RowInv, Mentioned
  <2>3. EditInv'
    BY <1>0, <1>1 DEF Save, EditInv
  <2>4. UserInv' /\ LikeInv'
    BY <1>0, <1>1 DEF Save, UserInv, LikeInv
  <2>. QED BY <2>1, <2>2, <2>3, <2>4 DEF CommentInv
<1>2. ASSUME NEW s \in Sessions, NEW b \in Bodies, BeginEdit(s, b) PROVE CommentInv'
  <2>. DEFINE t == [Idle EXCEPT !.at = "update", !.body = {b}]
  <2>1. t \in Txs /\ t.at = "update" /\ t.body = {b} /\ t.user = {} /\ tx[s] = Idle
    BY <1>0, <1>2 DEF Idle, Txs, BeginEdit, Call
  <2>2. Do(s, t) /\ body # {}
    BY <1>2 DEF BeginEdit
  <2>. HIDE DEF t
  <2>3. /\ tx' \in [Sessions -> Txs]
        /\ \A r \in Sessions : tx'[r] = IF r = s THEN t ELSE tx[r]
    BY <1>0, <2>1, <2>2, DoEffect
  <2>4. CommentTypes' /\ RowInv'
    BY <1>0, <1>2, <2>3 DEF BeginEdit, CommentTypes, RowInv
  <2>5. EditInv' /\ UserInv' /\ LikeInv'
    BY <1>0, <1>2, <2>1, <2>2, <2>3 DEF BeginEdit, EditInv, UserInv, LikeInv
  <2>. QED BY <2>4, <2>5 DEF CommentInv
<1>3. ASSUME NEW s \in Sessions, UpdateRow(s) PROVE CommentInv'
  <2>1. ASSUME NEW t \in Txs, Do(s, t), t.user = {}, tx[s].at # "toggle", t.at # "toggle",
               UNCHANGED <<body, deleted, mentions, likes, final, odd, overlapped>>
        PROVE  /\ CommentTypes' /\ RowInv' /\ UserInv' /\ LikeInv'
               /\ \A r \in Sessions : tx'[r] = IF r = s THEN t ELSE tx[r]
    <3>1. /\ tx' \in [Sessions -> Txs]
          /\ \A r \in Sessions : tx'[r] = IF r = s THEN t ELSE tx[r]
      BY <1>0, <2>1, DoEffect
    <3>2. CommentTypes' /\ RowInv'
      BY <1>0, <2>1, <3>1 DEF CommentTypes, RowInv
    <3>3. UserInv' /\ LikeInv'
      BY <1>0, <2>1, <3>1 DEF UserInv, LikeInv
    <3>. QED BY <3>1, <3>2, <3>3
  <2>2. UNCHANGED <<body, deleted, mentions, likes, final, odd, overlapped>>
    BY <1>3 DEF UpdateRow
  <2>3. tx[s] \in Txs /\ (tx[s].at # "toggle" => tx[s].user = {})
    BY <1>0 DEF CommentTypes, UserInv
  <2>4. ASSUME tx[s].at = "update", lock = Nobody,
               IF deleted THEN Do(s, Idle) /\ UNCHANGED lock
               ELSE Do(s, [tx[s] EXCEPT !.at = "clear"]) /\ lock' = s
        PROVE  CommentInv'
    <3>1. CASE deleted
      <4>1. Idle.user = {} /\ Idle.at = "idle"
        BY DEF Idle
      <4>2. /\ CommentTypes' /\ RowInv' /\ UserInv' /\ LikeInv' /\ lock' = lock
            /\ \A r \in Sessions : tx'[r] = IF r = s THEN Idle ELSE tx[r]
        BY <1>0, <2>1, <2>2, <2>4, <3>1, <4>1
      <4>3. EditInv'
        BY <1>0, <2>2, <4>1, <4>2 DEF EditInv
      <4>. QED BY <4>2, <4>3 DEF CommentInv
    <3>2. CASE ~deleted
      <4>. DEFINE t == [tx[s] EXCEPT !.at = "clear"]
      <4>1. t \in Txs /\ t.at = "clear" /\ t.user = {} /\ t.body = tx[s].body
        BY <2>3, <2>4 DEF Txs
      <4>2. Do(s, t) /\ lock' = s
        BY <2>4, <3>2
      <4>. HIDE DEF t
      <4>3. /\ CommentTypes' /\ RowInv' /\ UserInv' /\ LikeInv'
            /\ \A r \in Sessions : tx'[r] = IF r = s THEN t ELSE tx[r]
        BY <2>1, <2>2, <2>4, <4>1, <4>2
      <4>4. EditInv'
        BY <1>0, <2>2, <2>4, <3>2, <4>1, <4>2, <4>3 DEF EditInv
      <4>. QED BY <4>3, <4>4 DEF CommentInv
    <3>. QED BY <3>1, <3>2
  <2>5. ASSUME tx[s].at = "clear", Do(s, [tx[s] EXCEPT !.at = "commit", !.gone = mentions]),
               UNCHANGED lock
        PROVE  CommentInv'
    <3>. DEFINE t == [tx[s] EXCEPT !.at = "commit", !.gone = mentions]
    <3>1. mentions \in SUBSET Mentioned(Bodies)
      BY <1>0 DEF RowInv, CommentTypes, Mentioned
    <3>2. /\ t \in Txs /\ t.at = "commit" /\ t.user = {} /\ t.body = tx[s].body
          /\ t.gone = mentions
      BY <2>3, <2>5, <3>1 DEF Txs
    <3>3. Do(s, t)
      BY <2>5
    <3>. HIDE DEF t
    <3>4. /\ CommentTypes' /\ RowInv' /\ UserInv' /\ LikeInv'
          /\ \A r \in Sessions : tx'[r] = IF r = s THEN t ELSE tx[r]
      BY <2>1, <2>2, <2>5, <3>2, <3>3
    <3>5. EditInv'
      BY <1>0, <2>2, <2>5, <3>2, <3>4 DEF EditInv
    <3>. QED BY <3>4, <3>5 DEF CommentInv
  <2>. QED BY <1>3, <2>4, <2>5 DEF UpdateRow
<1>4. ASSUME NEW s \in Sessions, CommitEdit(s) PROVE CommentInv'
  <2>1. /\ \A r \in Sessions : tx'[r] = IF r = s THEN Idle ELSE tx[r]
        /\ tx' \in [Sessions -> Txs] /\ Idle.at = "idle" /\ Idle.user = {}
    BY <1>0, <1>4, DoEffect DEF CommitEdit, Idle
  <2>2. tx[s].gone = mentions /\ lock = s /\ ~deleted /\ tx[s].body # {} /\ tx[s] \in Txs
    BY <1>0, <1>4 DEF CommitEdit, EditInv, CommentTypes
  \* The lock was ours: no other session is between its update and its commit.
  <2>3. \A r \in Sessions : r # s => tx[r].at \notin {"clear", "commit"}
    BY <1>0, <2>2 DEF EditInv
  <2>4. CommentTypes'
    BY <1>0, <1>4, <2>1, <2>2 DEF CommitEdit, CommentTypes, Txs
  <2>5. RowInv'
    BY <1>0, <1>4, <2>2 DEF CommitEdit, RowInv, Mentioned
  <2>6. EditInv'
    BY <1>0, <1>4, <2>1, <2>2, <2>3 DEF CommitEdit, EditInv
  <2>7. UserInv' /\ LikeInv'
    BY <1>0, <1>4, <2>1 DEF CommitEdit, UserInv, LikeInv
  <2>. QED BY <2>4, <2>5, <2>6, <2>7 DEF CommentInv
<1>5. ASSUME NEW s \in Sessions, Rollback(s) PROVE CommentInv'
  <2>1. /\ \A r \in Sessions : tx'[r] = IF r = s THEN Idle ELSE tx[r]
        /\ tx' \in [Sessions -> Txs] /\ Idle.at = "idle" /\ Idle.user = {}
    BY <1>0, <1>5, DoEffect DEF Rollback, Idle
  <2>2. CommentTypes' /\ RowInv'
    BY <1>0, <1>5, <2>1 DEF Rollback, CommentTypes, RowInv
  <2>3. EditInv'
    BY <1>0, <1>5, <2>1 DEF Rollback, EditInv
  <2>4. UserInv' /\ LikeInv'
    BY <1>0, <1>5, <2>1 DEF Rollback, UserInv, LikeInv
  <2>. QED BY <2>2, <2>3, <2>4 DEF CommentInv
<1>6. ASSUME NEW s \in Sessions, Delete(s) PROVE CommentInv'
  <2>1. CommentTypes' /\ RowInv'
    BY <1>0, <1>6 DEF Delete, CommentTypes, RowInv
  \* The row is free, so no session has updated it.
  <2>2. EditInv'
    BY <1>0, <1>6 DEF Delete, EditInv
  <2>3. UserInv' /\ LikeInv'
    BY <1>0, <1>6 DEF Delete, UserInv, LikeInv
  <2>. QED BY <2>1, <2>2, <2>3 DEF CommentInv
<1>7. ASSUME NEW s \in Sessions, NEW u \in Users, ReadLike(s, u) PROVE CommentInv'
  <2>. DEFINE t == [Idle EXCEPT !.at = "toggle", !.user = {u}, !.liked = u \in likes]
  <2>a. tx[s] = Idle /\ Idle.user = {}
    BY <1>7 DEF ReadLike, Call, Idle
  <2>b. t \in Txs /\ t.at = "toggle" /\ t.user = {u} /\ (t.liked <=> u \in likes)
    <3>1. \A l \in BOOLEAN :
            LET k == [Idle EXCEPT !.at = "toggle", !.user = {u}, !.liked = l]
            IN  k \in Txs /\ k.at = "toggle" /\ k.user = {u} /\ k.liked = l
      BY DEF Idle, Txs
    <3>2. CASE u \in likes
      <4>1. (u \in likes) = TRUE
        BY <3>2, Zenon
      <4>2. t = [Idle EXCEPT !.at = "toggle", !.user = {u}, !.liked = TRUE]
        BY <4>1, Zenon
      <4>. QED BY <3>1, <3>2, <4>2, Zenon
    <3>3. CASE u \notin likes
      <4>1. (u \in likes) = FALSE
        BY <3>3, SMT
      <4>2. t = [Idle EXCEPT !.at = "toggle", !.user = {u}, !.liked = FALSE]
        BY <4>1, Zenon
      <4>. QED BY <3>1, <3>3, <4>2, Zenon
    <3>. QED BY <3>2, <3>3
  <2>1. /\ t \in Txs /\ t.at = "toggle" /\ t.user = {u} /\ (t.liked <=> u \in likes)
        /\ tx[s] = Idle /\ Idle.user = {}
    BY <2>a, <2>b, Zenon
  <2>2. Do(s, t)
    BY <1>7 DEF ReadLike
  <2>. HIDE DEF t
  <2>3. /\ tx' \in [Sessions -> Txs]
        /\ \A r \in Sessions : tx'[r] = IF r = s THEN t ELSE tx[r]
    BY <1>0, <2>1, <2>2, DoEffect
  <2>4. CommentTypes' /\ RowInv'
    BY <1>0, <1>7, <2>3 DEF ReadLike, CommentTypes, RowInv
  <2>5. EditInv' /\ UserInv'
    BY <1>0, <1>7, <2>1, <2>3 DEF ReadLike, EditInv, UserInv
  <2>6. LikeInv'
    <3>1. \A v \in Users \ overlapped' : v \notin overlapped /\
            (v = u => \A r \in Sessions : tx[r].user # {u})
      BY <1>7 DEF ReadLike
    <3>2. likes' = likes /\ odd' = odd
      BY <1>7 DEF ReadLike
    <3>. QED BY <1>0, <2>1, <2>3, <3>1, <3>2 DEF LikeInv
  <2>. QED BY <2>4, <2>5, <2>6 DEF CommentInv
<1>8. ASSUME NEW s \in Sessions, Toggle(s) PROVE CommentInv'
  <2>1. /\ \A r \in Sessions : tx'[r] = IF r = s THEN Idle ELSE tx[r]
        /\ tx' \in [Sessions -> Txs] /\ Idle.at = "idle" /\ Idle.user = {}
    BY <1>0, <1>8, DoEffect DEF Toggle, Idle
  <2>2. PICK u \in Users : tx[s].user = {u}
    BY <1>0, <1>8 DEF Toggle, UserInv
  <2>3. CommentTypes' /\ RowInv'
    BY <1>0, <1>8, <2>1, <2>2 DEF Toggle, CommentTypes, RowInv
  <2>4. EditInv' /\ UserInv'
    BY <1>0, <1>8, <2>1 DEF Toggle, EditInv, UserInv
  <2>5. LikeInv'
    <3>. SUFFICES ASSUME NEW v \in Users \ overlapped
         PROVE  /\ v \in likes' <=> v \in odd'
                /\ \A q \in Sessions : tx'[q].user = {v} =>
                     /\ tx'[q].liked <=> v \in likes'
                     /\ \A r \in Sessions : tx'[r].user = {v} => r = q
      BY <1>8 DEF Toggle, LikeInv
    <3>1. /\ likes' = IF tx[s].liked THEN likes \ {u} ELSE likes \cup {u}
          /\ odd' = (odd \ {u}) \cup ({u} \ odd)
      BY <1>8, <2>2 DEF Toggle
    <3>2. CASE v = u
      BY <1>0, <2>1, <2>2, <3>1, <3>2 DEF LikeInv
    <3>3. CASE v # u
      BY <1>0, <2>1, <2>2, <3>1, <3>3 DEF LikeInv
    <3>. QED BY <3>2, <3>3
  <2>. QED BY <2>3, <2>4, <2>5 DEF CommentInv
<1>9. CASE UNCHANGED commentVars
  BY <1>0, <1>9 DEF commentVars, CommentInv, CommentTypes, RowInv, EditInv, UserInv, LikeInv
<1>. QED BY <1>1, <1>2, <1>3, <1>4, <1>5, <1>6, <1>7, <1>8, <1>9 DEF CommentsNext

\* The comment is listed under exactly the tickers its body cashtags, a deleted
\* one is what it was when it was deleted, and a like is a toggle, however the
\* transactions interleave (postgres.go: SaveComment, UpdateComment,
\* DeleteComment, LikeComment).
THEOREM CommentsStayConsistent ==
  ASSUME Nobody \notin Sessions
  PROVE  CommentsSpec => []CommentsConsistent
<1>1. CommentInv => CommentsConsistent
  BY DEF CommentInv, RowInv, LikeInv, CommentsConsistent, Mentioned
<1>2. CommentsInit => CommentInv
  BY CommentInit
<1>3. CommentInv /\ [CommentsNext]_commentVars => CommentInv'
  BY CommentStep
<1>. QED BY <1>1, <1>2, <1>3, PTL DEF CommentsSpec

-----------------------------------------------------------------------------
(* The collected news. *)

\* Once a board was saved, a ticker that has been on it ever since is on it; and what was
\* pruned too early was pruned before.
HotInv ==
  /\ listed /\ booted => board
  /\ Corp!HotIsKeptOnceUp

CorpInv == Corp!TypeOK /\ HotInv

LEMMA CorpInit == Corp!CorpusAssumption /\ Corp!Init => CorpInv
<1> SUFFICES ASSUME Corp!CorpusAssumption, Corp!Init PROVE CorpInv
  OBVIOUS
<1>1. trending \in BOOLEAN /\ board \in BOOLEAN /\ booted \in BOOLEAN /\ answered \in BOOLEAN
      /\ listed \in BOOLEAN /\ stubborn \subseteq News
  BY DEF Corp!Init
<1>2. Corp!TypeOK
  BY <1>1 DEF Corp!CorpusAssumption, Corp!Init, Corp!TypeOK
<1>3. HotInv
  BY DEF Corp!Init, HotInv, Corp!HotIsKeptOnceUp
<1> QED  BY <1>2, <1>3 DEF CorpInv

LEMMA FaultType ==
  ASSUME Corp!CorpusAssumption, Corp!TypeOK
  PROVE  Corp!Fault => faults' \in 0..MaxFaults
BY DEF Corp!CorpusAssumption, Corp!TypeOK, Corp!Fault

LEMMA CorpNext ==
  ASSUME Corp!CorpusAssumption, CorpInv, [Corp!Next]_(Corp!corpusVars)
  PROVE  CorpInv'
<1> USE DEF Corp!collectVars, Corp!transVars, Corp!pruneVars
<1>0. Corp!TypeOK /\ HotInv /\ (Corp!Fault => faults' \in 0..MaxFaults)
  BY FaultType DEF CorpInv
<1>1. CASE Corp!Midnight \/ (\E i \in News : Corp!Publish(i)) \/ UNCHANGED Corp!corpusVars
  <2>1. UNCHANGED <<trending, row, board, pc, hand, booted, batch, answered, stubborn, pass, early, cold,
                    faults, listed>>
    BY <1>1 DEF Corp!Midnight, Corp!Publish, Corp!corpusVars
  <2>2. day' \in 1..MaxDay /\ published' \in [News -> 0..MaxDay]
    BY <1>0, <1>1 DEF Corp!Midnight, Corp!Publish, Corp!corpusVars, Corp!TypeOK, Corp!CorpusAssumption
  <2>3. Corp!TypeOK'
    BY <1>0, <2>1, <2>2 DEF Corp!TypeOK
  <2> QED  BY <1>0, <2>1, <2>3 DEF CorpInv, HotInv, Corp!HotIsKeptOnceUp
<1>2. CASE Corp!StopTrending \/ Corp!SaveBoard
  <2>1. UNCHANGED <<day, published, row, hand, batch, answered, stubborn, pass, early, cold>>
    BY <1>2 DEF Corp!StopTrending, Corp!SaveBoard
  <2>2. trending' \in BOOLEAN /\ listed' \in BOOLEAN /\ board' \in BOOLEAN /\ booted' \in BOOLEAN
    BY <1>0, <1>2 DEF Corp!StopTrending, Corp!SaveBoard, Corp!TypeOK
  <2>3. pc' \in {"idle", "news", "save"} /\ faults' \in 0..MaxFaults
    BY <1>0, <1>2 DEF Corp!StopTrending, Corp!SaveBoard, Corp!TypeOK
  <2>4. Corp!TypeOK'
    BY <1>0, <2>1, <2>2, <2>3 DEF Corp!TypeOK
  <2>5. listed' /\ booted' => board'
    <3>1. CASE Corp!StopTrending
      BY <3>1 DEF Corp!StopTrending
    <3>2. CASE board' = trending /\ listed' = trending
      BY <3>2
    <3>3. CASE UNCHANGED <<board, booted, listed>>
      BY <1>0, <3>3 DEF HotInv
    <3> QED  BY <1>2, <3>1, <3>2, <3>3 DEF Corp!SaveBoard
  <2> QED  BY <1>0, <2>1, <2>4, <2>5 DEF CorpInv, HotInv, Corp!HotIsKeptOnceUp
<1>3. CASE Corp!Fetch \/ Corp!SaveNews
  <2>1. UNCHANGED <<day, published, trending, board, booted, batch, answered, stubborn, pass, early,
                    cold, listed>>
    BY <1>3 DEF Corp!Fetch, Corp!SaveNews
  <2>2. /\ pc' \in {"idle", "news", "save"} /\ hand' \subseteq News
        /\ row' \in [News -> {"none", "raw", "translated"}] /\ faults' \in 0..MaxFaults
    BY <1>0, <1>3 DEF Corp!Fetch, Corp!SaveNews, Corp!Saved, Corp!TypeOK
  <2>3. Corp!TypeOK'
    BY <1>0, <2>1, <2>2 DEF Corp!TypeOK
  <2> QED  BY <1>0, <2>1, <2>3 DEF CorpInv, HotInv, Corp!HotIsKeptOnceUp
<1>4. CASE Corp!Translator
  <2>1. UNCHANGED <<day, published, trending, board, pc, hand, booted, stubborn, pass, early, cold,
                    listed>>
    BY <1>4 DEF Corp!Translator, Corp!Sweep, Corp!Translate, Corp!StoreTranslation
  <2>2. /\ row' \in [News -> {"none", "raw", "translated"}] /\ batch' \subseteq News
        /\ faults' \in 0..MaxFaults
    BY <1>0, <1>4 DEF Corp!Translator, Corp!Sweep, Corp!Translate, Corp!StoreTranslation,
      Corp!Newest, Corp!Untranslated, Corp!TypeOK
  <2>3. answered' \in BOOLEAN
    BY <1>0, <1>4 DEF Corp!Translator, Corp!Sweep, Corp!Translate, Corp!StoreTranslation, Corp!TypeOK
  <2>4. Corp!TypeOK'
    BY <1>0, <2>1, <2>2, <2>3 DEF Corp!TypeOK
  <2> QED  BY <1>0, <2>1, <2>4 DEF CorpInv, HotInv, Corp!HotIsKeptOnceUp
<1>5. CASE Corp!StartPass
  <2>1. Corp!TypeOK'
    BY <1>0, <1>5 DEF Corp!StartPass, Corp!TypeOK
  <2> QED  BY <1>0, <1>5, <2>1 DEF Corp!StartPass, CorpInv, HotInv, Corp!HotIsKeptOnceUp
<1>6. CASE Corp!Prune
  <2>1. UNCHANGED <<day, published, trending, board, pc, hand, booted, batch, answered, stubborn, listed>>
    BY <1>6 DEF Corp!Prune
  <2>2. Corp!Pruned \subseteq News
    BY DEF Corp!Pruned
  <2>3. /\ row' \in [News -> {"none", "raw", "translated"}] /\ pass' \in {"cap", "idle"}
        /\ faults' \in 0..MaxFaults /\ early' \subseteq News /\ cold' \subseteq News
    BY <1>0, <1>6, <2>2 DEF Corp!Prune, Corp!TypeOK
  <2>4. Corp!TypeOK'
    BY <1>0, <2>1, <2>3 DEF Corp!TypeOK
  <2>5. CASE UNCHANGED <<early, cold>>
    BY <1>0, <2>1, <2>4, <2>5 DEF CorpInv, HotInv, Corp!HotIsKeptOnceUp
  <2>6. ASSUME NEW robbed,
               robbed = (IF pass = "cap" \/ ~listed THEN {}
                         ELSE {i \in Corp!Pruned : Corp!Age(i) <= HotDays}),
               early' = early \cup robbed, cold' = cold \cup (IF booted THEN {} ELSE robbed)
        PROVE  CorpInv'
    <3>1. booted => robbed = {}
      <4>1. SUFFICES ASSUME booted, pass = "old", listed, NEW i \in Corp!Pruned
                     PROVE  ~(Corp!Age(i) <= HotDays)
        BY <1>0, <1>6, <2>6 DEF Corp!Prune, Corp!TypeOK
      <4>2. i \in News /\ Corp!Age(i) > HotDays
        BY <1>0, <4>1 DEF Corp!Pruned, Corp!TooOld, HotInv
      <4>3. Corp!Age(i) \in Int
        BY <1>0, <4>2 DEF Corp!Age, Corp!TypeOK
      <4> QED  BY <4>2, <4>3 DEF Corp!CorpusAssumption
    <3>2. Corp!HotIsKeptOnceUp'
      BY <1>0, <2>6, <3>1 DEF HotInv, Corp!HotIsKeptOnceUp
    <3> QED  BY <1>0, <2>1, <2>4, <3>2 DEF CorpInv, HotInv
  <2> QED  BY <1>6, <2>5, <2>6 DEF Corp!Prune
<1>7. CASE Corp!Restart
  <2>1. UNCHANGED <<day, published, trending, row, stubborn, early, cold, listed>>
    BY <1>7 DEF Corp!Restart
  <2>2. /\ board' \in BOOLEAN /\ booted' \in BOOLEAN /\ answered' \in BOOLEAN /\ ~booted'
    BY <1>7 DEF Corp!Restart
  <2>3. pc' = "idle" /\ hand' = {} /\ batch' = {} /\ pass' = "old" /\ faults' \in 0..MaxFaults
    BY <1>0, <1>7 DEF Corp!Restart
  <2>4. Corp!TypeOK'
    BY <1>0, <2>1, <2>2, <2>3 DEF Corp!TypeOK
  <2> QED  BY <1>0, <2>1, <2>2, <2>4 DEF CorpInv, HotInv, Corp!HotIsKeptOnceUp
<1> QED  BY <1>1, <1>2, <1>3, <1>4, <1>5, <1>6, <1>7 DEF Corp!Next

\* The news are well typed, ...
THEOREM CorpusTypes == ASSUME Corp!CorpusAssumption PROVE Corp!Spec => []Corp!TypeOK
<1>1. CorpInv => Corp!TypeOK
  BY DEF CorpInv
<1> QED  BY CorpInit, CorpNext, <1>1, PTL DEF Corp!Spec

\* ... and an item of a ticker that stays on the board is pruned early only between a start
\* and the first board after it.
THEOREM HotNewsIsKept == ASSUME Corp!CorpusAssumption PROVE Corp!Spec => []Corp!HotIsKeptOnceUp
<1>1. CorpInv => Corp!HotIsKeptOnceUp
  BY DEF CorpInv, HotInv
<1> QED  BY CorpInit, CorpNext, <1>1, PTL DEF Corp!Spec
=============================================================================
