----------------------------- MODULE RateLimit ------------------------------
(***************************************************************************)
(* The per-IP token bucket of internal/ratelimit: allow, and the sweeper   *)
(* that forgets idle buckets.  Time is counted in ticks; a token is worth  *)
(* Cost ticks of refill, so a bucket is measured in ticks too.             *)
(*                                                                         *)
(* allow and sweep read the clock before they take the lock of the shard,  *)
(* so they may use a time up to MaxLag ticks old.                          *)
(***************************************************************************)
EXTENDS Integers, FiniteSets

CONSTANTS
  IPs,       \* clients
  Cost,      \* ticks to refill one token: 1/rps
  Burst,     \* capacity, in tokens
  IdleEv,    \* ticks a bucket is untouched before the sweeper drops it
  MaxLag,    \* bound: how long a goroutine waits for a lock
  LastTick,  \* bound: the clock stops here
  None       \* no bucket

Cap == Burst * Cost
Time == 0..LastTick
Bucket == [tokens : 0..Cap, last : Time]

ASSUME ConfigType == /\ Cost \in Nat \ {0} /\ Burst \in Nat \ {0}
                     /\ IdleEv \in Nat /\ MaxLag \in Nat /\ LastTick \in Nat
\* A bucket refills before it is forgotten, whatever the lag (New does not
\* check it; with the defaults it takes 12 s to refill and 10 min to forget).
ASSUME RefillsBeforeEviction == Cap + MaxLag <= IdleEv
ASSUME NoneIsNoBucket == None \notin Bucket

VARIABLES
  now,       \* the clock
  buckets,   \* sh.buckets
  admitted   \* history: requests admitted up to each tick, per client

vars == <<now, buckets, admitted>>

Init ==
  /\ now = 0
  /\ buckets = [ip \in IPs |-> None]
  /\ admitted = [ip \in IPs |-> [t \in Time |-> 0]]

\* The clock values a goroutine that holds the lock now may have read.
Read == {t \in Time : t <= now /\ now <= t + MaxLag}

-----------------------------------------------------------------------------
\* Mutant: the bucket is not capped at burst.
RefilledUncapped(b, t) ==
  IF t > b.last THEN [tokens |-> b.tokens + (t - b.last), last |-> t] ELSE b

\* The bucket after the refill for the elapsed time; a clock read that is not
\* after the last refill adds nothing.
Refilled(b, t) ==
  IF t > b.last
  THEN [tokens |-> IF b.tokens + (t - b.last) > Cap THEN Cap ELSE b.tokens + (t - b.last),
        last |-> t]
  ELSE b

Spend(b) == [b EXCEPT !.tokens = @ - Cost]

Admit(ip) == admitted' = [admitted EXCEPT ![ip] =
                            [t \in Time |-> IF t >= now THEN @[t] + 1 ELSE @[t]]]

\* Mutant: a new bucket starts empty.
AllowNewEmpty(ip, t) ==
  /\ buckets[ip] = None
  /\ buckets' = [buckets EXCEPT ![ip] = [tokens |-> 0, last |-> t]]
  /\ Admit(ip)
  /\ UNCHANGED now

\* First sighting: a full bucket less one token.
AllowNew(ip, t) ==
  /\ buckets[ip] = None
  /\ buckets' = [buckets EXCEPT ![ip] = [tokens |-> Cap - Cost, last |-> t]]
  /\ Admit(ip)
  /\ UNCHANGED now

Allow(ip, t) ==
  /\ buckets[ip] # None
  /\ Refilled(buckets[ip], t).tokens >= Cost
  /\ buckets' = [buckets EXCEPT ![ip] = Spend(Refilled(@, t))]
  /\ Admit(ip)
  /\ UNCHANGED now

Reject(ip, t) ==
  /\ buckets[ip] # None
  /\ Refilled(buckets[ip], t).tokens < Cost
  /\ buckets' = [buckets EXCEPT ![ip] = Refilled(@, t)]
  /\ UNCHANGED <<now, admitted>>

\* Mutant: the idle time is not taken off the cutoff.
EvictEarly(ip, t) ==
  /\ buckets[ip] # None
  /\ buckets[ip].last < t
  /\ buckets' = [buckets EXCEPT ![ip] = None]
  /\ UNCHANGED <<now, admitted>>

\* The sweeper meets a bucket that is idle.
Evict(ip, t) ==
  /\ buckets[ip] # None
  /\ buckets[ip].last < t - IdleEv
  /\ buckets' = [buckets EXCEPT ![ip] = None]
  /\ UNCHANGED <<now, admitted>>

Tick ==
  /\ now < LastTick
  /\ now' = now + 1
  /\ UNCHANGED <<buckets, admitted>>

Next ==
  \/ \E ip \in IPs, t \in Read :
       AllowNew(ip, t) \/ Allow(ip, t) \/ Reject(ip, t) \/ Evict(ip, t)
  \/ Tick

Spec == Init /\ [][Next]_vars

-----------------------------------------------------------------------------
(* Properties. *)

TypeOK ==
  /\ now \in Time
  /\ buckets \in [IPs -> Bucket \cup {None}]
  /\ admitted \in [IPs -> [Time -> Nat]]

\* Requests of ip admitted after tick s and up to now.
Since(ip, s) == admitted[ip][now] - (IF s = 0 THEN 0 ELSE admitted[ip][s - 1])

\* The limit holds over every window of time, evictions included ("dropping it
\* loses no state"): from tick s to now at most a burst and the refill of the
\* window are admitted, give or take the clock lag.
WindowBound ==
  \A ip \in IPs : \A s \in 0..now : Since(ip, s) * Cost <= Cap + (now - s) + MaxLag

\* Nobody is throttled who keeps to the limit: a request would be rejected only
\* when some window that ends now has used up all but less than a token of its
\* allowance, give or take the clock lag.
Exceeds(ip) ==
  \E s \in 0..now : (Since(ip, s) + 1) * Cost > Cap + (now - s) - MaxLag
RejectsOnlyWhenSpent ==
  \A ip \in IPs, t \in Read :
    buckets[ip] # None /\ Refilled(buckets[ip], t).tokens < Cost => Exceeds(ip)

\* The limit is what it says, from either side.
LimitIsExact == WindowBound /\ RejectsOnlyWhenSpent
=============================================================================
