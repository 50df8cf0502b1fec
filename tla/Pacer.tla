------------------------------- MODULE Pacer --------------------------------
(***************************************************************************)
(* The outbound token bucket of internal/alpaca (ratelimit.go), which all  *)
(* scans and on-demand fetches share: Wait takes a token, or computes how  *)
(* long the next one will take, sleeps with the mutex released and tries   *)
(* again; there is no queue.                                               *)
(*                                                                         *)
(* A token is worth Cost ticks of refill, so the bucket is measured in     *)
(* ticks.  The clock itself is not a variable: elapsed is the time since   *)
(* the last refill, as far as it matters, and due the time each sleeper    *)
(* has left.                                                               *)
(***************************************************************************)
EXTENDS Integers

CONSTANTS
  Callers,   \* goroutines that call Wait
  Cost,      \* ticks to refill one token: 1/perSec
  Bursts,    \* the burst sizes newTokenBucket is called with
  MaxCalls   \* bound: calls of each goroutine

ASSUME PacerConstants == /\ Cost \in Nat \ {0} /\ Bursts \subseteq Nat
                         /\ MaxCalls \in Nat

VARIABLES
  max,      \* b.max
  tokens,   \* b.tokens
  elapsed,  \* time since b.last, up to what fills the bucket
  caller,   \* out, asking or sleeping
  due,      \* what a sleeper's timer has left
  calls,    \* calls so far
  level     \* history: a reference bucket that drains one tick per tick

pacerVars == <<max, tokens, elapsed, caller, due, calls, level>>

Smaller(a, b) == IF a < b THEN a ELSE b

\* Mutant: a burst of less than one token is accepted.
BucketMaxAsGiven(burst) == burst * Cost

\* newTokenBucket: a bucket that cannot hold a token would never give one.
BucketMax(burst) == (IF burst < 1 THEN 1 ELSE burst) * Cost

PacerInit ==
  /\ max \in {BucketMax(b) : b \in Bursts}
  /\ tokens = max /\ elapsed = 0
  /\ caller = [w \in Callers |-> "out"]
  /\ due = [w \in Callers |-> 0]
  /\ calls = [w \in Callers |-> 0]
  /\ level = 0

\* Mutant: a refill is not capped.
RefilledOver == tokens + elapsed

\* The tokens after the refill for the elapsed time.
Refilled == Smaller(max, tokens + elapsed)

Call(w) ==
  /\ caller[w] = "out" /\ calls[w] < MaxCalls
  /\ caller' = [caller EXCEPT ![w] = "asking"]
  /\ calls' = [calls EXCEPT ![w] = @ + 1]
  /\ UNCHANGED <<max, tokens, elapsed, due, level>>

\* The critical section of Wait finds a token.
TakeToken(w) ==
  /\ caller[w] = "asking" /\ Refilled >= Cost
  /\ tokens' = Refilled - Cost /\ elapsed' = 0
  /\ caller' = [caller EXCEPT ![w] = "out"]
  /\ level' = level + Cost
  /\ UNCHANGED <<max, due, calls>>

\* It does not, and sets a timer for when one is due.
FallAsleep(w) ==
  /\ caller[w] = "asking" /\ Refilled < Cost
  /\ tokens' = Refilled /\ elapsed' = 0
  /\ caller' = [caller EXCEPT ![w] = "sleeping"]
  /\ due' = [due EXCEPT ![w] = Cost - Refilled]
  /\ UNCHANGED <<max, calls, level>>

WakeUp(w) ==
  /\ caller[w] = "sleeping" /\ due[w] = 0
  /\ caller' = [caller EXCEPT ![w] = "asking"]
  /\ UNCHANGED <<max, tokens, elapsed, due, calls, level>>

\* The caller's context ends while it sleeps.
Cancel(w) ==
  /\ caller[w] = "sleeping"
  /\ caller' = [caller EXCEPT ![w] = "out"]
  /\ due' = [due EXCEPT ![w] = 0]
  /\ UNCHANGED <<max, tokens, elapsed, calls, level>>

PacerTick ==
  /\ elapsed' = IF elapsed < max THEN elapsed + 1 ELSE elapsed
  /\ due' = [w \in Callers |-> IF due[w] > 0 THEN due[w] - 1 ELSE 0]
  /\ level' = IF level > 0 THEN level - 1 ELSE 0
  /\ UNCHANGED <<max, tokens, caller, calls>>

PacerNext ==
  \/ \E w \in Callers :
       Call(w) \/ TakeToken(w) \/ FallAsleep(w) \/ WakeUp(w) \/ Cancel(w)
  \/ PacerTick

\* Time passes, and a goroutine that can run is scheduled.
PacerFairness ==
  /\ WF_pacerVars(PacerTick)
  /\ \A w \in Callers : WF_pacerVars(TakeToken(w) \/ FallAsleep(w) \/ WakeUp(w))

PacerSpec == PacerInit /\ [][PacerNext]_pacerVars /\ PacerFairness

-----------------------------------------------------------------------------
(* Properties. *)

PacerTypeOK ==
  /\ max \in Nat /\ tokens \in 0..max /\ elapsed \in 0..max
  /\ caller \in [Callers -> {"out", "asking", "sleeping"}]
  /\ due \in [Callers -> 0..Cost] /\ calls \in [Callers -> Nat] /\ level \in Nat

\* What the bucket is for ("a multi-scan cold-start can no longer storm Alpaca
\* into 429s"): over every stretch of time, however many goroutines wake at
\* once, no more is let through than a burst and the refill of the stretch -
\* otherwise a bucket of the same size that leaks at the refill rate would
\* overflow.
NeverStorms == level <= max

\* Nobody sleeps for ever: when the calls are finitely many, every one of them
\* returns, though a waiter may be overtaken by others while it sleeps.
WaitReturns == <>[](\A w \in Callers : caller[w] = "out")
=============================================================================
