----------------------------- MODULE DailyGates -----------------------------
(***************************************************************************)
(* The five per-day caches of internal/api with a single-flight gate: the  *)
(* AI digest (getSummary), the move explainer (getMovement), the overview  *)
(* of My digest (getMyDigest), the 8-K summaries (getMaterialEvents) and   *)
(* the Form 4 timeline (getInsiderActivity).  Each handler has its own     *)
(* mutex, cache and gate and its own variant of the same protocol; kind    *)
(* says which of them this behaviour is about.                             *)
(*                                                                         *)
(* A key is a ticker (or user) and the ET day the request read when it     *)
(* came in.  The first three spawn a goroutine and answer "generating";    *)
(* the last two generate in the request while the others wait on its       *)
(* channel.  A critical section of the code is one action.                 *)
(***************************************************************************)
EXTENDS Integers, FiniteSets

CONSTANTS
  Procs,      \* requests, each with the goroutine it may spawn
  Tickers,
  None,       \* no job
  Cap,        \* generations a day (150, 120, 80)
  MaxDay,     \* bound: ET days
  MaxAsks,    \* bound: requests
  MaxFaults   \* bound: panics, store calls that fail, and restarts

Kinds == {"summary", "movement", "digest", "material", "insider"}
Background == {"summary", "movement", "digest"}
Capped == {"summary", "movement", "material"}
Keys == Tickers \X (1..MaxDay)

GatesAssumption ==
  /\ IsFiniteSet(Procs) /\ None \notin Keys /\ Cap \in Nat
  /\ MaxDay \in Nat \ {0} /\ MaxAsks \in Nat /\ MaxFaults \in Nat

VARIABLES
  kind,
  today,      \* the ET day
  cache,      \* keys in the memory cache
  stored,     \* keys in the ai_summaries table
  inflight,   \* keys in the gate
  dayDate,    \* the day the counter is for (0: none yet)
  dayCount,   \* the daily counter
  pc, job,    \* where each request is, and its key
  slot,       \* it holds a slot of the daily cap
  asks, faults, restarted,
  spent,      \* history: slots of each day that bought a text
  made,       \* history: how often each key was generated (2: more than once)
  wedged,     \* history: keys a panicking request left in the gate
  stray,      \* history: refunds that went to another day's counter
  turnedBack  \* history: a request from before midnight came after one of the new day

gateVars == <<cache, inflight, dayDate, dayCount>>
procVars == <<pc, job, slot>>
bounds == <<asks, faults, restarted>>
history == <<spent, made, wedged, stray, turnedBack>>
vars == <<kind, today, stored, gateVars, procVars, bounds, history>>

Init ==
  /\ kind \in Kinds
  /\ today = 1
  /\ cache = {} /\ stored = {} /\ inflight = {}
  /\ dayDate = 0 /\ dayCount = 0
  /\ pc = [p \in Procs |-> "out"]
  /\ job = [p \in Procs |-> None]
  /\ slot = [p \in Procs |-> FALSE]
  /\ asks = 0 /\ faults = 0 /\ restarted = FALSE
  /\ spent = [d \in 1..MaxDay |-> 0]
  /\ made = [k \in Keys |-> 0]
  /\ wedged = {}
  /\ stray = [d \in 1..MaxDay |-> 0]
  /\ turnedBack = FALSE

Day(p) == job[p][2]

\* The handler has answered (a goroutine it spawned may go on elsewhere).
Return(p) ==
  /\ pc' = [pc EXCEPT ![p] = "out"]
  /\ job' = [job EXCEPT ![p] = None]
  /\ slot' = [slot EXCEPT ![p] = FALSE]

Goto(p, at) == pc' = [pc EXCEPT ![p] = at] /\ UNCHANGED <<job, slot>>

Midnight ==
  /\ today < MaxDay
  /\ today' = today + 1
  /\ UNCHANGED <<kind, stored, gateVars, procVars, bounds, history>>

Ask(p, t) ==
  /\ pc[p] = "out" /\ asks < MaxAsks
  /\ asks' = asks + 1
  /\ job' = [job EXCEPT ![p] = <<t, today>>]
  /\ pc' = [pc EXCEPT ![p] = IF kind \in Background THEN "asked" ELSE "deciding"]
  /\ UNCHANGED <<kind, today, stored, gateVars, slot, faults, restarted, history>>

-----------------------------------------------------------------------------
(* The day roll: the counter starts again and other days' entries go. *)

Kept(d) == IF dayDate = d THEN cache ELSE {k \in cache : k[2] = d}
CountOn(d) == IF dayDate = d THEN dayCount ELSE 0

\* Roll to day d, adding keys to the cache and taking n slots.
Roll(d, keys, n) ==
  /\ cache' = Kept(d) \cup keys
  /\ dayDate' = d
  /\ dayCount' = CountOn(d) + n
  /\ turnedBack' = (turnedBack \/ d < dayDate)

Stay == UNCHANGED <<cache, dayDate, dayCount, turnedBack>>

-----------------------------------------------------------------------------
(* The first critical section of the background kinds, and the store. *)

LookHit(p) ==
  /\ pc[p] = "asked" /\ job[p] \in cache
  /\ Return(p)
  /\ UNCHANGED <<kind, today, stored, gateVars, bounds, history>>

\* getMyDigest sweeps the other days' entries whenever it misses.
LookMiss(p) ==
  /\ pc[p] = "asked" /\ job[p] \notin cache
  /\ Goto(p, IF kind = "summary" THEN "loading" ELSE "deciding")
  /\ IF kind = "digest"
     THEN /\ cache' = {k \in cache : k[2] = Day(p)}
          /\ dayDate' = Day(p)
          /\ turnedBack' = (turnedBack \/ Day(p) < dayDate)
          /\ UNCHANGED dayCount
     ELSE Stay
  /\ UNCHANGED <<kind, today, stored, inflight, bounds, spent, made, wedged, stray>>

\* getSummary: a digest persisted by an earlier process is loaded.
LoadStored(p) ==
  /\ pc[p] = "loading" /\ job[p] \in stored
  /\ cache' = cache \cup {job[p]}
  /\ Return(p)
  /\ UNCHANGED <<kind, today, stored, inflight, dayDate, dayCount, bounds, history>>

\* There is none, or the read failed, which counts as a miss.
LoadNothing(p) ==
  /\ pc[p] = "loading"
  /\ IF job[p] \in stored THEN faults < MaxFaults /\ faults' = faults + 1
                          ELSE UNCHANGED faults
  /\ Goto(p, "deciding")
  /\ UNCHANGED <<kind, today, stored, gateVars, asks, restarted, history>>

\* No movement data (404), no material, not Pro: the answer needs no generation.
NothingToMake(p) ==
  /\ pc[p] = "deciding" /\ kind \in {"movement", "digest"}
  /\ Return(p)
  /\ UNCHANGED <<kind, today, stored, gateVars, bounds, history>>

-----------------------------------------------------------------------------
(* The critical section that decides.  getSummary and getInsiderActivity   *)
(* roll the day first, getMovement after the second look at the cache, and *)
(* getMaterialEvents only when it goes on to generate.                     *)

Cached(p) == job[p] \in cache

DecideHit(p) ==
  /\ pc[p] = "deciding" /\ Cached(p)
  /\ Return(p)
  /\ IF kind \in {"summary", "insider"} THEN Roll(Day(p), {}, 0) ELSE Stay
  /\ UNCHANGED <<kind, today, stored, inflight, bounds, spent, made, wedged, stray>>

\* The answer of the day needs no text (no news and posts; a move that is not
\* significant, or no LLM): it is cached, and the empty digest persisted (best effort).
DecideTerminal(p) ==
  /\ pc[p] = "deciding" /\ ~Cached(p)
  /\ \/ kind = "movement"
     \/ kind = "summary" /\ job[p] \notin inflight
  /\ Return(p)
  /\ Roll(Day(p), {job[p]}, 0)
  /\ stored' \in {stored} \cup (IF kind = "summary" THEN {stored \cup {job[p]}} ELSE {})
  /\ UNCHANGED <<kind, today, inflight, bounds, spent, made, wedged, stray>>

\* Mutant: the gate is not looked at.
BusyNever(k) == k \notin Keys

Busy(k) == k \in inflight

\* Somebody generates this key: "generating", or wait for the channel.
DecideBusy(p) ==
  /\ pc[p] = "deciding" /\ ~Cached(p) /\ Busy(job[p])
  /\ IF kind \in Background THEN Return(p) ELSE Goto(p, "waiting")
  /\ IF kind \in {"summary", "movement", "insider"} THEN Roll(Day(p), {}, 0) ELSE Stay
  /\ UNCHANGED <<kind, today, stored, inflight, bounds, spent, made, wedged, stray>>

\* "quota_exhausted"; nothing is cached.
DecideFull(p) ==
  /\ pc[p] = "deciding" /\ ~Cached(p) /\ ~Busy(job[p])
  /\ kind \in {"summary", "movement"} /\ CountOn(Day(p)) >= Cap
  /\ Return(p)
  /\ Roll(Day(p), {}, 0)
  /\ UNCHANGED <<kind, today, stored, inflight, bounds, spent, made, wedged, stray>>

\* The sole generator takes the gate, and a slot: getMaterialEvents goes on
\* without a text when there is none left (or no LLM).
DecideGenerate(p) ==
  /\ pc[p] = "deciding" /\ ~Cached(p) /\ ~Busy(job[p])
  /\ kind \in {"summary", "movement"} => CountOn(Day(p)) < Cap
  /\ \E takes \in BOOLEAN :
       /\ takes => kind \in Capped /\ CountOn(Day(p)) < Cap
       /\ kind \in {"summary", "movement"} => takes
       /\ slot' = [slot EXCEPT ![p] = takes]
       /\ IF kind = "digest"
          THEN UNCHANGED <<cache, dayDate, dayCount>> /\ turnedBack' = (turnedBack \/ Day(p) < dayDate)
          ELSE Roll(Day(p), {}, IF takes THEN 1 ELSE 0)
  /\ inflight' = inflight \cup {job[p]}
  /\ pc' = [pc EXCEPT ![p] = "composing"]
  /\ UNCHANGED <<kind, today, stored, job, bounds, spent, made, wedged, stray>>

\* A waiting client goes away.
GiveUp(p) ==
  /\ pc[p] = "waiting"
  /\ Return(p)
  /\ UNCHANGED <<kind, today, stored, gateVars, bounds, history>>

-----------------------------------------------------------------------------
(* The generator. *)

\* Mutant: a refund is not checked against the day of the slot.
RefundedUnchecked(d) == dayCount - 1

\* A background generator gives its slot back if the counter is still its day's.
Refunded(d) == IF dayDate = d /\ dayCount > 0 THEN dayCount - 1 ELSE dayCount

\* The text is there; a digest is persisted (best effort) before it is cached.
Composed(p) ==
  /\ pc[p] = "composing"
  /\ Goto(p, "keeping")
  /\ \/ stored' = (IF kind = "summary" THEN stored \cup {job[p]} ELSE stored) /\ UNCHANGED faults
     \/ kind = "summary" /\ faults < MaxFaults /\ faults' = faults + 1 /\ UNCHANGED stored
  /\ UNCHANGED <<kind, today, gateVars, asks, restarted, history>>

\* There is no text.  getMaterialEvents takes its slot off whatever day the
\* counter is at, and still keeps the report unless the filings failed too.
NotComposed(p) ==
  /\ pc[p] = "composing"
  /\ \/ pc' = [pc EXCEPT ![p] = "dropping"]
     \/ kind = "material" /\ slot[p] /\ pc' = [pc EXCEPT ![p] = "keeping"]
  /\ IF kind = "material" /\ slot[p]
     THEN /\ dayCount' = dayCount - 1
          /\ slot' = [slot EXCEPT ![p] = FALSE]
          /\ stray' = IF dayDate = Day(p) THEN stray ELSE [stray EXCEPT ![dayDate] = @ + 1]
     ELSE UNCHANGED <<dayCount, slot, stray>>
  /\ UNCHANGED <<kind, today, stored, cache, inflight, dayDate, job, bounds, spent, made, wedged, turnedBack>>

\* close(ch): those who wait for the key look again.
Wake(p, to) ==
  pc' = [q \in Procs |-> IF q = p THEN to
                         ELSE IF pc[q] = "waiting" /\ job[q] = job[p] THEN "deciding" ELSE pc[q]]

\* The gate is opened and the generator is done.
Release(p) ==
  /\ inflight' = inflight \ {job[p]}
  /\ Wake(p, "out")
  /\ job' = [job EXCEPT ![p] = None]
  /\ slot' = [slot EXCEPT ![p] = FALSE]

FinishKept(p) ==
  /\ pc[p] = "keeping"
  /\ cache' = cache \cup {job[p]}
  /\ made' = [made EXCEPT ![job[p]] = IF @ < 2 THEN @ + 1 ELSE @]
  /\ spent' = IF slot[p] THEN [spent EXCEPT ![Day(p)] = @ + 1] ELSE spent
  /\ Release(p)
  /\ UNCHANGED <<kind, today, stored, dayDate, dayCount, bounds, wedged, stray, turnedBack>>

FinishDropped(p) ==
  /\ pc[p] = "dropping"
  /\ dayCount' = IF slot[p] THEN Refunded(Day(p)) ELSE dayCount
  /\ Release(p)
  /\ UNCHANGED <<kind, today, stored, cache, dayDate, bounds, history>>

\* The goroutine panics and recovers: gate and slot are given back.
PanicRecovered(p) ==
  /\ pc[p] = "composing" /\ kind \in Background /\ faults < MaxFaults
  /\ faults' = faults + 1
  /\ dayCount' = IF slot[p] THEN Refunded(Day(p)) ELSE dayCount
  /\ Release(p)
  /\ UNCHANGED <<kind, today, stored, cache, dayDate, asks, restarted, history>>

\* The requests that generate have no recover: net/http swallows the panic.
PanicSwallowed(p) ==
  /\ pc[p] = "composing" /\ kind \notin Background /\ faults < MaxFaults
  /\ faults' = faults + 1
  /\ wedged' = wedged \cup {job[p]}
  /\ Return(p)
  /\ UNCHANGED <<kind, today, stored, gateVars, asks, restarted, spent, made, stray, turnedBack>>

\* The process restarts; only the table survives.
Restart ==
  /\ faults < MaxFaults
  /\ faults' = faults + 1 /\ restarted' = TRUE
  /\ cache' = {} /\ inflight' = {} /\ dayDate' = 0 /\ dayCount' = 0
  /\ pc' = [p \in Procs |-> "out"] /\ job' = [p \in Procs |-> None]
  /\ slot' = [p \in Procs |-> FALSE]
  /\ spent' = [d \in 1..MaxDay |-> 0] /\ stray' = [d \in 1..MaxDay |-> 0]
  /\ wedged' = {}
  /\ UNCHANGED <<kind, today, stored, asks, made, turnedBack>>

Decide(p) ==
  DecideHit(p) \/ DecideTerminal(p) \/ DecideBusy(p) \/ DecideFull(p) \/ DecideGenerate(p)

Generator(p) == Composed(p) \/ NotComposed(p) \/ FinishKept(p) \/ FinishDropped(p)

Next ==
  \/ \E p \in Procs :
       \/ \E t \in Tickers : Ask(p, t)
       \/ LookHit(p) \/ LookMiss(p) \/ LoadStored(p) \/ LoadNothing(p)
       \/ NothingToMake(p) \/ Decide(p) \/ GiveUp(p)
       \/ Generator(p) \/ PanicRecovered(p) \/ PanicSwallowed(p)
  \/ Midnight \/ Restart

\* A generator's LLM and SEC calls have deadlines, so it ends.
Fairness == \A p \in Procs : WF_vars(Generator(p))

Spec == Init /\ [][Next]_vars /\ Fairness

-----------------------------------------------------------------------------
(* Properties. *)

Generating(p) == pc[p] \in {"composing", "keeping", "dropping"}

TypeOK ==
  /\ kind \in Kinds /\ today \in 1..MaxDay
  /\ cache \subseteq Keys /\ stored \subseteq Keys /\ inflight \subseteq Keys
  /\ dayDate \in 0..MaxDay /\ dayCount \in (IF kind = "material" THEN Int ELSE Nat)
  /\ pc \in [Procs -> {"out", "asked", "loading", "deciding", "waiting",
                       "composing", "keeping", "dropping"}]
  /\ job \in [Procs -> Keys \cup {None}]
  /\ \A p \in Procs : IF pc[p] = "out" THEN job[p] = None ELSE job[p] \in Keys
  /\ slot \in [Procs -> BOOLEAN]
  /\ asks \in 0..MaxAsks /\ faults \in 0..MaxFaults /\ restarted \in BOOLEAN
  /\ spent \in [1..MaxDay -> Nat] /\ made \in [Keys -> 0..2]
  /\ wedged \subseteq Keys /\ stray \in [1..MaxDay -> Nat] /\ turnedBack \in BOOLEAN

\* No key is generated by two at once, and only a restart takes all of them away.
SF == INSTANCE SingleFlight WITH
        flight <- [p \in Procs |-> IF Generating(p) THEN job[p] ELSE None]

GatesAreSingleFlight == SF!Spec

\* The daily backstop: the texts of a day, made or being made, are no more than
\* the cap and the refunds that came to that day's counter from another day.
\* (After a request from before midnight has reset the counter all bets are off.)
DailyCapHolds ==
  turnedBack \/
    \A d \in 1..MaxDay :
      spent[d] + Cardinality({p \in Procs : Generating(p) /\ slot[p] /\ Day(p) = d})
        <= Cap + stray[d]

\* "generated at most once per day": nothing is generated again while it is
\* kept - in the table, for the AI digest, also across restarts.
MadeOnce ==
  \A k \in Keys :
    made[k] > 1 => \/ turnedBack
                   \/ restarted /\ (kind # "summary" \/ faults > 1)

\* What the day's budget buys is bounded, and bought once.
BudgetKept == DailyCapHolds /\ MadeOnce

\* "the inflight gate is always cleared (no goroutine / map leak)": when the requests are
\* finitely many, every key that is taken is given back and every request that waits for
\* another's report is woken, unless the panic of a synchronous request left the key in the gate.
GatesReopen ==
  <>[](/\ inflight \subseteq wedged
       /\ \A p \in Procs : pc[p] = "waiting" => job[p] \in wedged)
=============================================================================
