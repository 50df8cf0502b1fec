------------------------------ MODULE Research ------------------------------
(***************************************************************************)
(* The research report cache of internal/api/api.go: the synchronous       *)
(* report (getResearchSync) and the asynchronous deep report               *)
(* (getResearchDeep, composeDeepBackground), which share one mutex, one    *)
(* cache, one in-flight map and one daily LLM budget; the deep report also *)
(* has a durable copy and a monthly quota per user.                        *)
(*                                                                         *)
(* A process is a request and the goroutine it spawns.  Every critical     *)
(* section of researchMu, store call and LLM call is one step.  The LLM is *)
(* configured (with it off no generation ever starts).                     *)
(***************************************************************************)
EXTENDS Naturals, FiniteSets

CONSTANTS
  Procs,         \* requests in progress at once
  Users,         \* logged-in users
  Tickers,       \* one per (ticker, language)
  Demo,          \* tickers of the evergreen demo reports: no login, no quota
  Limit,         \* [Users -> Nat]: the monthly quota of the user's tier
  FreeLimit,     \* the quota of the free tier, used when the tier cannot be read
  DailyCap,      \* researchDailyCap
  Ttl,           \* deepReportTTL, in days
  MonthOf,       \* the ET month of each ET day
  None,          \* no user, key or entry
  LastDay,       \* bound: days 0..LastDay
  MaxRestarts,   \* bound: restarts (every deploy is one)
  StoreMayFail   \* whether store calls of the deep path can fail

Days == 0..LastDay
Months == {MonthOf[d] : d \in Days}

ASSUME DemoType == Demo \subseteq Tickers
ASSUME LimitType == Limit \in [Users -> Nat] /\ FreeLimit \in Nat
ASSUME NumbersType == /\ DailyCap \in Nat /\ Ttl \in Nat /\ LastDay \in Nat
                      /\ MaxRestarts \in Nat /\ StoreMayFail \in BOOLEAN
ASSUME ProcsFinite == IsFiniteSet(Procs)
ASSUME MonthOfType == MonthOf \in [Days -> Nat]

VARIABLES
  today,     \* the ET day
  cache,     \* researchCache: the day the entry of each key was generated
  inflight,  \* the keys of researchInflight
  dayDate,   \* researchDayDate
  dayCount,  \* researchDayCount
  stored,    \* store: the day the deep report of a ticker was saved
  used,      \* store: deep generations charged, per user and month
  proc,      \* the processes
  made,      \* history: generations with prose, per day
  granted,   \* history: deep generations with prose, per user and month
  restarts,  \* restarts so far
  lost       \* history: charges that failed or died with the process, per user and month

memory == <<cache, inflight, dayDate, dayCount>>
vars == <<today, cache, inflight, dayDate, dayCount, stored, used, proc, made, granted, restarts, lost>>

-----------------------------------------------------------------------------
(* Data. *)

\* A sync report is keyed by day, a deep one by month.
Key == [kind : {"sync"}, ticker : Tickers, period : Days] \cup
       [kind : {"deep"}, ticker : Tickers, period : Months]
SyncKey(t, d) == [kind |-> "sync", ticker |-> t, period |-> d]
DeepKey(t, d) == [kind |-> "deep", ticker |-> t, period |-> MonthOf[d]]
ASSUME NoneIsFresh == None \notin Users \cup Days \cup Key

\* day is the ET day the request read; slot says it holds a slot of the daily
\* budget; prose says its LLM call wrote prose; cold that a relative source
\* was empty before the sheet was assembled.
Idle == [pc |-> "idle", user |-> None, key |-> None, day |-> 0,
         slot |-> FALSE, prose |-> FALSE, cold |-> FALSE]
PCs == {"lookup", "store", "decide", "assemble", "compose", "charge", "refund", "finish",
        "persist", "panicked"}
ProcState == {Idle} \cup
  [pc : PCs, user : Users \cup {None}, key : Key, day : Days,
   slot : BOOLEAN, prose : BOOLEAN, cold : BOOLEAN]

\* The processes that hold the in-flight gate of their key, one that panicked
\* with it for good.
Holding == {"assemble", "compose", "charge", "refund", "finish", "panicked"}
Generating(p) == proc[p].pc \in Holding

Init ==
  /\ today = 0
  /\ cache = [k \in Key |-> None]
  /\ inflight = {}
  /\ dayDate = None
  /\ dayCount = 0
  /\ stored = [t \in Tickers |-> None]
  /\ used = [u \in Users |-> [m \in Months |-> 0]]
  /\ proc = [p \in Procs |-> Idle]
  /\ made = [d \in Days |-> 0]
  /\ granted = [u \in Users |-> [m \in Months |-> 0]]
  /\ restarts = 0
  /\ lost = [u \in Users |-> [m \in Months |-> 0]]

Goto(p, pc) == proc' = [proc EXCEPT ![p].pc = pc]
Done(p) == proc' = [proc EXCEPT ![p] = Idle]

Deep(p) == proc[p].key.kind = "deep"

-----------------------------------------------------------------------------
(* Critical sections the two paths share. *)

\* sweepResearchDay: on a new day the counter restarts and the entries made
\* before the last UTC midnight go: all those of two days ago, and those of
\* yesterday and of today that the hour happens to put before it.
Sweep(d) ==
  IF dayDate = d THEN UNCHANGED cache
  ELSE \E gone \in SUBSET {k \in Key : cache[k] # None} :
         /\ \A k \in Key : cache[k] # None /\ cache[k] + 1 < today => k \in gone
         /\ cache' = [k \in Key |-> IF k \in gone THEN None ELSE cache[k]]
CountAfterSweep(d) == IF dayDate = d THEN dayCount ELSE 0

\* Mutant: a failed generation keeps its slot.
RefundNothing(p) == dayCount

\* A slot goes back only to the day that reserved it.
Refunded(p) ==
  IF proc[p].slot /\ dayDate = proc[p].day /\ dayCount > 0 THEN dayCount - 1 ELSE dayCount

-----------------------------------------------------------------------------
(* getResearchSync. *)

Request(p, kind, t, u) ==
  /\ proc[p].pc = "idle"
  /\ kind = "deep" /\ t \notin Demo => u # None
  /\ proc' = [proc EXCEPT ![p] =
       [Idle EXCEPT !.pc = "lookup", !.day = today,
                    !.user = IF kind = "sync" \/ t \in Demo THEN None ELSE u,
                    !.key = IF kind = "sync" THEN SyncKey(t, today) ELSE DeepKey(t, today)]]
  /\ UNCHANGED <<today, memory, stored, used, made, granted, restarts, lost>>

\* The cached report is served.  While another request generates it, this one
\* waits on its channel and looks again, unless its client leaves.
SyncHit(p) ==
  /\ proc[p].pc = "lookup" /\ ~Deep(p)
  /\ cache[proc[p].key] # None \/ proc[p].key \in inflight
  /\ Done(p)
  /\ UNCHANGED <<today, memory, stored, used, made, granted, restarts, lost>>

\* Mutant: a slot is taken over the budget.
SyncTakeOverCap(p) ==
  LET d == proc[p].day
  IN  /\ proc[p].pc = "lookup" /\ ~Deep(p)
      /\ cache[proc[p].key] = None
      /\ proc[p].key \notin inflight
      /\ Sweep(d)
      /\ dayDate' = d
      /\ dayCount' = CountAfterSweep(d) + 1
      /\ inflight' = inflight \cup {proc[p].key}
      /\ proc' = [proc EXCEPT ![p].pc = "assemble", ![p].slot = TRUE]
      /\ UNCHANGED <<today, stored, used, made, granted, restarts, lost>>

\* This request becomes the generator.  Over the daily budget it assembles the
\* data-only sheet all the same.
SyncTake(p) ==
  LET d == proc[p].day
      slot == CountAfterSweep(d) < DailyCap
  IN  /\ proc[p].pc = "lookup" /\ ~Deep(p)
      /\ cache[proc[p].key] = None
      /\ proc[p].key \notin inflight
      /\ Sweep(d)
      /\ dayDate' = d
      /\ dayCount' = CountAfterSweep(d) + (IF slot THEN 1 ELSE 0)
      /\ inflight' = inflight \cup {proc[p].key}
      /\ proc' = [proc EXCEPT ![p].pc = "assemble", ![p].slot = slot]
      /\ UNCHANGED <<today, stored, used, made, granted, restarts, lost>>

\* The sheet is assembled: an unknown ticker is refunded and answered 404.
Assemble(p, cold, known) ==
  /\ proc[p].pc = "assemble"
  /\ proc' = [proc EXCEPT
       ![p].pc = IF ~known THEN "refund" ELSE IF proc[p].slot THEN "compose" ELSE "finish",
       ![p].cold = cold \/ ~known]
  /\ UNCHANGED <<today, memory, stored, used, made, granted, restarts, lost>>

-----------------------------------------------------------------------------
(* getResearchDeep. *)

\* (1) The cached report is served.
DeepHit(p) ==
  /\ proc[p].pc = "lookup" /\ Deep(p)
  /\ cache[proc[p].key] # None
  /\ Done(p)
  /\ UNCHANGED <<today, memory, stored, used, made, granted, restarts, lost>>

DeepMiss(p) ==
  /\ proc[p].pc = "lookup" /\ Deep(p)
  /\ cache[proc[p].key] = None
  /\ Goto(p, "store")
  /\ UNCHANGED <<today, memory, stored, used, made, granted, restarts, lost>>

Fresh(t) == stored[t] # None /\ today - stored[t] < Ttl

\* (1b) A fresh durable report refills the cache and is served; one saved just
\* Ttl days ago is fresh or not by the hour.
StoreHit(p) ==
  LET t == proc[p].key.ticker
  IN  /\ proc[p].pc = "store"
      /\ stored[t] # None /\ today - stored[t] <= Ttl
      /\ cache' = [cache EXCEPT ![proc[p].key] = stored[t]]
      /\ Done(p)
      /\ UNCHANGED <<today, inflight, dayDate, dayCount, stored, used, made, granted, restarts, lost>>

StoreMiss(p) ==
  /\ proc[p].pc = "store"
  /\ Fresh(proc[p].key.ticker) => StoreMayFail
  /\ Goto(p, "decide")
  /\ UNCHANGED <<today, memory, stored, used, made, granted, restarts, lost>>

\* (2) Under the lock: served from the cache, already generating, unknown
\* ticker or a cold relative source.
NoGeneration(p) ==
  /\ proc[p].pc = "decide"
  /\ Done(p)
  /\ UNCHANGED <<today, memory, stored, used, made, granted, restarts, lost>>

QuotaLeft(p) ==
  LET u == proc[p].user
  IN  u # None => used[u][MonthOf[proc[p].day]] < Limit[u]

\* The tier that cannot be read is the free one.
QuotaDenied(p) ==
  LET u == proc[p].user
  IN  /\ u # None
      /\ \/ used[u][MonthOf[proc[p].day]] >= Limit[u]
         \/ StoreMayFail /\ used[u][MonthOf[proc[p].day]] >= FreeLimit

\* Over the daily budget or the user's quota: data only.  The day has rolled.
Exhausted(p) ==
  LET d == proc[p].day
  IN  /\ proc[p].pc = "decide"
      /\ cache[proc[p].key] = None
      /\ proc[p].key \notin inflight
      /\ CountAfterSweep(d) >= DailyCap \/ QuotaDenied(p)
      /\ Sweep(d)
      /\ dayDate' = d
      /\ dayCount' = CountAfterSweep(d)
      /\ Done(p)
      /\ UNCHANGED <<today, inflight, stored, used, made, granted, restarts, lost>>

\* Mutant: the in-flight gate is not looked at.
DeepTakeUngated(p) ==
  LET d == proc[p].day
  IN  /\ proc[p].pc = "decide"
      /\ cache[proc[p].key] = None
      /\ CountAfterSweep(d) < DailyCap
      /\ QuotaLeft(p) \/ StoreMayFail
      /\ Sweep(d)
      /\ dayDate' = d
      /\ dayCount' = CountAfterSweep(d) + 1
      /\ inflight' = inflight \cup {proc[p].key}
      /\ proc' = [proc EXCEPT ![p].pc = "compose", ![p].slot = TRUE]
      /\ UNCHANGED <<today, stored, used, made, granted, restarts, lost>>

\* The sole generator of the key reserves a slot and the gate and spawns the
\* goroutine.  A quota that cannot be read is taken as left.
DeepTake(p) ==
  LET d == proc[p].day
  IN  /\ proc[p].pc = "decide"
      /\ cache[proc[p].key] = None
      /\ proc[p].key \notin inflight
      /\ CountAfterSweep(d) < DailyCap
      /\ QuotaLeft(p) \/ StoreMayFail
      /\ Sweep(d)
      /\ dayDate' = d
      /\ dayCount' = CountAfterSweep(d) + 1
      /\ inflight' = inflight \cup {proc[p].key}
      /\ proc' = [proc EXCEPT ![p].pc = "compose", ![p].slot = TRUE]
      /\ UNCHANGED <<today, stored, used, made, granted, restarts, lost>>

-----------------------------------------------------------------------------
(* The generation: inline for a sync report, composeDeepBackground for a    *)
(* deep one.                                                                *)

AfterProse(p) == IF proc[p].user # None THEN "charge" ELSE "finish"

\* The LLM wrote prose.
ComposeProse(p) ==
  LET u == proc[p].user
      d == proc[p].day
  IN  /\ proc[p].pc = "compose"
      /\ proc' = [proc EXCEPT ![p].pc = AfterProse(p), ![p].prose = TRUE]
      /\ made' = [made EXCEPT ![d] = @ + 1]
      /\ granted' = IF u = None THEN granted
                    ELSE [granted EXCEPT ![u][MonthOf[d]] = @ + 1]
      /\ UNCHANGED <<today, memory, stored, used, restarts, lost>>

\* Mutant: a failed generation is charged too.
ComposeNothingCharged(p) ==
  /\ proc[p].pc = "compose"
  /\ Goto(p, AfterProse(p))
  /\ UNCHANGED <<today, memory, stored, used, made, granted, restarts, lost>>

\* The LLM failed, timed out or wrote nothing.
ComposeNothing(p) ==
  /\ proc[p].pc = "compose"
  /\ Goto(p, "refund")
  /\ UNCHANGED <<today, memory, stored, used, made, granted, restarts, lost>>

\* The goroutine panicked: its recover releases the gate and the slot.
ComposePanics(p) ==
  /\ proc[p].pc = "compose" /\ Deep(p)
  /\ inflight' = inflight \ {proc[p].key}
  /\ dayCount' = Refunded(p)
  /\ Done(p)
  /\ UNCHANGED <<today, cache, dayDate, stored, used, made, granted, restarts, lost>>

\* A sync generation that panics is recovered by net/http, not by the handler:
\* its key stays in the map and its slot taken until a restart.
SyncPanics(p) ==
  /\ proc[p].pc \in {"assemble", "compose"} /\ ~Deep(p)
  /\ Goto(p, "panicked")
  /\ UNCHANGED <<today, memory, stored, used, made, granted, restarts, lost>>

\* IncrDeepQuotaUsed; a failure is logged and the user keeps the slot.
Charge(p) ==
  /\ proc[p].pc = "charge"
  /\ \/ /\ used' = [used EXCEPT ![proc[p].user][MonthOf[proc[p].day]] = @ + 1]
        /\ UNCHANGED lost
     \/ /\ StoreMayFail
        /\ lost' = [lost EXCEPT ![proc[p].user][MonthOf[proc[p].day]] = @ + 1]
        /\ UNCHANGED used
  /\ Goto(p, "finish")
  /\ UNCHANGED <<today, memory, stored, made, granted, restarts>>

\* No prose: a deep generation caches nothing, gives its slot back and
\* releases the gate in one critical section.
DeepRefund(p) ==
  /\ proc[p].pc = "refund" /\ Deep(p)
  /\ dayCount' = Refunded(p)
  /\ inflight' = inflight \ {proc[p].key}
  /\ Done(p)
  /\ UNCHANGED <<today, cache, dayDate, stored, used, made, granted, restarts, lost>>

\* A sync one gives its slot back first and goes on without prose.
SyncRefund(p) ==
  /\ proc[p].pc = "refund" /\ ~Deep(p)
  /\ dayCount' = Refunded(p)
  /\ proc' = [proc EXCEPT ![p].pc = "finish", ![p].slot = FALSE]
  /\ UNCHANGED <<today, cache, inflight, dayDate, stored, used, made, granted, restarts, lost>>

\* Mutant: the cache is filled, the gate stays shut.
FinishGateShut(p) ==
  /\ proc[p].pc = "finish"
  /\ cache' = IF proc[p].cold THEN cache
              ELSE [cache EXCEPT ![proc[p].key] = today]
  /\ IF Deep(p) THEN Goto(p, "persist") ELSE Done(p)
  /\ UNCHANGED <<today, inflight, dayDate, dayCount, stored, used, made, granted, restarts, lost>>

\* The entry is published (unless a source was cold) and the gate opens.
Finish(p) ==
  /\ proc[p].pc = "finish"
  /\ cache' = IF proc[p].cold THEN cache
              ELSE [cache EXCEPT ![proc[p].key] = today]
  /\ inflight' = inflight \ {proc[p].key}
  /\ IF Deep(p) THEN Goto(p, "persist") ELSE Done(p)
  /\ UNCHANGED <<today, dayDate, dayCount, stored, used, made, granted, restarts, lost>>

\* SaveDeepReport, best effort, after the gate has opened.
Persist(p) ==
  /\ proc[p].pc = "persist"
  /\ \/ stored' = [stored EXCEPT ![proc[p].key.ticker] = today]
     \/ StoreMayFail /\ UNCHANGED stored
  /\ Done(p)
  /\ UNCHANGED <<today, memory, used, made, granted, restarts, lost>>

-----------------------------------------------------------------------------
Step(p) ==
  \/ SyncHit(p) \/ SyncTake(p)
  \/ \E cold, known \in BOOLEAN : Assemble(p, cold, known)
  \/ DeepHit(p) \/ DeepMiss(p) \/ StoreHit(p) \/ StoreMiss(p)
  \/ NoGeneration(p) \/ Exhausted(p) \/ DeepTake(p)
  \/ ComposeProse(p) \/ ComposeNothing(p) \/ ComposePanics(p) \/ SyncPanics(p)
  \/ Charge(p) \/ DeepRefund(p) \/ SyncRefund(p) \/ Finish(p) \/ Persist(p)

\* Midnight in New York.
Midnight ==
  /\ today < LastDay
  /\ today' = today + 1
  /\ UNCHANGED <<memory, stored, used, proc, made, granted, restarts, lost>>

\* The processes about to charge user u for a report of month m.
Charging(u, m) == {p \in Procs : proc[p].pc = "charge" /\ proc[p].user = u /\ MonthOf[proc[p].day] = m}

\* A deploy: everything in memory goes, goroutines included.
Restart ==
  /\ restarts < MaxRestarts
  /\ restarts' = restarts + 1
  /\ cache' = [k \in Key |-> None]
  /\ inflight' = {}
  /\ dayDate' = None
  /\ dayCount' = 0
  /\ proc' = [p \in Procs |-> Idle]
  /\ lost' = [u \in Users |-> [m \in Months |-> lost[u][m] + Cardinality(Charging(u, m))]]
  /\ UNCHANGED <<today, stored, used, made, granted>>

Next ==
  \/ \E p \in Procs, kind \in {"sync", "deep"}, t \in Tickers, u \in Users \cup {None} :
       Request(p, kind, t, u)
  \/ \E p \in Procs : Step(p)
  \/ Midnight
  \/ Restart

Spec == Init /\ [][Next]_vars

-----------------------------------------------------------------------------
(* Properties. *)

TypeOK ==
  /\ today \in Days
  /\ cache \in [Key -> Days \cup {None}]
  /\ inflight \subseteq Key
  /\ dayDate \in Days \cup {None}
  /\ dayCount \in 0..DailyCap
  /\ stored \in [Tickers -> Days \cup {None}]
  /\ used \in [Users -> [Months -> Nat]]
  /\ proc \in [Procs -> ProcState]
  /\ made \in [Days -> Nat]
  /\ granted \in [Users -> [Months -> Nat]]
  /\ restarts \in 0..MaxRestarts
  /\ lost \in [Users -> [Months -> Nat]]

\* "The inflight entry is always cleared" (getResearchDeep): the map holds
\* exactly the keys some request or goroutine is generating, or a sync request
\* panicked over, and no key is generated twice at once.
GateIsExact ==
  /\ inflight = {proc[p].key : p \in {q \in Procs : Generating(q)}}
  /\ \A p, q \in Procs : Generating(p) /\ Generating(q) /\ proc[p].key = proc[q].key => p = q

\* "Exactly ONE bg gen per (ticker, ET-month, lang)": the generations of the
\* two paths implement SingleFlight.
Gate == INSTANCE SingleFlight WITH
  Keys <- Key,
  flight <- [p \in Procs |-> IF Generating(p) THEN proc[p].key ELSE None]
ImplementsSingleFlight == Gate!Spec

\* "A failure never burns the daily budget" (composeDeepBackground,
\* refundGlobalCap): every slot counted for the day is held by a generation
\* that has not answered yet, was spent on prose or went with a sync generation
\* that panicked.
Reserving(d) == {p \in Procs : Generating(p) /\ proc[p].slot /\ ~proc[p].prose /\ proc[p].day = d}
BudgetIsSpentOnProse ==
  dayDate # None => dayCount <= Cardinality(Reserving(dayDate)) + made[dayDate]

\* "The quota is charged exactly once per successful gen and never on a poll, a
\* cache hit, or a failed gen" (getResearchDeep): the generations charged, or
\* about to be, are the reports the user was granted, but for the charges the
\* store failed or a restart cut off.
ChargedOncePerReport ==
  \A u \in Users, m \in Months :
    used[u][m] + Cardinality(Charging(u, m)) + lost[u][m] = granted[u][m]

\* "free = 1 report/user/month" (config.go): refuted, the quota is compared when
\* a generation starts and charged when it ends.
QuotaRespected == \A u \in Users, m \in Months : granted[u][m] <= Limit[u]

\* "Bounds research-prose LLM generations per day across ALL tickers - a hard
\* token-budget backstop" (researchDailyCap): refuted, a request that read the
\* day before midnight rolls the counter back after it.
DailyCapRespected == \A d \in Days : made[d] <= DailyCap
=============================================================================
