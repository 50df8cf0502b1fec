--------------------------- MODULE ResearchProofs ---------------------------
(***************************************************************************)
(* Proofs about Research, for any number of processes, users, tickers and  *)
(* days: its types, the exactness of the in-flight gate, that the          *)
(* generations implement SingleFlight, and the accounts of the monthly     *)
(* quota and of the daily budget.  Then about FactSheet, for any filings,  *)
(* holders, outages and answers of the LLM: what a report says.            *)
(***************************************************************************)
EXTENDS Research, FactSheet, FiniteSetTheorems, WellFoundedInduction, TLAPS

\* The effect a step may have on the gate: none, one process takes its key,
\* one process gives its key back, or a restart opens everything.
SameFlight(q) ==
  /\ Generating(q)' <=> Generating(q)
  /\ Generating(q) => proc'[q].key = proc[q].key

GateStays == inflight' = inflight /\ \A q \in Procs : SameFlight(q)

GateTaken(p) ==
  /\ ~Generating(p) /\ Generating(p)'
  /\ proc'[p].key = proc[p].key /\ proc[p].key \in Key
  /\ proc[p].key \notin inflight
  /\ inflight' = inflight \cup {proc[p].key}
  /\ \A q \in Procs \ {p} : SameFlight(q)

GateGiven(p) ==
  /\ Generating(p) /\ ~Generating(p)'
  /\ inflight' = inflight \ {proc[p].key}
  /\ \A q \in Procs \ {p} : SameFlight(q)

GateLost == inflight' = {} /\ \A q \in Procs : ~Generating(q)'

GateEffect ==
  \/ GateStays
  \/ \E p \in Procs : GateTaken(p) \/ GateGiven(p)
  \/ GateLost

-----------------------------------------------------------------------------
(* Types. *)

Busy == [pc : PCs, user : Users \cup {None}, key : Key, day : Days,
         slot : BOOLEAN, prose : BOOLEAN, cold : BOOLEAN]

\* A process past its request is a full record.
LEMMA BusyProc ==
  ASSUME TypeOK, NEW p \in Procs, proc[p].pc # "idle"
  PROVE  proc[p] \in Busy
BY DEF TypeOK, ProcState, Busy, Idle

LEMMA KeyTypes ==
  ASSUME NEW t \in Tickers, NEW d \in Days
  PROVE  SyncKey(t, d) \in Key /\ DeepKey(t, d) \in Key
BY DEF SyncKey, DeepKey, Key, Months

\* The critical section that starts a generation leaves the cache, the day
\* and the count well typed.
LEMMA SweepTypes ==
  ASSUME TypeOK, NEW d \in Days, Sweep(d)
  PROVE  /\ cache' \in [Key -> Days \cup {None}]
         /\ CountAfterSweep(d) \in 0..DailyCap
BY NumbersType DEF TypeOK, Sweep, CountAfterSweep

LEMMA RefundTypes ==
  ASSUME TypeOK, NEW p \in Procs
  PROVE  Refunded(p) \in 0..DailyCap
BY NumbersType DEF TypeOK, Refunded

LEMMA InitTypes == Init => TypeOK
BY NumbersType, MonthOfType DEF Init, TypeOK, Days, ProcState

\* Every update of the processes keeps them well typed.
LEMMA ProcTypes ==
  ASSUME TypeOK, NEW p \in Procs, NEW r, r \in Busy \cup {Idle},
         proc' = [proc EXCEPT ![p] = r]
  PROVE  proc' \in [Procs -> ProcState]
BY DEF TypeOK, ProcState, Busy

LEMMA DoneTypes ==
  ASSUME TypeOK, NEW p \in Procs, Done(p)
  PROVE  proc' \in [Procs -> ProcState]
BY ProcTypes DEF Done

LEMMA GotoTypes ==
  ASSUME TypeOK, NEW p \in Procs, NEW pc \in PCs, proc[p].pc # "idle", Goto(p, pc)
  PROVE  proc' \in [Procs -> ProcState]
<1> DEFINE r == [proc[p] EXCEPT !.pc = pc]
<1>1. r \in Busy
  BY BusyProc DEF Busy
<1>2. proc' = [proc EXCEPT ![p] = r]
  BY DEF Goto
<1> QED  BY <1>1, <1>2, ProcTypes

LEMMA StepTypes ==
  ASSUME TypeOK, NEW p \in Procs, Step(p)
  PROVE  TypeOK'
<1>1. CASE SyncHit(p)
  BY <1>1, DoneTypes DEF SyncHit, TypeOK, memory
<1>2. CASE SyncTake(p)
  <2> DEFINE d == proc[p].day
             slot == CountAfterSweep(d) < DailyCap
             r == [proc[p] EXCEPT !.pc = "assemble", !.slot = slot]
  <2>1. proc[p] \in Busy /\ d \in Days
    BY <1>2, BusyProc DEF SyncTake, Busy
  <2>2. proc' = [proc EXCEPT ![p] = r]
    BY <1>2, <2>1 DEF SyncTake, Busy
  <2>6. slot \in BOOLEAN
    OBVIOUS
  <2>7. r \in Busy
    <3> HIDE DEF slot
    <3> QED  BY <2>1, <2>6 DEF Busy, PCs
  <2>3. proc' \in [Procs -> ProcState]
    BY <2>2, <2>7, ProcTypes
  <2>4. cache' \in [Key -> Days \cup {None}] /\ CountAfterSweep(d) \in 0..DailyCap
    BY <1>2, <2>1, SweepTypes DEF SyncTake
  <2>5. dayCount' \in 0..DailyCap
    BY <1>2, <2>4, NumbersType DEF SyncTake
  <2> QED  BY <1>2, <2>1, <2>3, <2>4, <2>5 DEF SyncTake, TypeOK, Busy
<1>3. CASE \E cold, known \in BOOLEAN : Assemble(p, cold, known)
  <2> PICK cold \in BOOLEAN, known \in BOOLEAN : Assemble(p, cold, known)
    BY <1>3
  <2> DEFINE pc == IF ~known THEN "refund" ELSE IF proc[p].slot THEN "compose" ELSE "finish"
             r == [proc[p] EXCEPT !.pc = pc, !.cold = cold \/ ~known]
  <2>1. r \in Busy /\ proc' = [proc EXCEPT ![p] = r]
    BY BusyProc DEF Assemble, Busy, PCs
  <2> QED  BY <2>1, ProcTypes DEF Assemble, TypeOK, memory
<1>4. CASE DeepHit(p)
  BY <1>4, DoneTypes DEF DeepHit, TypeOK, memory
<1>5. CASE DeepMiss(p)
  BY <1>5, GotoTypes DEF DeepMiss, TypeOK, memory, PCs
<1>6. CASE StoreHit(p)
  <2>1. proc[p] \in Busy
    BY <1>6, BusyProc DEF StoreHit
  <2>2. proc[p].key.ticker \in Tickers
    BY <2>1 DEF Busy, Key
  <2>3. cache' \in [Key -> Days \cup {None}]
    BY <1>6, <2>1, <2>2 DEF StoreHit, TypeOK, Busy
  <2> QED  BY <1>6, <2>3, DoneTypes DEF StoreHit, TypeOK
<1>7. CASE StoreMiss(p)
  BY <1>7, GotoTypes DEF StoreMiss, TypeOK, memory, PCs
<1>8. CASE NoGeneration(p)
  BY <1>8, DoneTypes DEF NoGeneration, TypeOK, memory
<1>9. CASE Exhausted(p)
  <2>1. proc[p].day \in Days
    BY <1>9, BusyProc DEF Exhausted, Busy
  <2>2. proc' \in [Procs -> ProcState]
    BY <1>9, DoneTypes DEF Exhausted
  <2>3. cache' \in [Key -> Days \cup {None}] /\ CountAfterSweep(proc[p].day) \in 0..DailyCap
    BY <1>9, <2>1, SweepTypes DEF Exhausted
  <2> QED  BY <1>9, <2>1, <2>2, <2>3 DEF Exhausted, TypeOK
<1>10. CASE DeepTake(p)
  <2> DEFINE d == proc[p].day
             r == [proc[p] EXCEPT !.pc = "compose", !.slot = TRUE]
  <2>1. proc[p] \in Busy /\ d \in Days
    BY <1>10, BusyProc DEF DeepTake, Busy
  <2>2. r \in Busy /\ proc' = [proc EXCEPT ![p] = r]
    BY <1>10, <2>1 DEF DeepTake, Busy, PCs
  <2>3. proc' \in [Procs -> ProcState]
    BY <2>2, ProcTypes
  <2>4. cache' \in [Key -> Days \cup {None}] /\ CountAfterSweep(d) \in 0..DailyCap
    BY <1>10, <2>1, SweepTypes DEF DeepTake
  <2>5. dayCount' \in 0..DailyCap
    BY <1>10, <2>4, NumbersType DEF DeepTake
  <2> QED  BY <1>10, <2>1, <2>3, <2>4, <2>5 DEF DeepTake, TypeOK, Busy
<1>11. CASE ComposeProse(p)
  <2> DEFINE r == [proc[p] EXCEPT !.pc = AfterProse(p), !.prose = TRUE]
  <2>1. proc[p] \in Busy
    BY <1>11, BusyProc DEF ComposeProse
  <2>2. r \in Busy /\ proc' = [proc EXCEPT ![p] = r]
    BY <1>11, <2>1 DEF ComposeProse, AfterProse, Busy, PCs
  <2>3. proc' \in [Procs -> ProcState]
    BY <2>2, ProcTypes
  <2>4. made' \in [Days -> Nat]
    BY <1>11, <2>1 DEF ComposeProse, TypeOK, Busy
  <2>5. granted' \in [Users -> [Months -> Nat]]
    <3>1. CASE proc[p].user = None
      BY <1>11, <3>1 DEF ComposeProse, TypeOK
    <3>2. CASE proc[p].user # None
      <4>1. proc[p].user \in Users /\ MonthOf[proc[p].day] \in Months
        BY <2>1, <3>2 DEF Busy, Months
      <4> QED  BY <1>11, <3>2, <4>1 DEF ComposeProse, TypeOK
    <3> QED  BY <3>1, <3>2
  <2> QED  BY <1>11, <2>3, <2>4, <2>5 DEF ComposeProse, TypeOK, memory
<1>12. CASE ComposeNothing(p)
  BY <1>12, GotoTypes DEF ComposeNothing, TypeOK, memory, PCs
<1>13. CASE ComposePanics(p)
  BY <1>13, DoneTypes, RefundTypes DEF ComposePanics, TypeOK
<1>19. CASE SyncPanics(p)
  BY <1>19, GotoTypes DEF SyncPanics, TypeOK, memory, PCs
<1>14. CASE Charge(p)
  <2>1. proc[p] \in Busy
    BY <1>14, BusyProc DEF Charge
  <2>2. MonthOf[proc[p].day] \in Months
    BY <2>1 DEF Busy, Months
  <2>3. used' \in [Users -> [Months -> Nat]]
    <3> DEFINE m == MonthOf[proc[p].day]
               y == [used[proc[p].user] EXCEPT ![m] = @ + 1]
    <3>1. used' = [used EXCEPT ![proc[p].user] = y] \/ used' = used
      BY <1>14 DEF Charge
    <3>2. proc[p].user \in Users => y \in [Months -> Nat]
      BY <2>2 DEF TypeOK
    <3> HIDE DEF y
    <3> QED  BY <3>1, <3>2 DEF TypeOK
  <2>4. lost' \in [Users -> [Months -> Nat]]
    <3> DEFINE m == MonthOf[proc[p].day]
               y == [lost[proc[p].user] EXCEPT ![m] = @ + 1]
    <3>1. lost' = [lost EXCEPT ![proc[p].user] = y] \/ lost' = lost
      BY <1>14 DEF Charge
    <3>2. proc[p].user \in Users => y \in [Months -> Nat]
      BY <2>2 DEF TypeOK
    <3> HIDE DEF y
    <3> QED  BY <3>1, <3>2 DEF TypeOK
  <2> QED  BY <1>14, <2>3, <2>4, GotoTypes DEF Charge, TypeOK, memory, PCs
<1>15. CASE DeepRefund(p)
  BY <1>15, DoneTypes, RefundTypes DEF DeepRefund, TypeOK
<1>16. CASE SyncRefund(p)
  <2> DEFINE r == [proc[p] EXCEPT !.pc = "finish", !.slot = FALSE]
  <2>1. r \in Busy /\ proc' = [proc EXCEPT ![p] = r]
    BY <1>16, BusyProc DEF SyncRefund, Busy, PCs
  <2> QED  BY <1>16, <2>1, ProcTypes, RefundTypes DEF SyncRefund, TypeOK
<1>17. CASE Finish(p)
  <2>1. proc' \in [Procs -> ProcState]
    BY <1>17, GotoTypes, DoneTypes DEF Finish, PCs
  <2>2. cache' \in [Key -> Days \cup {None}]
    BY <1>17 DEF Finish, TypeOK
  <2> QED  BY <1>17, <2>1, <2>2 DEF Finish, TypeOK
<1>18. CASE Persist(p)
  <2>1. proc[p].key.ticker \in Tickers
    BY <1>18, BusyProc DEF Persist, Busy, Key
  <2> QED  BY <1>18, <2>1, DoneTypes DEF Persist, TypeOK, memory
<1> QED  BY <1>1, <1>2, <1>3, <1>4, <1>5, <1>6, <1>7, <1>8, <1>9, <1>10, <1>11, <1>12, <1>13, <1>14, <1>15, <1>16, <1>17, <1>18, <1>19 DEF Step

LEMMA RequestTypes ==
  ASSUME TypeOK, NEW p \in Procs, NEW kind \in {"sync", "deep"}, NEW t \in Tickers,
         NEW u \in Users \cup {None}, Request(p, kind, t, u)
  PROVE  TypeOK'
<1> DEFINE key == IF kind = "sync" THEN SyncKey(t, today) ELSE DeepKey(t, today)
           r == [Idle EXCEPT !.pc = "lookup", !.day = today,
                             !.user = IF kind = "sync" \/ t \in Demo THEN None ELSE u,
                             !.key = key]
<1>1. key \in Key
  BY KeyTypes DEF TypeOK
<1>2. r \in Busy
  <2> HIDE DEF key
  <2> QED  BY <1>1 DEF TypeOK, Busy, Idle, PCs
<1>3. proc' = [proc EXCEPT ![p] = r]
  BY DEF Request
<1> HIDE DEF r
<1>4. proc' \in [Procs -> ProcState]
  BY <1>2, <1>3, ProcTypes
<1> QED  BY <1>4 DEF Request, TypeOK, memory

LEMMA ChargingFinite ==
  \A u \in Users, m \in Months :
    IsFiniteSet(Charging(u, m)) /\ Cardinality(Charging(u, m)) \in Nat
BY ProcsFinite, FS_Subset, FS_CardinalityType DEF Charging

\* TypeOK is inductive.
LEMMA TypeStep == TypeOK /\ [Next]_vars => TypeOK'
<1> SUFFICES ASSUME TypeOK, [Next]_vars PROVE TypeOK'
  OBVIOUS
<1>1. CASE \E p \in Procs, kind \in {"sync", "deep"}, t \in Tickers, u \in Users \cup {None} :
             Request(p, kind, t, u)
  BY <1>1, RequestTypes
<1>2. CASE \E p \in Procs : Step(p)
  BY <1>2, StepTypes
<1>3. CASE Midnight
  BY <1>3, NumbersType DEF Midnight, TypeOK, memory, Days
<1>4. CASE Restart
  <2>1. lost' \in [Users -> [Months -> Nat]]
    BY <1>4, ChargingFinite DEF Restart, TypeOK
  <2> QED  BY <1>4, <2>1, NumbersType DEF Restart, TypeOK, ProcState
<1>5. CASE UNCHANGED vars
  BY <1>5 DEF vars, memory, TypeOK
<1> QED  BY <1>1, <1>2, <1>3, <1>4, <1>5 DEF Next

\* The state of every variable of the report cache keeps its type.
THEOREM TypeCorrect == Spec => []TypeOK
BY InitTypes, TypeStep, PTL DEF Spec

-----------------------------------------------------------------------------
(* The gate. *)

\* A process that moves between two states on the same side of the gate, and
\* keeps its key if it is inside, moves no gate.
LEMMA MoveStays ==
  ASSUME TypeOK, NEW p \in Procs, NEW r, proc' = [proc EXCEPT ![p] = r], inflight' = inflight,
         \/ ~Generating(p) /\ ~(r.pc \in Holding)
         \/ /\ Generating(p) /\ r.pc \in Holding
            /\ r.key = proc[p].key
  PROVE  GateStays
BY DEF TypeOK, GateStays, SameFlight, Generating, Holding

\* A process that starts a generation takes its key.
LEMMA MoveTakes ==
  ASSUME TypeOK, NEW p \in Procs, NEW r, proc' = [proc EXCEPT ![p] = r],
         ~Generating(p), r.pc \in {"assemble", "compose"}, r.key = proc[p].key,
         r.key \in Key \ inflight, inflight' = inflight \cup {r.key}
  PROVE  GateTaken(p)
BY DEF TypeOK, GateTaken, SameFlight, Generating, Holding

\* A process that ends a generation gives its key back.
LEMMA MoveGives ==
  ASSUME TypeOK, NEW p \in Procs, NEW r, proc' = [proc EXCEPT ![p] = r],
         Generating(p), r.pc \in {"idle", "persist"}, inflight' = inflight \ {proc[p].key}
  PROVE  GateGiven(p)
BY DEF TypeOK, GateGiven, SameFlight, Generating, Holding

LEMMA StepEffect ==
  ASSUME TypeOK, NEW p \in Procs, Step(p)
  PROVE  GateStays \/ GateTaken(p) \/ GateGiven(p)
<1>1. CASE SyncHit(p)
  BY <1>1, MoveStays DEF SyncHit, Done, Idle, Generating, Holding, memory
<1>2. CASE SyncTake(p)
  <2> DEFINE slot == CountAfterSweep(proc[p].day) < DailyCap
             r == [proc[p] EXCEPT !.pc = "assemble", !.slot = slot]
  <2>1. proc[p] \in Busy /\ proc' = [proc EXCEPT ![p] = r]
    BY <1>2, BusyProc DEF SyncTake
  <2>2. r.pc = "assemble" /\ r.key = proc[p].key /\ proc[p].key \in Key
    BY <2>1 DEF Busy
  <2> HIDE DEF r
  <2> QED  BY <1>2, <2>1, <2>2, MoveTakes DEF SyncTake, Generating, Holding
<1>3. CASE \E cold, known \in BOOLEAN : Assemble(p, cold, known)
  <2> PICK cold \in BOOLEAN, known \in BOOLEAN : Assemble(p, cold, known)
    BY <1>3
  <2> DEFINE pc == IF ~known THEN "refund" ELSE IF proc[p].slot THEN "compose" ELSE "finish"
             r == [proc[p] EXCEPT !.pc = pc, !.cold = cold \/ ~known]
  <2>1. proc[p] \in Busy /\ proc' = [proc EXCEPT ![p] = r]
    BY BusyProc DEF Assemble
  <2>2. r.pc \in {"refund", "compose", "finish"} /\ r.key = proc[p].key
    BY <2>1 DEF Busy
  <2> HIDE DEF r
  <2>3. Generating(p) /\ inflight' = inflight
    BY DEF Assemble, Generating, Holding, memory
  <2> QED  BY <2>1, <2>2, <2>3, MoveStays DEF Holding
<1>4. CASE DeepHit(p)
  BY <1>4, MoveStays DEF DeepHit, Done, Idle, Generating, Holding, memory
<1>5. CASE DeepMiss(p)
  <2> DEFINE r == [proc[p] EXCEPT !.pc = "store"]
  <2>1. r.pc = "store" /\ r.key = proc[p].key
    BY <1>5, BusyProc DEF DeepMiss, Busy
  <2>2. proc' = [proc EXCEPT ![p] = r] /\ inflight' = inflight
    BY <1>5 DEF DeepMiss, Goto, memory
  <2> HIDE DEF r
  <2> QED  BY <1>5, <2>1, <2>2, MoveStays DEF DeepMiss, Generating, Holding
<1>6. CASE StoreHit(p)
  BY <1>6, MoveStays DEF StoreHit, Done, Idle, Generating, Holding, memory
<1>7. CASE StoreMiss(p)
  <2> DEFINE r == [proc[p] EXCEPT !.pc = "decide"]
  <2>1. r.pc = "decide" /\ r.key = proc[p].key
    BY <1>7, BusyProc DEF StoreMiss, Busy
  <2>2. proc' = [proc EXCEPT ![p] = r] /\ inflight' = inflight
    BY <1>7 DEF StoreMiss, Goto, memory
  <2> HIDE DEF r
  <2> QED  BY <1>7, <2>1, <2>2, MoveStays DEF StoreMiss, Generating, Holding
<1>8. CASE NoGeneration(p)
  BY <1>8, MoveStays DEF NoGeneration, Done, Idle, Generating, Holding, memory
<1>9. CASE Exhausted(p)
  BY <1>9, MoveStays DEF Exhausted, Done, Idle, Generating, Holding, memory
<1>10. CASE DeepTake(p)
  <2> DEFINE r == [proc[p] EXCEPT !.pc = "compose", !.slot = TRUE]
  <2>1. proc[p] \in Busy /\ proc' = [proc EXCEPT ![p] = r]
    BY <1>10, BusyProc DEF DeepTake
  <2>2. r.pc = "compose" /\ r.key = proc[p].key /\ proc[p].key \in Key
    BY <2>1 DEF Busy
  <2> HIDE DEF r
  <2> QED  BY <1>10, <2>1, <2>2, MoveTakes DEF DeepTake, Generating, Holding
<1>11. CASE ComposeProse(p)
  <2> DEFINE r == [proc[p] EXCEPT !.pc = AfterProse(p), !.prose = TRUE]
  <2>1. proc[p] \in Busy /\ proc' = [proc EXCEPT ![p] = r]
    BY <1>11, BusyProc DEF ComposeProse
  <2>2. r.pc \in {"charge", "finish"} /\ r.key = proc[p].key
    BY <2>1 DEF Busy, AfterProse
  <2> HIDE DEF r
  <2> QED  BY <1>11, <2>1, <2>2, MoveStays DEF ComposeProse, Generating, Holding, memory
<1>12. CASE ComposeNothing(p)
  <2> DEFINE r == [proc[p] EXCEPT !.pc = "refund"]
  <2>1. r.pc = "refund" /\ r.key = proc[p].key
    BY <1>12, BusyProc DEF ComposeNothing, Busy
  <2>2. proc' = [proc EXCEPT ![p] = r] /\ inflight' = inflight
    BY <1>12 DEF ComposeNothing, Goto, memory
  <2> HIDE DEF r
  <2> QED  BY <1>12, <2>1, <2>2, MoveStays DEF ComposeNothing, Generating, Holding
<1>13. CASE ComposePanics(p)
  BY <1>13, MoveGives DEF ComposePanics, Done, Idle, Generating, Holding
<1>19. CASE SyncPanics(p)
  <2> DEFINE r == [proc[p] EXCEPT !.pc = "panicked"]
  <2>1. r.pc = "panicked" /\ r.key = proc[p].key
    BY <1>19, BusyProc DEF SyncPanics, Busy
  <2>2. proc' = [proc EXCEPT ![p] = r] /\ inflight' = inflight
    BY <1>19 DEF SyncPanics, Goto, memory
  <2> HIDE DEF r
  <2> QED  BY <1>19, <2>1, <2>2, MoveStays DEF SyncPanics, Generating, Holding
<1>14. CASE Charge(p)
  <2> DEFINE r == [proc[p] EXCEPT !.pc = "finish"]
  <2>1. r.pc = "finish" /\ r.key = proc[p].key
    BY <1>14, BusyProc DEF Charge, Busy
  <2>2. proc' = [proc EXCEPT ![p] = r] /\ inflight' = inflight
    BY <1>14 DEF Charge, Goto, memory
  <2> HIDE DEF r
  <2> QED  BY <1>14, <2>1, <2>2, MoveStays DEF Charge, Generating, Holding
<1>15. CASE DeepRefund(p)
  BY <1>15, MoveGives DEF DeepRefund, Done, Idle, Generating, Holding
<1>16. CASE SyncRefund(p)
  <2> DEFINE r == [proc[p] EXCEPT !.pc = "finish", !.slot = FALSE]
  <2>1. proc[p] \in Busy /\ proc' = [proc EXCEPT ![p] = r]
    BY <1>16, BusyProc DEF SyncRefund
  <2>2. r.pc = "finish" /\ r.key = proc[p].key
    BY <2>1 DEF Busy
  <2> HIDE DEF r
  <2> QED  BY <1>16, <2>1, <2>2, MoveStays DEF SyncRefund, Generating, Holding
<1>17. CASE Finish(p)
  <2> DEFINE r == IF Deep(p) THEN [proc[p] EXCEPT !.pc = "persist"] ELSE Idle
  <2>1. proc[p] \in Busy /\ proc' = [proc EXCEPT ![p] = r]
    BY <1>17, BusyProc DEF Finish, Goto, Done
  <2>2. r.pc \in {"persist", "idle"}
    BY <2>1 DEF Busy, Idle
  <2> HIDE DEF r
  <2> QED  BY <1>17, <2>1, <2>2, MoveGives DEF Finish, Generating, Holding
<1>18. CASE Persist(p)
  BY <1>18, MoveStays DEF Persist, Done, Idle, Generating, Holding, memory
<1> QED  BY <1>1, <1>2, <1>3, <1>4, <1>5, <1>6, <1>7, <1>8, <1>9, <1>10, <1>11, <1>12, <1>13, <1>14, <1>15, <1>16, <1>17, <1>18, <1>19 DEF Step

LEMMA NextEffect == TypeOK /\ [Next]_vars => GateEffect
<1> SUFFICES ASSUME TypeOK, [Next]_vars PROVE GateEffect
  OBVIOUS
<1>1. CASE \E p \in Procs, kind \in {"sync", "deep"}, t \in Tickers, u \in Users \cup {None} :
             Request(p, kind, t, u)
  <2> PICK p \in Procs, kind \in {"sync", "deep"}, t \in Tickers, u \in Users \cup {None} :
           Request(p, kind, t, u)
    BY <1>1
  <2> DEFINE key == IF kind = "sync" THEN SyncKey(t, today) ELSE DeepKey(t, today)
             user == IF kind = "sync" \/ t \in Demo THEN None ELSE u
             r == [Idle EXCEPT !.pc = "lookup", !.day = today, !.user = user, !.key = key]
  <2>1. proc' = [proc EXCEPT ![p] = r] /\ r.pc = "lookup"
    BY DEF Request, Idle
  <2> HIDE DEF r
  <2>2. ~Generating(p) /\ inflight' = inflight
    BY DEF Request, Generating, Holding, memory
  <2> QED  BY <2>1, <2>2, MoveStays DEF GateEffect, Holding
<1>2. CASE \E p \in Procs : Step(p)
  BY <1>2, StepEffect DEF GateEffect
<1>3. CASE Midnight
  BY <1>3 DEF Midnight, memory, GateEffect, GateStays, SameFlight, Generating, Holding
<1>4. CASE Restart
  BY <1>4 DEF Restart, GateEffect, GateLost, Generating, Holding, Idle
<1>5. CASE UNCHANGED vars
  BY <1>5 DEF vars, memory, GateEffect, GateStays, SameFlight, Generating, Holding
<1> QED  BY <1>1, <1>2, <1>3, <1>4, <1>5 DEF Next

LEMMA InitGate == Init => GateIsExact
BY DEF Init, GateIsExact, Generating, Holding, Idle

LEMMA GateStep == GateIsExact /\ GateEffect => GateIsExact'
<1> SUFFICES ASSUME GateIsExact, GateEffect PROVE GateIsExact'
  OBVIOUS
<1>1. CASE GateStays
  BY <1>1 DEF GateStays, SameFlight, GateIsExact
<1>2. ASSUME NEW p \in Procs, GateTaken(p) PROVE GateIsExact'
  BY <1>2 DEF GateTaken, SameFlight, GateIsExact
<1>3. ASSUME NEW p \in Procs, GateGiven(p) PROVE GateIsExact'
  BY <1>3 DEF GateGiven, SameFlight, GateIsExact
<1>4. CASE GateLost
  BY <1>4 DEF GateLost, GateIsExact
<1> QED  BY <1>1, <1>2, <1>3, <1>4 DEF GateEffect

\* The in-flight map of the report cache holds exactly the keys being
\* generated, each by one process.
THEOREM GateCorrect == Spec => [](TypeOK /\ GateIsExact)
<1>1. Init => TypeOK /\ GateIsExact
  BY InitTypes, InitGate
<1>2. TypeOK /\ GateIsExact /\ [Next]_vars => TypeOK' /\ GateIsExact'
  BY TypeStep, NextEffect, GateStep
<1> QED  BY <1>1, <1>2, PTL DEF Spec

-----------------------------------------------------------------------------
(* Refinement. *)

flightOf == [p \in Procs |-> IF Generating(p) THEN proc[p].key ELSE None]

\* A step with its effect on the gate is a step of SingleFlight.
LEMMA GateRefines ==
  ASSUME TypeOK, GateIsExact, GateEffect
  PROVE  [Gate!Next]_flightOf
<1>1. CASE GateStays
  BY <1>1 DEF GateStays, SameFlight, flightOf
<1>2. ASSUME NEW p \in Procs, GateTaken(p) PROVE Gate!Next
  <2> DEFINE k == proc[p].key
  <2>1. k \in Key /\ k # None
    BY <1>2, NoneIsFresh DEF GateTaken
  <2>2. Gate!Take(p, k)
    BY <1>2, <2>1 DEF GateTaken, SameFlight, GateIsExact, Gate!Take
  <2> HIDE DEF k
  <2> QED  BY <2>1, <2>2 DEF Gate!Next, Gate!Take
<1>3. ASSUME NEW p \in Procs, GateGiven(p) PROVE Gate!Next
  <2>1. proc[p].key # None
    BY <1>3, BusyProc, NoneIsFresh DEF GateGiven, Generating, Holding, Busy
  <2>2. Gate!Release(p)
    BY <1>3, <2>1 DEF GateGiven, SameFlight, Gate!Release
  <2> QED  BY <2>2 DEF Gate!Next
<1>4. CASE GateLost
  BY <1>4 DEF GateLost, Gate!Restart, Gate!Next
<1> QED
  <2>1. CASE \E p \in Procs : GateTaken(p) \/ GateGiven(p)
    BY <1>2, <1>3, <2>1
  <2> QED  BY <1>1, <1>4, <2>1 DEF GateEffect

LEMMA InitRefines == Init => Gate!Init
BY DEF Init, Gate!Init, Generating, Holding, Idle

\* The generations of the report cache, of both paths and across restarts, are
\* those of SingleFlight.
THEOREM ResearchImplementsSingleFlight == Spec => ImplementsSingleFlight
<1>1. TypeOK /\ GateIsExact /\ [Next]_vars => [Gate!Next]_flightOf
  BY NextEffect, GateRefines
<1> QED  BY <1>1, InitRefines, GateCorrect, PTL DEF Spec, ImplementsSingleFlight, Gate!Spec, flightOf

-----------------------------------------------------------------------------
(* The monthly quota. *)

\* A step that charges nobody and brings nobody to a charge.
ChargesStay ==
  /\ \A q \in Procs : (proc[q].pc = "charge" \/ proc'[q].pc = "charge") => proc'[q] = proc[q]
  /\ used' = used /\ lost' = lost /\ granted' = granted

LEMMA ChargesStayCorrect ==
  ASSUME ChargesStay, ChargedOncePerReport
  PROVE  ChargedOncePerReport'
<1>1. \A u \in Users, m \in Months : Charging(u, m)' = Charging(u, m)
  BY DEF ChargesStay, Charging
<1> QED  BY <1>1 DEF ChargesStay, ChargedOncePerReport

\* A process that is replaced by r is neither before nor after about to charge.
LEMMA MoveKeepsCharges ==
  ASSUME TypeOK, NEW p \in Procs, NEW r, proc' = [proc EXCEPT ![p] = r],
         proc[p].pc # "charge", r.pc # "charge",
         used' = used, lost' = lost, granted' = granted
  PROVE  ChargesStay
BY DEF TypeOK, ChargesStay

LEMMA OtherStepsKeepCharges ==
  ASSUME TypeOK, NEW p \in Procs, Step(p), ~ComposeProse(p), ~Charge(p)
  PROVE  ChargesStay
<1>1. CASE \/ SyncHit(p) \/ DeepHit(p) \/ StoreHit(p) \/ NoGeneration(p) \/ Exhausted(p)
           \/ ComposePanics(p) \/ DeepRefund(p) \/ Persist(p)
  BY <1>1, MoveKeepsCharges
     DEF SyncHit, DeepHit, StoreHit, NoGeneration, Exhausted, ComposePanics, DeepRefund,
         Persist, Done, Idle
<1>2. CASE SyncTake(p)
  <2> DEFINE slot == CountAfterSweep(proc[p].day) < DailyCap
             r == [proc[p] EXCEPT !.pc = "assemble", !.slot = slot]
  <2>1. proc' = [proc EXCEPT ![p] = r] /\ r.pc = "assemble"
    BY <1>2, BusyProc DEF SyncTake, Busy
  <2> HIDE DEF r
  <2> QED  BY <1>2, <2>1, MoveKeepsCharges DEF SyncTake
<1>3. CASE \E cold, known \in BOOLEAN : Assemble(p, cold, known)
  <2> PICK cold \in BOOLEAN, known \in BOOLEAN : Assemble(p, cold, known)
    BY <1>3
  <2> DEFINE pc == IF ~known THEN "refund" ELSE IF proc[p].slot THEN "compose" ELSE "finish"
             r == [proc[p] EXCEPT !.pc = pc, !.cold = cold \/ ~known]
  <2>1. proc' = [proc EXCEPT ![p] = r] /\ r.pc # "charge"
    BY BusyProc DEF Assemble, Busy
  <2> HIDE DEF r
  <2> QED  BY <2>1, MoveKeepsCharges DEF Assemble
<1>4. ASSUME NEW pc \in {"store", "decide", "refund", "panicked"},
             Goto(p, pc), proc[p].pc # "charge", proc[p].pc # "idle",
             used' = used, lost' = lost, granted' = granted
      PROVE  ChargesStay
  <2> DEFINE r == [proc[p] EXCEPT !.pc = pc]
  <2>1. proc' = [proc EXCEPT ![p] = r] /\ r.pc = pc
    BY <1>4, BusyProc DEF Goto, Busy
  <2> HIDE DEF r
  <2> QED  BY <1>4, <2>1, MoveKeepsCharges
<1>5. CASE DeepMiss(p) \/ StoreMiss(p) \/ ComposeNothing(p) \/ SyncPanics(p)
  BY <1>4, <1>5 DEF DeepMiss, StoreMiss, ComposeNothing, SyncPanics
<1>6. CASE DeepTake(p)
  <2> DEFINE r == [proc[p] EXCEPT !.pc = "compose", !.slot = TRUE]
  <2>1. proc' = [proc EXCEPT ![p] = r] /\ r.pc = "compose"
    BY <1>6, BusyProc DEF DeepTake, Busy
  <2> HIDE DEF r
  <2> QED  BY <1>6, <2>1, MoveKeepsCharges DEF DeepTake
<1>7. CASE SyncRefund(p)
  <2> DEFINE r == [proc[p] EXCEPT !.pc = "finish", !.slot = FALSE]
  <2>1. proc' = [proc EXCEPT ![p] = r] /\ r.pc = "finish"
    BY <1>7, BusyProc DEF SyncRefund, Busy
  <2> HIDE DEF r
  <2> QED  BY <1>7, <2>1, MoveKeepsCharges DEF SyncRefund
<1>8. CASE Finish(p)
  <2> DEFINE r == IF Deep(p) THEN [proc[p] EXCEPT !.pc = "persist"] ELSE Idle
  <2>1. proc' = [proc EXCEPT ![p] = r] /\ r.pc \in {"persist", "idle"}
    BY <1>8, BusyProc DEF Finish, Goto, Done, Busy, Idle
  <2> HIDE DEF r
  <2> QED  BY <1>8, <2>1, MoveKeepsCharges DEF Finish
<1> QED  BY <1>1, <1>2, <1>3, <1>5, <1>6, <1>7, <1>8 DEF Step

\* Prose for a user is granted and about to be charged in one step.
LEMMA ComposeProseCharges ==
  ASSUME TypeOK, ChargedOncePerReport, NEW p \in Procs, ComposeProse(p)
  PROVE  ChargedOncePerReport'
<1> DEFINE r == [proc[p] EXCEPT !.pc = AfterProse(p), !.prose = TRUE]
           v == proc[p].user
           n == MonthOf[proc[p].day]
<1>1. proc[p] \in Busy /\ proc[p].pc = "compose"
  BY BusyProc DEF ComposeProse
<1>2. /\ proc' = [proc EXCEPT ![p] = r]
      /\ r.pc = AfterProse(p) /\ r.user = v /\ r.day = proc[p].day
      /\ used' = used /\ lost' = lost
  BY <1>1 DEF ComposeProse, Busy
<1> HIDE DEF r
<1>3. CASE v = None
  <2>1. r.pc = "finish" /\ granted' = granted
    BY <1>2, <1>3 DEF AfterProse, ComposeProse
  <2> QED  BY <1>1, <1>2, <2>1, MoveKeepsCharges, ChargesStayCorrect
<1>4. CASE v # None
  <2>1. v \in Users /\ n \in Months
    BY <1>1, <1>4 DEF Busy, Months
  <2>2. granted' = [granted EXCEPT ![v][n] = @ + 1]
    BY <1>4 DEF ComposeProse
  <2>3. r.pc = "charge"
    BY <1>2, <1>4 DEF AfterProse
  <2> SUFFICES ASSUME NEW u \in Users, NEW m \in Months
               PROVE  used[u][m] + Cardinality(Charging(u, m)') + lost[u][m] = granted'[u][m]
    BY <1>2 DEF ChargedOncePerReport
  <2>4. used[u][m] \in Nat /\ lost[u][m] \in Nat /\ granted[u][m] \in Nat
        /\ used[u][m] + Cardinality(Charging(u, m)) + lost[u][m] = granted[u][m]
        /\ IsFiniteSet(Charging(u, m)) /\ Cardinality(Charging(u, m)) \in Nat
    BY ChargingFinite DEF ChargedOncePerReport, TypeOK
  <2>5. CASE u = v /\ m = n
    <3>1. Charging(u, m)' = Charging(u, m) \cup {p} /\ p \notin Charging(u, m)
      BY <1>1, <1>2, <2>3, <2>5 DEF Charging, TypeOK
    <3>2. Cardinality(Charging(u, m)') = Cardinality(Charging(u, m)) + 1
      BY <2>4, <3>1, FS_AddElement
    <3>3. granted'[u][m] = granted[u][m] + 1
      BY <2>1, <2>2, <2>5 DEF TypeOK
    <3> QED  BY <2>4, <3>2, <3>3
  <2>6. CASE ~(u = v /\ m = n)
    <3>1. Charging(u, m)' = Charging(u, m)
      BY <1>1, <1>2, <2>3, <2>6 DEF Charging, TypeOK
    <3>2. granted'[u][m] = granted[u][m]
      BY <2>1, <2>2, <2>6 DEF TypeOK
    <3> QED  BY <2>4, <3>1, <3>2
  <2> QED  BY <2>5, <2>6
<1> QED  BY <1>3, <1>4

\* A charge, and a charge that fails, leaves the account balanced.
LEMMA ChargeCharges ==
  ASSUME TypeOK, ChargedOncePerReport, NEW p \in Procs, Charge(p)
  PROVE  ChargedOncePerReport'
<1> DEFINE r == [proc[p] EXCEPT !.pc = "finish"]
           v == proc[p].user
           n == MonthOf[proc[p].day]
<1>1. proc[p] \in Busy /\ proc[p].pc = "charge" /\ granted' = granted
  BY BusyProc DEF Charge
<1>2. proc' = [proc EXCEPT ![p] = r] /\ r.pc = "finish"
  BY <1>1 DEF Charge, Goto, Busy
<1>3. \/ used' = [used EXCEPT ![v][n] = @ + 1] /\ lost' = lost
      \/ lost' = [lost EXCEPT ![v][n] = @ + 1] /\ used' = used
  BY DEF Charge
<1>4. n \in Months
  BY <1>1 DEF Busy, Months
<1> HIDE DEF r
<1> SUFFICES ASSUME NEW u \in Users, NEW m \in Months
             PROVE  used'[u][m] + Cardinality(Charging(u, m)') + lost'[u][m] = granted[u][m]
  BY <1>1 DEF ChargedOncePerReport
<1>5. used[u][m] \in Nat /\ lost[u][m] \in Nat /\ granted[u][m] \in Nat
      /\ used[u][m] + Cardinality(Charging(u, m)) + lost[u][m] = granted[u][m]
      /\ IsFiniteSet(Charging(u, m)) /\ Cardinality(Charging(u, m)) \in Nat
  BY ChargingFinite DEF ChargedOncePerReport, TypeOK
<1>6. CASE u = v /\ m = n
  <2>1. Charging(u, m)' = Charging(u, m) \ {p} /\ p \in Charging(u, m)
    BY <1>1, <1>2, <1>6 DEF Charging, TypeOK
  <2>2. Cardinality(Charging(u, m)') = Cardinality(Charging(u, m)) - 1
    BY <1>5, <2>1, FS_RemoveElement
  <2>3. \/ used'[u][m] = used[u][m] + 1 /\ lost'[u][m] = lost[u][m]
        \/ lost'[u][m] = lost[u][m] + 1 /\ used'[u][m] = used[u][m]
    BY <1>3, <1>4, <1>6 DEF TypeOK
  <2> QED  BY <1>5, <2>2, <2>3
<1>7. CASE ~(u = v /\ m = n)
  <2>1. Charging(u, m)' = Charging(u, m)
    BY <1>1, <1>2, <1>7 DEF Charging, TypeOK
  <2>2. used'[u][m] = used[u][m] /\ lost'[u][m] = lost[u][m]
    BY <1>3, <1>4, <1>7 DEF TypeOK
  <2> QED  BY <1>5, <2>1, <2>2
<1> QED  BY <1>6, <1>7

LEMMA RestartCharges ==
  ASSUME TypeOK, ChargedOncePerReport, Restart
  PROVE  ChargedOncePerReport'
<1> SUFFICES ASSUME NEW u \in Users, NEW m \in Months
             PROVE  used[u][m] + Cardinality(Charging(u, m)') + lost'[u][m] = granted[u][m]
  BY DEF Restart, ChargedOncePerReport
<1>1. Cardinality(Charging(u, m)') = 0
  <2>1. Charging(u, m)' = {}
    BY DEF Charging, Restart, Idle
  <2> QED  BY <2>1, FS_EmptySet
<1>2. lost'[u][m] = lost[u][m] + Cardinality(Charging(u, m))
  BY DEF Restart
<1>3. used[u][m] \in Nat /\ lost[u][m] \in Nat /\ Cardinality(Charging(u, m)) \in Nat
      /\ used[u][m] + Cardinality(Charging(u, m)) + lost[u][m] = granted[u][m]
  BY ChargingFinite DEF ChargedOncePerReport, TypeOK
<1> QED  BY <1>1, <1>2, <1>3

LEMMA InitCharges == Init => ChargedOncePerReport
<1> SUFFICES ASSUME Init, NEW u \in Users, NEW m \in Months
             PROVE  used[u][m] + Cardinality(Charging(u, m)) + lost[u][m] = granted[u][m]
  BY DEF ChargedOncePerReport
<1>1. Charging(u, m) = {}
  BY DEF Init, Charging, Idle
<1>2. used[u][m] = 0 /\ lost[u][m] = 0 /\ granted[u][m] = 0
  BY DEF Init
<1> QED  BY <1>1, <1>2, FS_EmptySet

LEMMA NextCharges ==
  ASSUME TypeOK, ChargedOncePerReport, [Next]_vars
  PROVE  ChargedOncePerReport'
<1>1. ASSUME NEW p \in Procs, NEW kind \in {"sync", "deep"}, NEW t \in Tickers,
             NEW u \in Users \cup {None}, Request(p, kind, t, u)
      PROVE  ChargedOncePerReport'
  <2> DEFINE key == IF kind = "sync" THEN SyncKey(t, today) ELSE DeepKey(t, today)
             user == IF kind = "sync" \/ t \in Demo THEN None ELSE u
             r == [Idle EXCEPT !.pc = "lookup", !.day = today, !.user = user, !.key = key]
  <2>1. proc' = [proc EXCEPT ![p] = r] /\ r.pc = "lookup" /\ proc[p].pc = "idle"
    BY <1>1 DEF Request, Idle
  <2> HIDE DEF r
  <2> QED  BY <1>1, <2>1, MoveKeepsCharges, ChargesStayCorrect DEF Request
<1>2. ASSUME NEW p \in Procs, Step(p) PROVE ChargedOncePerReport'
  BY <1>2, OtherStepsKeepCharges, ChargesStayCorrect, ComposeProseCharges, ChargeCharges
<1>3. CASE Midnight
  BY <1>3, ChargesStayCorrect DEF Midnight, ChargesStay
<1>4. CASE Restart
  BY <1>4, RestartCharges
<1>5. CASE UNCHANGED vars
  BY <1>5, ChargesStayCorrect DEF vars, ChargesStay
<1> QED  BY <1>1, <1>2, <1>3, <1>4, <1>5 DEF Next

\* Every report a user is granted is charged to that user once, but for the
\* charges the store failed or a restart cut off; nothing else is charged.
THEOREM ChargeCorrect == Spec => []ChargedOncePerReport
<1>1. Init => TypeOK /\ ChargedOncePerReport
  BY InitTypes, InitCharges
<1>2. TypeOK /\ ChargedOncePerReport /\ [Next]_vars => TypeOK' /\ ChargedOncePerReport'
  BY TypeStep, NextCharges
<1> QED  BY <1>1, <1>2, PTL DEF Spec

-----------------------------------------------------------------------------
(* The daily budget. *)

\* Prose is written once, and a slot that is still held at the end was spent.
SlotInv ==
  \A p \in Procs :
    /\ proc[p].pc \in {"lookup", "store", "decide"} => proc[p].prose = FALSE
    /\ proc[p].pc = "charge" => proc[p].prose = TRUE
    /\ proc[p].pc = "finish" => proc[p].prose = TRUE \/ proc[p].slot = FALSE

\* Record r of a process counts against the budget of day d.
Counts(r, d) ==
  /\ r.pc \in Holding
  /\ r.slot = TRUE /\ r.prose = FALSE /\ r.day = d

LEMMA CountsMeans ==
  ASSUME NEW r \in ProcState, NEW d
  PROVE  Counts(r, d) <=> /\ r.pc \in Holding
                          /\ r.slot /\ ~r.prose /\ r.day = d
<1>1. CASE r = Idle
  BY <1>1 DEF Counts, Holding, Idle
<1>2. CASE r # Idle
  <2>1. r.slot \in BOOLEAN /\ r.prose \in BOOLEAN
    BY <1>2 DEF ProcState
  <2> QED  BY <2>1 DEF Counts, Holding
<1> QED  BY <1>1, <1>2

LEMMA ReservingIsCounts ==
  ASSUME TypeOK, NEW d
  PROVE  Reserving(d) = {p \in Procs : Counts(proc[p], d)}
<1>1. \A p \in Procs : proc[p] \in ProcState
  BY DEF TypeOK
<1> QED  BY <1>1, CountsMeans DEF Reserving, Generating, Holding

LEMMA ReservingFinite ==
  ASSUME NEW d
  PROVE  IsFiniteSet(Reserving(d)) /\ Cardinality(Reserving(d)) \in Nat
BY ProcsFinite, FS_Subset, FS_CardinalityType DEF Reserving

\* What one process that becomes r does to the reservations of day d.
LEMMA MoveReserves ==
  ASSUME TypeOK, TypeOK', NEW p \in Procs, NEW r, proc' = [proc EXCEPT ![p] = r], NEW d
  PROVE  /\ Counts(r, d) /\ ~Counts(proc[p], d) =>
              Cardinality(Reserving(d)') = Cardinality(Reserving(d)) + 1
         /\ ~Counts(r, d) /\ Counts(proc[p], d) =>
              Cardinality(Reserving(d)') = Cardinality(Reserving(d)) - 1
         /\ (Counts(r, d) <=> Counts(proc[p], d)) =>
              Cardinality(Reserving(d)') = Cardinality(Reserving(d))
<1> DEFINE R == {q \in Procs : Counts(proc[q], d)}
           S == {q \in Procs : Counts(proc'[q], d)}
<1>1. Reserving(d) = R /\ IsFiniteSet(R)
  BY ReservingIsCounts, ReservingFinite
<1>2. Reserving(d)' = S
  <2>1. \A q \in Procs : proc'[q] \in ProcState
    BY DEF TypeOK
  <2> QED  BY <2>1, CountsMeans DEF Reserving, Generating, Holding
<1>3. proc'[p] = r /\ \A q \in Procs \ {p} : proc'[q] = proc[q]
  BY DEF TypeOK
<1>4. CASE Counts(r, d) /\ ~Counts(proc[p], d)
  <2>1. S = R \cup {p} /\ p \notin R
    BY <1>3, <1>4
  <2>2. Cardinality(S) = Cardinality(R) + 1
    BY <1>1, <2>1, FS_AddElement
  <2> HIDE DEF R, S
  <2> QED  BY <1>1, <1>2, <1>4, <2>2
<1>5. CASE ~Counts(r, d) /\ Counts(proc[p], d)
  <2>1. S = R \ {p} /\ p \in R
    BY <1>3, <1>5
  <2>2. Cardinality(S) = Cardinality(R) - 1
    BY <1>1, <2>1, FS_RemoveElement
  <2> HIDE DEF R, S
  <2> QED  BY <1>1, <1>2, <1>5, <2>2
<1>6. CASE Counts(r, d) <=> Counts(proc[p], d)
  <2>1. S = R
    BY <1>3, <1>6
  <2> QED  BY <1>1, <1>2, <1>6, <2>1
<1> QED  BY <1>4, <1>5, <1>6

\* What SlotInv asks of the record of one process.
SlotOK(r) ==
  /\ r.pc \in {"lookup", "store", "decide"} => r.prose = FALSE
  /\ r.pc = "charge" => r.prose = TRUE
  /\ r.pc = "finish" => r.prose = TRUE \/ r.slot = FALSE

LEMMA MoveSlots ==
  ASSUME TypeOK, SlotInv, NEW p \in Procs, NEW r, proc' = [proc EXCEPT ![p] = r], SlotOK(r)
  PROVE  SlotInv'
BY DEF TypeOK, SlotInv, SlotOK

LEMMA BudgetAt ==
  ASSUME TypeOK, BudgetIsSpentOnProse, NEW d \in Days, dayDate = d
  PROVE  dayCount <= Cardinality(Reserving(d)) + made[d]
BY NoneIsFresh DEF BudgetIsSpentOnProse, Reserving

LEMMA ReservingLater ==
  ASSUME NEW d
  PROVE  Cardinality(Reserving(d)') \in Nat
BY ProcsFinite, FS_Subset, FS_CardinalityType DEF Reserving

\* A step that leaves the count alone and drops no reservation.
LEMMA KeepBudget ==
  ASSUME TypeOK, TypeOK', BudgetIsSpentOnProse,
         NEW p \in Procs, NEW r, proc' = [proc EXCEPT ![p] = r],
         dayDate' = dayDate, dayCount' = dayCount, made' = made,
         Counts(proc[p], dayDate) => Counts(r, dayDate)
  PROVE  BudgetIsSpentOnProse'
<1> SUFFICES ASSUME NEW d \in Days, dayDate = d
             PROVE  dayCount <= Cardinality(Reserving(d)') + made[d]
  BY DEF BudgetIsSpentOnProse, TypeOK, Reserving
<1>1. dayCount \in Nat /\ made[d] \in Nat /\ Cardinality(Reserving(d)) \in Nat
      /\ dayCount <= Cardinality(Reserving(d)) + made[d]
  BY NumbersType, ReservingFinite, BudgetAt DEF TypeOK
<1>2. \/ Cardinality(Reserving(d)') = Cardinality(Reserving(d)) + 1
      \/ Cardinality(Reserving(d)') = Cardinality(Reserving(d))
  BY MoveReserves
<1> QED  BY <1>1, <1>2

\* A generation that gives its slot back gives its reservation up with it.
LEMMA RefundBudget ==
  ASSUME TypeOK, TypeOK', BudgetIsSpentOnProse,
         NEW p \in Procs, NEW r, proc' = [proc EXCEPT ![p] = r],
         dayDate' = dayDate, dayCount' = Refunded(p), made' = made
  PROVE  BudgetIsSpentOnProse'
<1> SUFFICES ASSUME NEW d \in Days, dayDate = d
             PROVE  dayCount' <= Cardinality(Reserving(d)') + made[d]
  BY DEF BudgetIsSpentOnProse, TypeOK, Reserving
<1>1. dayCount \in Nat /\ made[d] \in Nat
      /\ Cardinality(Reserving(d)) \in Nat /\ Cardinality(Reserving(d)') \in Nat
      /\ dayCount <= Cardinality(Reserving(d)) + made[d]
  BY NumbersType, ReservingFinite, ReservingLater, BudgetAt DEF TypeOK
<1>2. CASE Counts(proc[p], d)
  <2>1. dayCount' = IF dayCount > 0 THEN dayCount - 1 ELSE dayCount
    BY <1>2 DEF Counts, Holding, Refunded
  <2>2. \/ Cardinality(Reserving(d)') = Cardinality(Reserving(d)) - 1
        \/ Cardinality(Reserving(d)') = Cardinality(Reserving(d))
    BY <1>2, MoveReserves
  <2> QED  BY <1>1, <2>1, <2>2
<1>3. CASE ~Counts(proc[p], d)
  <2>1. dayCount' <= dayCount
    BY <1>1 DEF Refunded
  <2>2. \/ Cardinality(Reserving(d)') = Cardinality(Reserving(d)) + 1
        \/ Cardinality(Reserving(d)') = Cardinality(Reserving(d))
    BY <1>3, MoveReserves
  <2>3. dayCount' \in Nat
    BY NumbersType DEF TypeOK
  <2> QED  BY <1>1, <2>1, <2>2, <2>3
<1> QED  BY <1>2, <1>3

\* A critical section that rolls the day, and counts what it reserves.
LEMMA RollBudget ==
  ASSUME TypeOK, TypeOK', BudgetIsSpentOnProse,
         NEW p \in Procs, NEW r, proc' = [proc EXCEPT ![p] = r],
         NEW d \in Days, dayDate' = d, made' = made, ~Counts(proc[p], d),
         \/ dayCount' = CountAfterSweep(d)
         \/ dayCount' = CountAfterSweep(d) + 1 /\ Counts(r, d)
  PROVE  BudgetIsSpentOnProse'
<1> SUFFICES dayCount' <= Cardinality(Reserving(d)') + made[d]
  BY DEF BudgetIsSpentOnProse, Reserving
<1>1. made[d] \in Nat /\ Cardinality(Reserving(d)) \in Nat /\ CountAfterSweep(d) \in Nat
  BY NumbersType, ReservingFinite DEF TypeOK, CountAfterSweep
<1>2. CountAfterSweep(d) <= Cardinality(Reserving(d)) + made[d]
  <2>1. CASE dayDate = d
    BY <2>1, BudgetAt DEF CountAfterSweep
  <2>2. CASE dayDate # d
    BY <1>1, <2>2 DEF CountAfterSweep
  <2> QED  BY <2>1, <2>2
<1>3. \/ Cardinality(Reserving(d)') = Cardinality(Reserving(d)) + 1
      \/ ~Counts(r, d) /\ Cardinality(Reserving(d)') = Cardinality(Reserving(d))
  BY MoveReserves
<1> QED  BY <1>1, <1>2, <1>3

\* A step that only moves a process to r, as the budget sees it.
LEMMA PlainMove ==
  ASSUME TypeOK, TypeOK', SlotInv, BudgetIsSpentOnProse,
         NEW p \in Procs, NEW r, proc' = [proc EXCEPT ![p] = r], SlotOK(r),
         dayDate' = dayDate, dayCount' = dayCount, made' = made,
         Counts(proc[p], dayDate) => Counts(r, dayDate)
  PROVE  SlotInv' /\ BudgetIsSpentOnProse'
BY MoveSlots, KeepBudget

LEMMA IdleMoves ==
  ~Counts(Idle, dayDate) /\ SlotOK(Idle)
BY DEF Counts, Holding, SlotOK, Idle

\* A process that only changes its pc inside or outside the gate.
LEMMA GotoMoves ==
  ASSUME TypeOK, TypeOK', SlotInv, BudgetIsSpentOnProse,
         NEW p \in Procs, NEW pc \in PCs, proc[p].pc # "idle", Goto(p, pc),
         SlotOK([proc[p] EXCEPT !.pc = pc]),
         dayDate' = dayDate, dayCount' = dayCount, made' = made,
         Counts(proc[p], dayDate) =>
           pc \in Holding
  PROVE  SlotInv' /\ BudgetIsSpentOnProse'
<1> DEFINE r == [proc[p] EXCEPT !.pc = pc]
<1>1. proc' = [proc EXCEPT ![p] = r]
  BY DEF Goto
<1>2. Counts(proc[p], dayDate) => Counts(r, dayDate)
  BY BusyProc DEF Counts, Holding, Busy
<1>3. SlotOK(r)
  OBVIOUS
<1> HIDE DEF r
<1> QED  BY <1>1, <1>2, <1>3, PlainMove

LEMMA StepBudget ==
  ASSUME TypeOK, TypeOK', SlotInv, BudgetIsSpentOnProse, NEW p \in Procs, Step(p)
  PROVE  SlotInv' /\ BudgetIsSpentOnProse'
<1>1. CASE SyncHit(p) \/ DeepHit(p) \/ StoreHit(p) \/ NoGeneration(p) \/ Persist(p)
  <2>1. proc' = [proc EXCEPT ![p] = Idle] /\ ~Counts(proc[p], dayDate)
        /\ dayDate' = dayDate /\ dayCount' = dayCount /\ made' = made
    BY <1>1 DEF SyncHit, DeepHit, StoreHit, NoGeneration, Persist, Done, Counts, Holding, memory
  <2> QED  BY <2>1, IdleMoves, PlainMove
<1>2. CASE SyncTake(p)
  <2> DEFINE d == proc[p].day
             slot == CountAfterSweep(d) < DailyCap
             r == [proc[p] EXCEPT !.pc = "assemble", !.slot = slot]
  <2>1. proc[p] \in Busy /\ proc[p].pc = "lookup" /\ d \in Days /\ proc[p].prose = FALSE
    BY <1>2, BusyProc DEF SyncTake, Busy, SlotInv
  <2>2. /\ proc' = [proc EXCEPT ![p] = r] /\ SlotOK(r)
        /\ slot => Counts(r, d)
    BY <1>2, <2>1 DEF SyncTake, Busy, Counts, Holding, SlotOK
  <2>3. ~Counts(proc[p], d)
    BY <2>1 DEF Counts, Holding
  <2>4. CountAfterSweep(d) \in Nat
    BY NumbersType DEF CountAfterSweep, TypeOK
  <2>5. dayDate' = d /\ made' = made
        /\ \/ dayCount' = CountAfterSweep(d)
           \/ dayCount' = CountAfterSweep(d) + 1 /\ slot
    BY <1>2, <2>4 DEF SyncTake
  <2> HIDE DEF r, slot
  <2> QED  BY <2>1, <2>2, <2>3, <2>5, MoveSlots, RollBudget
<1>3. CASE \E cold, known \in BOOLEAN : Assemble(p, cold, known)
  <2> PICK cold \in BOOLEAN, known \in BOOLEAN : Assemble(p, cold, known)
    BY <1>3
  <2> DEFINE pc == IF ~known THEN "refund" ELSE IF proc[p].slot THEN "compose" ELSE "finish"
             r == [proc[p] EXCEPT !.pc = pc, !.cold = cold \/ ~known]
  <2>1. proc[p] \in Busy /\ proc' = [proc EXCEPT ![p] = r]
    BY BusyProc DEF Assemble
  <2>2. SlotOK(r) /\ (Counts(proc[p], dayDate) => Counts(r, dayDate))
    BY <2>1 DEF Busy, SlotOK, Counts, Holding
  <2>3. dayDate' = dayDate /\ dayCount' = dayCount /\ made' = made
    BY DEF Assemble, memory
  <2> HIDE DEF r
  <2> QED  BY <2>1, <2>2, <2>3, PlainMove
<1>4. CASE DeepMiss(p) \/ StoreMiss(p) \/ ComposeNothing(p) \/ SyncPanics(p)
  <2>1. PICK pc \in {"store", "decide", "refund", "panicked"} :
          /\ Goto(p, pc)
          /\ pc \in {"store", "decide"} => proc[p].pc \in {"lookup", "store"}
          /\ proc[p].pc \in {"lookup", "store", "assemble", "compose"}
          /\ dayDate' = dayDate /\ dayCount' = dayCount /\ made' = made
    BY <1>4 DEF DeepMiss, StoreMiss, ComposeNothing, SyncPanics, memory
  <2>2. SlotOK([proc[p] EXCEPT !.pc = pc])
    BY <2>1, BusyProc DEF SlotOK, SlotInv, Busy
  <2>3. Counts(proc[p], dayDate) => pc \in Holding
    BY <2>1 DEF Counts, Holding
  <2> QED  BY <2>1, <2>2, <2>3, GotoMoves DEF PCs
<1>5. CASE Exhausted(p)
  <2>1. proc[p].day \in Days /\ ~Counts(proc[p], proc[p].day)
    BY <1>5, BusyProc DEF Exhausted, Busy, Counts, Holding
  <2>2. /\ proc' = [proc EXCEPT ![p] = Idle] /\ dayDate' = proc[p].day /\ made' = made
        /\ dayCount' = CountAfterSweep(proc[p].day)
    BY <1>5 DEF Exhausted, Done
  <2> DEFINE d == proc[p].day
  <2>3. BudgetIsSpentOnProse'
    <3> HIDE DEF d
    <3> QED  BY <2>1, <2>2, RollBudget DEF d
  <2> QED  BY <2>2, <2>3, IdleMoves, MoveSlots
<1>6. CASE DeepTake(p)
  <2> DEFINE d == proc[p].day
             r == [proc[p] EXCEPT !.pc = "compose", !.slot = TRUE]
  <2>1. proc[p] \in Busy /\ proc[p].pc = "decide" /\ d \in Days /\ proc[p].prose = FALSE
    BY <1>6, BusyProc DEF DeepTake, Busy, SlotInv
  <2>2. proc' = [proc EXCEPT ![p] = r] /\ SlotOK(r) /\ Counts(r, d)
    BY <1>6, <2>1 DEF DeepTake, Busy, Counts, Holding, SlotOK
  <2>3. ~Counts(proc[p], d)
    BY <2>1 DEF Counts, Holding
  <2>4. dayDate' = d /\ made' = made /\ dayCount' = CountAfterSweep(d) + 1
    BY <1>6 DEF DeepTake
  <2> HIDE DEF r
  <2> QED  BY <2>1, <2>2, <2>3, <2>4, MoveSlots, RollBudget
<1>7. CASE ComposeProse(p)
  <2> DEFINE r == [proc[p] EXCEPT !.pc = AfterProse(p), !.prose = TRUE]
  <2>1. proc[p] \in Busy /\ proc[p].day \in Days
    BY <1>7, BusyProc DEF ComposeProse, Busy
  <2>2. proc' = [proc EXCEPT ![p] = r] /\ SlotOK(r) /\ ~Counts(r, dayDate)
    BY <1>7, <2>1 DEF ComposeProse, AfterProse, Busy, Counts, Holding, SlotOK
  <2>3. dayDate' = dayDate /\ dayCount' = dayCount
        /\ made' = [made EXCEPT ![proc[p].day] = @ + 1]
    BY <1>7 DEF ComposeProse, memory
  <2> HIDE DEF r
  <2>4. SlotInv'
    BY <2>2, MoveSlots
  <2>5. BudgetIsSpentOnProse'
    <3> SUFFICES ASSUME NEW d \in Days, dayDate = d
                 PROVE  dayCount <= Cardinality(Reserving(d)') + made'[d]
      BY <2>3 DEF BudgetIsSpentOnProse, TypeOK, Reserving
    <3>1. dayCount \in Nat /\ made[d] \in Nat
          /\ Cardinality(Reserving(d)) \in Nat /\ Cardinality(Reserving(d)') \in Nat
          /\ dayCount <= Cardinality(Reserving(d)) + made[d]
      BY NumbersType, ReservingFinite, ReservingLater, BudgetAt DEF TypeOK
    <3>2. CASE proc[p].day = d
      <4>1. made'[d] = made[d] + 1
        BY <2>3, <3>2 DEF TypeOK
      <4>2. \/ Cardinality(Reserving(d)') = Cardinality(Reserving(d)) + 1
            \/ Cardinality(Reserving(d)') = Cardinality(Reserving(d))
            \/ Cardinality(Reserving(d)') = Cardinality(Reserving(d)) - 1
        BY <2>2, MoveReserves
      <4> QED  BY <3>1, <4>1, <4>2
    <3>3. CASE proc[p].day # d
      <4>1. made'[d] = made[d]
        BY <2>3, <3>3 DEF TypeOK
      <4>2. ~Counts(proc[p], d) /\ ~Counts(r, d)
        BY <2>2, <3>3 DEF Counts, Holding
      <4>3. Cardinality(Reserving(d)') = Cardinality(Reserving(d))
        BY <2>2, <4>2, MoveReserves
      <4> QED  BY <3>1, <4>1, <4>3
    <3> QED  BY <3>2, <3>3
  <2> QED  BY <2>4, <2>5
<1>8. CASE ComposePanics(p) \/ DeepRefund(p)
  <2>1. proc' = [proc EXCEPT ![p] = Idle] /\ dayDate' = dayDate
        /\ dayCount' = Refunded(p) /\ made' = made
    BY <1>8 DEF ComposePanics, DeepRefund, Done
  <2> QED  BY <2>1, IdleMoves, MoveSlots, RefundBudget
<1>9. CASE Charge(p)
  <2>1. /\ Goto(p, "finish") /\ proc[p].pc = "charge" /\ proc[p].prose = TRUE
        /\ dayDate' = dayDate /\ dayCount' = dayCount /\ made' = made
    BY <1>9 DEF Charge, SlotInv, memory
  <2>2. SlotOK([proc[p] EXCEPT !.pc = "finish"])
    BY <2>1, BusyProc DEF SlotOK, Busy
  <2> QED  BY <2>1, <2>2, GotoMoves DEF PCs, Holding
<1>10. CASE SyncRefund(p)
  <2> DEFINE r == [proc[p] EXCEPT !.pc = "finish", !.slot = FALSE]
  <2>1. proc' = [proc EXCEPT ![p] = r] /\ SlotOK(r)
    BY <1>10, BusyProc DEF SyncRefund, Busy, SlotOK
  <2>2. dayDate' = dayDate /\ dayCount' = Refunded(p) /\ made' = made
    BY <1>10 DEF SyncRefund
  <2> HIDE DEF r
  <2> QED  BY <2>1, <2>2, MoveSlots, RefundBudget
<1>11. CASE Finish(p)
  <2>1. ~Counts(proc[p], dayDate) /\ proc[p].pc = "finish"
        /\ dayDate' = dayDate /\ dayCount' = dayCount /\ made' = made
    BY <1>11 DEF Finish, SlotInv, Counts, Holding
  <2>2. CASE Deep(p)
    <3>1. SlotOK([proc[p] EXCEPT !.pc = "persist"])
      BY <2>1, BusyProc DEF SlotOK, Busy
    <3> QED  BY <1>11, <2>1, <2>2, <3>1, GotoMoves DEF Finish, PCs
  <2>3. CASE ~Deep(p)
    BY <1>11, <2>1, <2>3, IdleMoves, PlainMove DEF Finish, Done
  <2> QED  BY <2>2, <2>3
<1> QED  BY <1>1, <1>2, <1>3, <1>4, <1>5, <1>6, <1>7, <1>8, <1>9, <1>10, <1>11 DEF Step

LEMMA InitBudget == Init => SlotInv /\ BudgetIsSpentOnProse
BY DEF Init, SlotInv, BudgetIsSpentOnProse, Idle

LEMMA NextBudget ==
  ASSUME TypeOK, TypeOK', SlotInv, BudgetIsSpentOnProse, [Next]_vars
  PROVE  SlotInv' /\ BudgetIsSpentOnProse'
<1>1. ASSUME NEW p \in Procs, NEW kind \in {"sync", "deep"}, NEW t \in Tickers,
             NEW u \in Users \cup {None}, Request(p, kind, t, u)
      PROVE  SlotInv' /\ BudgetIsSpentOnProse'
  <2> DEFINE key == IF kind = "sync" THEN SyncKey(t, today) ELSE DeepKey(t, today)
             user == IF kind = "sync" \/ t \in Demo THEN None ELSE u
             r == [Idle EXCEPT !.pc = "lookup", !.day = today, !.user = user, !.key = key]
  <2>1. /\ proc' = [proc EXCEPT ![p] = r] /\ r.pc = "lookup" /\ r.prose = FALSE
        /\ proc[p].pc = "idle"
        /\ dayDate' = dayDate /\ dayCount' = dayCount /\ made' = made
    BY <1>1 DEF Request, Idle, memory
  <2> HIDE DEF r
  <2> QED  BY <2>1, PlainMove DEF SlotOK, Counts, Holding
<1>2. ASSUME NEW p \in Procs, Step(p) PROVE SlotInv' /\ BudgetIsSpentOnProse'
  BY <1>2, StepBudget
<1>3. CASE Midnight \/ UNCHANGED vars
  BY <1>3 DEF Midnight, vars, memory, SlotInv, BudgetIsSpentOnProse, Reserving, Generating, Holding
<1>4. CASE Restart
  BY <1>4 DEF Restart, SlotInv, BudgetIsSpentOnProse, Idle
<1> QED  BY <1>1, <1>2, <1>3, <1>4 DEF Next

\* A slot of the daily budget is held by a generation still under way, or was
\* spent on prose: no failure, panic, late refund or change of day burns one.
THEOREM BudgetCorrect == Spec => []BudgetIsSpentOnProse
<1> DEFINE IInv == TypeOK /\ SlotInv /\ BudgetIsSpentOnProse
<1>1. Init => IInv
  BY InitTypes, InitBudget
<1>2. IInv /\ [Next]_vars => IInv'
  BY TypeStep, NextBudget
<1> QED  BY <1>1, <1>2, PTL DEF Spec

-----------------------------------------------------------------------------
(* The content of a report. *)

\* The least of a set of natural numbers.
LEMMA Least == \A S \in SUBSET Nat : S # {} => \E m \in S : \A n \in S : m <= n
<1> SUFFICES ASSUME NEW S \in SUBSET Nat, S # {}
             PROVE  \E m \in S : \A n \in S : m <= n
  OBVIOUS
<1>1. \E x \in S : \A y \in S : <<y, x>> \notin OpToRel(<, Nat)
  BY NatLessThanWellFounded, WFMin
<1>2. PICK x \in S : \A y \in S : <<y, x>> \notin OpToRel(<, Nat)
  BY <1>1
<1>3. \A y \in S : ~(y < x)
  <2> SUFFICES ASSUME NEW y \in S, y < x PROVE FALSE
    OBVIOUS
  <2>1. <<y, x>> \in OpToRel(<, Nat)
    BY DEF OpToRel
  <2> QED  BY <2>1, <1>2
<1> QED  BY <1>3

\* A sheet no reader is advised by, of which nothing is locked, and whose sections are there if
\* one of their facts is.
CleanSection(x) ==
  /\ IsSection(x) /\ ~x.locked
  /\ ~hasAdvice(x.prose) /\ "advice" \notin x.bull \cup x.bear
Backed(x) == IF x.shown THEN \E f \in x.facts : f.ok ELSE x.facts = {} /\ x.prose = <<>>
Clean(s) ==
  /\ s = [k \in SectionKeys |-> s[k]]
  /\ \A k \in SectionKeys : CleanSection(s[k])
  /\ \A k \in Body : Backed(s[k])

Unsaid(s) == \A k \in SectionKeys : s[k].prose = <<>>
SameFacts(s, t) == \A k \in Body : s[k].facts = t[k].facts /\ s[k].shown = t[k].shown

\* Where the report is written, and when there is one to be kept.
PathInv ==
  /\ path = "sync" => mine = 1 /\ written = 0 /\ stage # "decide"
  /\ stage \in {"idle", "assemble", "market", "decide", "not found"} => mine = 1 /\ written = 0
  /\ path = "deep" /\ stage \in {"compose", "fill", "publish"} => mine = 2
  /\ cached \cup served.page # {} => stage = "done"

\* The composer writes prose only, and not into what a deep response is made of.
ArrayInv ==
  /\ Clean(array[1]) /\ Clean(array[2])
  /\ path = "deep" \/ stage \in {"idle", "assemble", "market"} => Unsaid(array[1])
  /\ mine = 2 => SameFacts(array[2], array[1])

\* The facts are those of their providers.
SourceInv ==
  /\ array[1]["valuation"].facts \subseteq valuation
  /\ array[1]["fundamentals"].facts \subseteq fundamentals
  /\ array[1]["flows"].facts \subseteq assembleFlows

\* A sync report that found every source warm ranks the ticker wherever it is ranked.
Ranked == \A p \in Relative : \A k \in answer[p] : Fact(k, 0) \in array[1]["relative"].facts
ColdInv ==
  path = "sync" /\ ~coldRelative /\ stage # "idle" =>
    Relative \subseteq warm /\ (stage \notin {"assemble", "market"} => Ranked)

SentInv == \A k \in SectionKeys : sent[k] = Absent \/ (written > 0 /\ sent[k] = array[1][k])

KeptInv ==
  /\ cached \subseteq {array[mine]}
  /\ cached # {} /\ path = "sync" => ~coldRelative
  /\ served.page \subseteq {View(array[mine], served.entitled)}

\* The types of all but the sheets, which the other parts give.
ScalarInv ==
  /\ filing \in Filings \cup {Unfiled} /\ holders \in Holdings \cup {<<>>}
  /\ warm \subseteq Relative
  /\ stage \in {"idle", "assemble", "market", "decide", "compose", "fill", "publish", "done",
                "not found"}
  /\ path \in {"sync", "deep"} /\ coldRelative \in BOOLEAN
  /\ mine \in 1..2 /\ filled \in 1..8 /\ written \in 0..9
  /\ array = [i \in 1..2 |-> array[i]] /\ sent = [k \in SectionKeys |-> sent[k]]
  /\ served = [entitled |-> served.entitled, page |-> served.page] /\ served.entitled \in BOOLEAN

\* Each provider gives facts of its own.
AnswerInv == \A p \in Providers : answer[p] \subseteq Everything[p]

SheetInv == ScalarInv /\ AnswerInv /\ PathInv /\ ArrayInv /\ SourceInv /\ ColdInv /\ SentInv /\ KeptInv

LEMMA OrderFacts ==
  /\ DOMAIN Order = 1..8 /\ Len(Order) = 8
  /\ SectionKeys = {"overview", "valuation", "fundamentals", "technical", "relative", "flows",
                    "sentiment", "catalysts"}
  /\ \A i \in 1..8 : Order[i] \in SectionKeys
  /\ \A i \in 2..8 : Order[i] \in Body
  /\ \A i, j \in 1..8 : Order[i] = Order[j] => i = j
<1>1. Len(Order) = 8 /\ DOMAIN Order = 1..8
  <2>1. Len(Order) = 8
    BY DEF Order
  <2>2. DOMAIN Order = 1..8
    BY DEF Order
  <2> QED  BY <2>1, <2>2
<1>2. /\ Order[1] = "overview" /\ Order[2] = "valuation" /\ Order[3] = "fundamentals"
      /\ Order[4] = "technical" /\ Order[5] = "relative" /\ Order[6] = "flows"
      /\ Order[7] = "sentiment" /\ Order[8] = "catalysts"
  BY DEF Order
<1>3. \A i \in 1..8 : i \in {1, 2, 3, 4, 5, 6, 7, 8}
  OBVIOUS
<1>4. SectionKeys = {Order[i] : i \in {1, 2, 3, 4, 5, 6, 7, 8}}
  BY <1>1, <1>3 DEF SectionKeys
<1>5. SectionKeys = {"overview", "valuation", "fundamentals", "technical", "relative", "flows",
                     "sentiment", "catalysts"}
  BY <1>2, <1>4
<1>6. \A i \in 2..8 : Order[i] # "overview"
  BY <1>2, <1>3
<1>7. \A i \in 1..8 : Order[i] \in SectionKeys
  BY <1>1 DEF SectionKeys
<1>8. \A i, j \in 1..8 : Order[i] = Order[j] => i = j
  BY <1>2, <1>3
<1> QED  BY <1>1, <1>5, <1>6, <1>7, <1>8 DEF Body

\* What is left of the prose gives no advice.
LEMMA Scrubbed == ~hasAdvice(<<>>) /\ \A p : ~hasAdvice(ScrubAdvice(p))
<1>1. ~hasAdvice(<<>>)
  BY DEF hasAdvice
<1> QED  BY <1>1 DEF ScrubAdvice

LEMMA AbsentSection ==
  /\ CleanSection(Absent) /\ Backed(Absent)
  /\ Absent.prose = <<>> /\ Absent.facts = {} /\ ~Absent.shown
BY Scrubbed DEF CleanSection, Backed, IsSection, Absent

LEMMA SectionOfFacts ==
  ASSUME NEW F
  PROVE  /\ CleanSection(addSection(F)) /\ Backed(addSection(F)) /\ addSection(F).prose = <<>>
         /\ addSection(F).facts \subseteq F
         /\ \A f \in F : f.ok => addSection(F).facts = F
<1>1. CASE \E f \in F : f.ok
  <2>1. addSection(F) = [shown |-> TRUE, facts |-> F, prose |-> <<>>, bull |-> {}, bear |-> {},
                         locked |-> FALSE]
    BY <1>1 DEF addSection, Section
  <2> QED  BY <1>1, <2>1, Scrubbed DEF CleanSection, Backed, IsSection
<1>2. CASE ~\E f \in F : f.ok
  <2>1. addSection(F) = Absent
    BY <1>2 DEF addSection
  <2> QED  BY <1>2, <2>1, AbsentSection
<1> QED  BY <1>1, <1>2

LEMMA NothingIsClean == Clean(Nothing) /\ Unsaid(Nothing) /\ \A k \in SectionKeys : Nothing[k] = Absent
<1>1. Nothing = [k \in SectionKeys |-> Absent]
  BY DEF Nothing
<1>2. \A k \in SectionKeys : Nothing[k] = Absent
  BY <1>1
<1>3. Nothing = [k \in SectionKeys |-> Nothing[k]]
  BY <1>1, <1>2
<1> HIDE DEF Nothing
<1>4. Body \subseteq SectionKeys
  BY DEF Body
<1>5. Clean(Nothing)
  BY <1>2, <1>3, <1>4, AbsentSection DEF Clean
<1> QED  BY <1>2, <1>5, AbsentSection DEF Unsaid

LEMMA CompanyIsClean ==
  /\ Clean(companySections) /\ Unsaid(companySections)
  /\ companySections["valuation"].facts \subseteq valuation
  /\ companySections["fundamentals"].facts \subseteq fundamentals
  /\ companySections["flows"].facts = {}
<1> DEFINE s == companySections
<1>1. s = [k \in SectionKeys |-> s[k]]
  BY DEF companySections
<1>2. /\ s["valuation"] = addSection(valuation) /\ s["fundamentals"] = addSection(fundamentals)
      /\ s["technical"] = addSection(technical)
      /\ \A k \in {"overview", "relative", "flows", "sentiment", "catalysts"} : s[k] = Absent
  BY OrderFacts DEF companySections
<1> HIDE DEF s
<1>3. \A k \in SectionKeys : CleanSection(s[k]) /\ Backed(s[k]) /\ s[k].prose = <<>>
  <2>1. \A k \in {"valuation", "fundamentals", "technical"} :
          CleanSection(s[k]) /\ Backed(s[k]) /\ s[k].prose = <<>>
    <3>1. CleanSection(s["valuation"]) /\ Backed(s["valuation"]) /\ s["valuation"].prose = <<>>
      BY <1>2, SectionOfFacts
    <3>2. /\ CleanSection(s["fundamentals"]) /\ Backed(s["fundamentals"])
          /\ s["fundamentals"].prose = <<>>
      BY <1>2, SectionOfFacts
    <3>3. CleanSection(s["technical"]) /\ Backed(s["technical"]) /\ s["technical"].prose = <<>>
      BY <1>2, SectionOfFacts
    <3> QED  BY <3>1, <3>2, <3>3
  <2>2. \A k \in {"overview", "relative", "flows", "sentiment", "catalysts"} :
          CleanSection(s[k]) /\ Backed(s[k]) /\ s[k].prose = <<>>
    BY <1>2, AbsentSection
  <2> QED  BY <2>1, <2>2, OrderFacts
<1>4. Clean(s) /\ Unsaid(s)
  <2>1. Body \subseteq SectionKeys
    BY DEF Body
  <2>2. Clean(s)
    BY <1>1, <1>3, <2>1 DEF Clean
  <2> QED  BY <1>3, <2>2 DEF Unsaid
<1>5. s["valuation"].facts \subseteq valuation /\ s["fundamentals"].facts \subseteq fundamentals
  BY <1>2, SectionOfFacts
<1>6. s["flows"].facts = {}
  BY <1>2, AbsentSection
<1> QED  BY <1>4, <1>5, <1>6 DEF s

LEMMA MarketIsClean ==
  ASSUME NEW s, Clean(s), Unsaid(s)
  PROVE  /\ Clean(WithMarket(s)) /\ Unsaid(WithMarket(s))
         /\ \A k \in {"overview", "valuation", "fundamentals", "technical"} : WithMarket(s)[k] = s[k]
         /\ WithMarket(s)["flows"] = addSection(assembleFlows)
         /\ WithMarket(s)["relative"] = addSection(assembleRelative)
<1> DEFINE t == WithMarket(s)
<1>1. t = [k \in SectionKeys |-> t[k]]
  BY DEF WithMarket
<1>2. /\ t["relative"] = addSection(assembleRelative) /\ t["flows"] = addSection(assembleFlows)
      /\ t["sentiment"] = addSection(assembleSentiment)
      /\ t["catalysts"] = addSection(assembleCatalysts)
      /\ \A k \in {"overview", "valuation", "fundamentals", "technical"} : t[k] = s[k]
  BY OrderFacts DEF WithMarket
<1> HIDE DEF t
<1>3. \A k \in {"relative", "flows", "sentiment", "catalysts"} :
        CleanSection(t[k]) /\ Backed(t[k]) /\ t[k].prose = <<>>
  <2>1. CleanSection(t["relative"]) /\ Backed(t["relative"]) /\ t["relative"].prose = <<>>
    BY <1>2, SectionOfFacts
  <2>2. CleanSection(t["flows"]) /\ Backed(t["flows"]) /\ t["flows"].prose = <<>>
    BY <1>2, SectionOfFacts
  <2>3. CleanSection(t["sentiment"]) /\ Backed(t["sentiment"]) /\ t["sentiment"].prose = <<>>
    BY <1>2, SectionOfFacts
  <2>4. CleanSection(t["catalysts"]) /\ Backed(t["catalysts"]) /\ t["catalysts"].prose = <<>>
    BY <1>2, SectionOfFacts
  <2> QED  BY <2>1, <2>2, <2>3, <2>4
<1>4. \A k \in {"overview", "valuation", "fundamentals", "technical"} :
        CleanSection(t[k]) /\ (k \in Body => Backed(t[k])) /\ t[k].prose = <<>>
  BY <1>2, OrderFacts DEF Clean, Unsaid
<1>5. \A k \in SectionKeys :
        CleanSection(t[k]) /\ (k \in Body => Backed(t[k])) /\ t[k].prose = <<>>
  BY <1>3, <1>4, OrderFacts
<1>6. Clean(t) /\ Unsaid(t)
  BY <1>1, <1>5 DEF Clean, Unsaid, Body
<1> QED  BY <1>2, <1>6 DEF t

\* The prose of a section leaves its facts.
LEMMA ProseIsClean ==
  ASSUME NEW s, Clean(s), NEW k \in Body, s[k].shown, NEW p
  PROVE  LET t == [s EXCEPT ![k].prose = ScrubAdvice(p)]
         IN  Clean(t) /\ SameFacts(t, s) /\ \A l \in SectionKeys \ {k} : t[l] = s[l]
<1> DEFINE x == [s[k] EXCEPT !.prose = ScrubAdvice(p)]
           t == [s EXCEPT ![k] = x]
<1>1. /\ k \in SectionKeys /\ IsSection(s[k]) /\ CleanSection(s[k]) /\ Backed(s[k])
      /\ Body \subseteq SectionKeys
  BY DEF Clean, Body, CleanSection
<1>2. x = [shown |-> s[k].shown, facts |-> s[k].facts, prose |-> ScrubAdvice(p), bull |-> s[k].bull,
           bear |-> s[k].bear, locked |-> s[k].locked]
  <2> DEFINE y == s[k]
  <2>1. y = [shown |-> y.shown, facts |-> y.facts, prose |-> y.prose, bull |-> y.bull,
             bear |-> y.bear, locked |-> y.locked]
    BY <1>1 DEF IsSection
  <2> HIDE DEF y
  <2>2. [y EXCEPT !.prose = ScrubAdvice(p)] =
          [shown |-> y.shown, facts |-> y.facts, prose |-> ScrubAdvice(p), bull |-> y.bull,
           bear |-> y.bear, locked |-> y.locked]
    BY <2>1
  <2> QED  BY <2>2 DEF y
<1>3. CleanSection(x) /\ Backed(x)
  BY <1>1, <1>2, Scrubbed DEF CleanSection, Backed, IsSection
<1>4. x.facts = s[k].facts /\ x.shown = s[k].shown
  BY <1>2
<1> HIDE DEF x
<1>5. t = [l \in SectionKeys |-> IF l = k THEN x ELSE s[l]]
  BY <1>1 DEF Clean
<1> HIDE DEF t
<1>6. t = [l \in SectionKeys |-> t[l]] /\ t[k] = x /\ \A l \in SectionKeys \ {k} : t[l] = s[l]
  BY <1>1, <1>5
<1>7. \A l \in SectionKeys : CleanSection(t[l]) /\ (l \in Body => Backed(t[l]))
  BY <1>3, <1>6 DEF Clean
<1>8. Clean(t)
  BY <1>1, <1>6, <1>7 DEF Clean
<1>9. SameFacts(t, s)
  BY <1>1, <1>4, <1>6 DEF SameFacts
<1> QED  BY <1>6, <1>8, <1>9 DEF t, x

LEMMA OverviewIsClean ==
  ASSUME NEW s, Clean(s)
  PROVE  LET t == [s EXCEPT !["overview"] = Overview]
         IN  Clean(t) /\ SameFacts(t, s) /\ \A l \in Body : t[l] = s[l]
<1> DEFINE t == [s EXCEPT !["overview"] = Overview]
<1>1. "overview" \in SectionKeys /\ "overview" \notin Body /\ Body = SectionKeys \ {"overview"}
  BY OrderFacts DEF Body
<1>2. CleanSection(Overview)
  <2> DEFINE ov == ScrubAdvice(Said("overview"))
             bull == splitPoints(Said("bull"))
             bear == splitPoints(Said("bear"))
  <2>1. ~hasAdvice(ov) /\ "advice" \notin bull \cup bear
    BY Scrubbed DEF splitPoints
  <2>2. \/ Overview = Absent
        \/ Overview = [shown |-> TRUE, facts |-> {}, prose |-> ov, bull |-> bull, bear |-> bear,
                       locked |-> FALSE]
    BY DEF Overview
  <2> HIDE DEF ov, bull, bear
  <2>3. CASE Overview = Absent
    BY <2>3, AbsentSection
  <2>4. ASSUME NEW x, x = [shown |-> TRUE, facts |-> {}, prose |-> ov, bull |-> bull, bear |-> bear,
                           locked |-> FALSE]
        PROVE  CleanSection(x)
    BY <2>1, <2>4 DEF CleanSection, IsSection
  <2> QED  BY <2>2, <2>3, <2>4
<1>3. t = [l \in SectionKeys |-> IF l = "overview" THEN Overview ELSE s[l]]
  BY <1>1 DEF Clean
<1> HIDE DEF t
<1>4. t = [l \in SectionKeys |-> t[l]] /\ t["overview"] = Overview /\ \A l \in Body : t[l] = s[l]
  BY <1>1, <1>3
<1>5. \A l \in SectionKeys : CleanSection(t[l]) /\ (l \in Body => Backed(t[l]))
  BY <1>1, <1>2, <1>4 DEF Clean
<1>6. Clean(t)
  BY <1>1, <1>4, <1>5 DEF Clean
<1> QED  BY <1>4, <1>6 DEF t, SameFacts

\* What a ticker's providers give stays.
LEMMA GivenStays ==
  ASSUME UNCHANGED given
  PROVE  /\ valuation' = valuation /\ fundamentals' = fundamentals /\ assembleFlows' = assembleFlows
         /\ \A page, entitled : View(page, entitled)' = View(page, entitled)
<1>1. filing' = filing /\ holders' = holders /\ answer' = answer /\ path' = path
  BY DEF given
<1>2. Fund' = Fund
  BY <1>1 DEF Fund
<1>3. fundAsOf' = fundAsOf
  BY <1>2 DEF fundAsOf
<1>4. ttmAsOf' = ttmAsOf
  BY <1>2, <1>3 DEF ttmAsOf
<1>5. \A h : (Trailing(h)' <=> Trailing(h)) /\ AsOf(h)' = AsOf(h)
  BY <1>2, <1>3, <1>4 DEF Trailing, AsOf
<1>6. \A id : Computed(id)' <=> Computed(id)
  BY <1>1 DEF Computed
<1>7. \A id, stamp : factFromIndicator(id, stamp)' = factFromIndicator(id, stamp)
  BY <1>1, <1>6 DEF factFromIndicator
<1>8. valuation' = valuation
  BY <1>1, <1>2, <1>3, <1>5, <1>7 DEF valuation
<1>9. fundamentals' = fundamentals
  BY <1>1, <1>2, <1>3, <1>5, <1>7 DEF fundamentals
<1>10. thirteenFFacts' = thirteenFFacts
  <2>1. Known' = Known
    BY <1>1 DEF Known
  <2>2. oldestPeriod' = oldestPeriod
    BY <2>1 DEF oldestPeriod
  <2> QED  BY <1>1, <2>2 DEF thirteenFFacts
<1>11. assembleFlows' = assembleFlows
  BY <1>1, <1>10 DEF assembleFlows
<1>12. \A page, entitled : View(page, entitled)' = View(page, entitled)
  BY <1>1 DEF View
<1> QED  BY <1>8, <1>9, <1>11, <1>12

LEMMA RankedStays == UNCHANGED <<given, array>> /\ Ranked => Ranked'
BY DEF Ranked, given

LEMMA SheetInitInv == SheetAssumption /\ SheetInit => SheetInv
<1> SUFFICES ASSUME SheetAssumption, SheetInit PROVE SheetInv
  OBVIOUS
<1>1. array[1] = Nothing /\ array[2] = Nothing
  BY DEF SheetInit
<1>2. ScalarInv
  <2>1. sent = [k \in SectionKeys |-> sent[k]]
    BY NothingIsClean DEF SheetInit, Clean
  <2>2. array = [i \in 1..2 |-> array[i]]
    BY DEF SheetInit
  <2>3. /\ served = [entitled |-> served.entitled, page |-> served.page]
        /\ served.entitled \in BOOLEAN
    BY DEF SheetInit
  <2>4. /\ stage = "idle" /\ path \in {"sync", "deep"} /\ coldRelative = FALSE /\ warm = {}
        /\ mine = 1 /\ filled = 1 /\ written = 0
        /\ filing \in Filings \cup {Unfiled} /\ holders \in Holdings \cup {<<>>}
    BY DEF SheetInit
  <2>5. coldRelative \in BOOLEAN /\ warm \subseteq Relative
    BY <2>4
  <2>6. mine \in 1..2 /\ filled \in 1..8 /\ written \in 0..9
    BY <2>4
  <2> QED  BY <2>1, <2>2, <2>3, <2>4, <2>5, <2>6 DEF ScalarInv
<1>9. AnswerInv
  <2>1. \A p \in Providers : UNION Gives[p] = Everything[p]
    BY DEF Everything
  <2>2. CASE answer = [p \in Providers |-> {}]
    BY <2>2 DEF AnswerInv
  <2>3. CASE \E S \in Outages :
               \E x \in {y \in [S -> UNION {Gives[p] : p \in S}] : \A p \in S : y[p] \in Gives[p]} :
                 answer = [p \in Providers |-> IF p \in S THEN x[p] ELSE Everything[p]]
    <3>1. PICK S \in Outages :
            \E x : (\A p \in S : x[p] \in Gives[p]) /\
                  answer = [p \in Providers |-> IF p \in S THEN x[p] ELSE Everything[p]]
      BY <2>3
    <3>2. PICK x : (\A p \in S : x[p] \in Gives[p]) /\
                   answer = [p \in Providers |-> IF p \in S THEN x[p] ELSE Everything[p]]
      BY <3>1
    <3> QED  BY <2>1, <3>2 DEF AnswerInv
  <2> QED  BY <2>2, <2>3 DEF SheetInit
<1>3. PathInv
  BY DEF SheetInit, PathInv
<1>4. ArrayInv
  BY <1>1, NothingIsClean DEF SheetInit, ArrayInv
<1>5. SourceInv
  <2>1. \A k \in SectionKeys : Nothing[k].facts = {}
    BY NothingIsClean, AbsentSection
  <2> QED  BY <1>1, <2>1, OrderFacts DEF SourceInv
<1>6. ColdInv
  BY DEF SheetInit, ColdInv
<1>7. SentInv
  BY NothingIsClean DEF SheetInit, SentInv
<1>8. KeptInv
  BY DEF SheetInit, KeptInv
<1> QED  BY <1>2, <1>3, <1>4, <1>5, <1>6, <1>7, <1>8, <1>9 DEF SheetInv
LEMMA WarmKeeps ==
  ASSUME SheetInv, NEW r \in Relative, Warm(r)
  PROVE  SheetInv'
<1> USE DEF SheetInv, Warm
<1>0. UNCHANGED given /\ UNCHANGED <<stage, coldRelative, array, mine, reply, filled, sent, written, cached, served>>
  BY DEF Warm, composer, response
<1>1. ScalarInv'
  BY <1>0 DEF ScalarInv, given
<1>2. PathInv'
  BY <1>0 DEF ScalarInv, PathInv, given
<1>3. ArrayInv'
  BY <1>0 DEF ArrayInv, given
<1>4. SourceInv'
  BY <1>0, GivenStays DEF SourceInv
<1>5. ColdInv'
  <2>1. Relative \subseteq warm => Relative \subseteq warm'
    OBVIOUS
  <2>2. (coldRelative' <=> coldRelative) /\ stage' = stage /\ path' = path
    BY <1>0 DEF given
  <2>3. Ranked => Ranked'
    BY <1>0, RankedStays
  <2> HIDE DEF Warm
  <2> QED  BY <2>1, <2>2, <2>3 DEF ColdInv
<1>6. SentInv'
  BY <1>0 DEF SentInv
<1>7. KeptInv'
  BY <1>0, GivenStays DEF KeptInv, PathInv, given
<1>20. AnswerInv'
  BY <1>0 DEF AnswerInv, given
<1> QED  BY <1>1, <1>2, <1>3, <1>4, <1>5, <1>6, <1>7, <1>20

LEMMA AskKeeps ==
  ASSUME SheetInv, Ask
  PROVE  SheetInv'
<1> USE DEF SheetInv, Ask
<1>0. UNCHANGED given /\ UNCHANGED <<warm, array, mine, reply, filled, sent, written, cached, served>>
  BY DEF Ask, composer, response
<1>1. ScalarInv'
  BY <1>0 DEF ScalarInv, given
<1>2. PathInv'
  BY <1>0 DEF ScalarInv, PathInv, given
<1>3. ArrayInv'
  BY <1>0 DEF ArrayInv, given
<1>4. SourceInv'
  BY <1>0, GivenStays DEF SourceInv
<1>5. ColdInv'
  <2>1. stage' = "assemble" /\ (path = "sync" /\ ~coldRelative' => Relative \subseteq warm)
    BY DEF relativeSourcesCold
  <2> QED  BY <1>0, <2>1 DEF ColdInv, given
<1>6. SentInv'
  BY <1>0 DEF SentInv
<1>7. KeptInv'
  BY <1>0, GivenStays DEF KeptInv, PathInv, given
<1>20. AnswerInv'
  BY <1>0 DEF AnswerInv, given
<1> QED  BY <1>1, <1>2, <1>3, <1>4, <1>5, <1>6, <1>7, <1>20

LEMMA ComposeFailsKeeps ==
  ASSUME SheetInv, ComposeFails
  PROVE  SheetInv'
<1> USE DEF SheetInv, ComposeFails
<1>0. UNCHANGED given /\ UNCHANGED <<warm, coldRelative, array, mine, reply, filled, sent, written, cached, served>>
  BY DEF ComposeFails, composer, response
<1>1. ScalarInv'
  BY <1>0 DEF ScalarInv, given
<1>2. PathInv'
  BY <1>0 DEF ScalarInv, PathInv, given
<1>3. ArrayInv'
  BY <1>0 DEF ArrayInv, given
<1>4. SourceInv'
  BY <1>0, GivenStays DEF SourceInv
<1>5. ColdInv'
  BY <1>0, RankedStays DEF ColdInv, PathInv, given, ScalarInv
<1>6. SentInv'
  BY <1>0 DEF SentInv
<1>7. KeptInv'
  BY <1>0, GivenStays DEF KeptInv, PathInv, given
<1>20. AnswerInv'
  BY <1>0 DEF AnswerInv, given
<1> QED  BY <1>1, <1>2, <1>3, <1>4, <1>5, <1>6, <1>7, <1>20

LEMMA ComposeAnswersKeeps ==
  ASSUME SheetInv, NEW r, ComposeAnswers(r)
  PROVE  SheetInv'
<1> USE DEF SheetInv, ComposeAnswers
<1>0. UNCHANGED given /\ UNCHANGED <<warm, coldRelative, array, mine, filled, sent, written, cached, served>>
  BY DEF ComposeAnswers, composer, response
<1>1. ScalarInv'
  BY <1>0 DEF ScalarInv, given
<1>2. PathInv'
  BY <1>0 DEF ScalarInv, PathInv, given
<1>3. ArrayInv'
  BY <1>0 DEF ArrayInv, given
<1>4. SourceInv'
  BY <1>0, GivenStays DEF SourceInv
<1>5. ColdInv'
  BY <1>0, RankedStays DEF ColdInv, PathInv, given, ScalarInv
<1>6. SentInv'
  BY <1>0 DEF SentInv
<1>7. KeptInv'
  BY <1>0, GivenStays DEF KeptInv, PathInv, given
<1>20. AnswerInv'
  BY <1>0 DEF AnswerInv, given
<1> QED  BY <1>1, <1>2, <1>3, <1>4, <1>5, <1>6, <1>7, <1>20

LEMMA AssembleCompanyKeeps ==
  ASSUME SheetInv, AssembleCompany
  PROVE  SheetInv'
<1> USE DEF SheetInv, AssembleCompany
<1>0. /\ UNCHANGED given
      /\ UNCHANGED <<warm, coldRelative, mine, reply, filled, sent, written, cached, served>>
      /\ stage = "assemble" /\ stage' = "market"
  BY DEF composer, response
<1>1. /\ array' = [i \in 1..2 |-> array'[i]]
      /\ array'[1] = companySections /\ array'[2] = array[2]
  <2>1. array = [j \in 1..2 |-> array[j]] /\ array' = [array EXCEPT ![1] = companySections]
    BY DEF ScalarInv
  <2>2. array' = [j \in 1..2 |-> array'[j]]
    BY <2>1
  <2>3. array'[1] = companySections
    BY <2>1
  <2>4. array'[2] = array[2]
    BY <2>1
  <2> QED  BY <2>2, <2>3, <2>4
<1> HIDE DEF AssembleCompany
<1>2. ScalarInv'
  BY <1>0, <1>1 DEF ScalarInv, given
<1>3. PathInv'
  BY <1>0 DEF PathInv, given
<1>4. ArrayInv'
  BY <1>0, <1>1, CompanyIsClean DEF ArrayInv, PathInv, given
<1>5. SourceInv'
  BY <1>0, <1>1, CompanyIsClean, GivenStays DEF SourceInv
<1>6. ColdInv'
  BY <1>0 DEF ColdInv, given
<1>7. SentInv'
  BY <1>0 DEF SentInv, PathInv
<1>8. KeptInv'
  BY <1>0 DEF KeptInv, PathInv, given
<1>20. AnswerInv'
  BY <1>0 DEF AnswerInv, given
<1> QED  BY <1>2, <1>3, <1>4, <1>5, <1>6, <1>7, <1>8, <1>20


LEMMA AssembleMarketKeeps ==
  ASSUME SheetInv, AssembleMarket
  PROVE  SheetInv'
<1> DEFINE s == WithMarket(array[1])
<1> USE DEF SheetInv
<1>1. /\ UNCHANGED given
      /\ UNCHANGED <<warm, coldRelative, mine, reply, filled, sent, written, cached, served>>
      /\ stage = "market" /\ stage' \in {"not found", "compose", "decide"}
      /\ stage' = "compose" => path = "sync"
      /\ path = "sync" => stage' # "decide"
  BY DEF AssembleMarket, ScalarInv, composer, response
<1>2. /\ array' = [i \in 1..2 |-> array'[i]]
      /\ array'[1] = s /\ array'[2] = array[2]
  <2>1. array = [j \in 1..2 |-> array[j]] /\ array' = [array EXCEPT ![1] = s]
    BY DEF AssembleMarket, ScalarInv
  <2> HIDE DEF s
  <2>2. array' = [j \in 1..2 |-> array'[j]]
    BY <2>1
  <2>3. array'[1] = s
    BY <2>1
  <2>4. array'[2] = array[2]
    BY <2>1
  <2> QED  BY <2>2, <2>3, <2>4
<1>3. mine = 1 /\ written = 0 /\ cached \cup served.page = {}
  BY <1>1 DEF PathInv
<1>4. /\ Clean(s) /\ Unsaid(s)
      /\ \A k \in {"overview", "valuation", "fundamentals", "technical"} : s[k] = array[1][k]
      /\ s["flows"] = addSection(assembleFlows) /\ s["relative"] = addSection(assembleRelative)
  BY <1>1, MarketIsClean DEF ArrayInv
<1> HIDE DEF s
<1>5. ScalarInv'
  BY <1>1, <1>2 DEF ScalarInv, given
<1>6. PathInv'
  BY <1>1, <1>3 DEF PathInv, given
<1>7. ArrayInv'
  BY <1>1, <1>2, <1>3, <1>4 DEF ArrayInv, given
<1>8. SourceInv'
  <2>1. s["flows"].facts \subseteq assembleFlows
    BY <1>4, SectionOfFacts
  <2> QED  BY <1>1, <1>2, <1>4, <2>1, GivenStays DEF SourceInv
<1>9. ColdInv'
  <2> SUFFICES ASSUME path = "sync", ~coldRelative
               PROVE  Relative \subseteq warm /\ Ranked'
    BY <1>1 DEF ColdInv, given
  <2>1. Relative \subseteq warm
    BY <1>1 DEF ColdInv
  <2>2. ASSUME NEW p \in Relative, NEW k \in answer[p]
        PROVE  Fact(k, 0) \in s["relative"].facts
    <3>1. Fact(k, 0) \in assembleRelative
      BY <2>1 DEF assembleRelative
    <3>2. Fact(k, 0).ok
      BY DEF Fact
    <3>3. s["relative"].facts = assembleRelative
      BY <1>4, <3>1, <3>2, SectionOfFacts
    <3> QED  BY <3>1, <3>3
  <2> QED  BY <1>1, <1>2, <2>1, <2>2 DEF Ranked, given
<1>10. SentInv'
  <2>1. \A k \in SectionKeys : sent[k] = Absent
    BY <1>3 DEF SentInv
  <2> QED  BY <1>1, <2>1 DEF SentInv
<1>11. KeptInv'
  BY <1>1, <1>3 DEF KeptInv, given
<1>20. AnswerInv'
  BY <1>1 DEF AnswerInv, given
<1> QED  BY <1>5, <1>6, <1>7, <1>8, <1>9, <1>10, <1>11, <1>20

LEMMA DecideKeeps ==
  ASSUME SheetInv, Decide
  PROVE  SheetInv'
<1> USE DEF SheetInv
<1>1. /\ UNCHANGED given
      /\ UNCHANGED <<warm, reply, filled, sent, cached, served>>
      /\ stage = "decide" /\ stage' \in {"done", "compose"} /\ written' = 1
      /\ coldRelative' \in BOOLEAN /\ path = "deep"
  BY DEF Decide, ScalarInv, PathInv, relativeSourcesCold
<1>2. \/ array' = array /\ mine' = mine /\ stage' = "done"
      \/ mine' = 2 /\ array'[1] = array[1] /\ array'[2] = array[1]
  BY DEF Decide, ScalarInv
<1>3. array' = [i \in 1..2 |-> array'[i]] /\ array'[1] = array[1]
      /\ (array'[2] = array[2] \/ array'[2] = array[1])
  BY DEF Decide, ScalarInv
<1>4. mine = 1 /\ written = 0 /\ cached = {} /\ served.page = {}
  BY <1>1 DEF PathInv
<1>5. ScalarInv'
  <2>1. mine' \in 1..2 /\ written' \in 0..9
    BY <1>1, <1>2, <1>4
  <2> QED  BY <1>1, <1>3, <2>1 DEF ScalarInv, given
<1>6. PathInv'
  BY <1>1, <1>2, <1>4 DEF PathInv, given
<1>7. ArrayInv'
  <2>1. Clean(array'[1]) /\ Clean(array'[2]) /\ Unsaid(array'[1])
    BY <1>1, <1>3 DEF ArrayInv
  <2>2. mine' = 2 => SameFacts(array'[2], array'[1])
    <3>1. SameFacts(array[1], array[1])
      BY DEF SameFacts
    <3> QED  BY <1>2, <1>4, <3>1
  <2> QED  BY <2>1, <2>2 DEF ArrayInv
<1>8. SourceInv'
  BY <1>1, <1>3, GivenStays DEF SourceInv
<1>9. ColdInv'
  BY <1>1 DEF ColdInv, given
<1>10. SentInv'
  BY <1>1, <1>3, <1>4 DEF SentInv
<1>11. KeptInv'
  BY <1>1, <1>4 DEF KeptInv, given
<1>20. AnswerInv'
  BY <1>1 DEF AnswerInv, given
<1> QED  BY <1>5, <1>6, <1>7, <1>8, <1>9, <1>10, <1>11, <1>20

LEMMA MarshalKeeps ==
  ASSUME SheetInv, Marshal
  PROVE  SheetInv'
<1> USE DEF SheetInv
<1> DEFINE k == Order[written]
<1>1. /\ UNCHANGED given
      /\ UNCHANGED <<warm, stage, coldRelative, array, mine, reply, filled, cached, served>>
      /\ written \in 1..8 /\ written' = written + 1
      /\ sent' = [sent EXCEPT ![k] = array[1][k]]
  BY OrderFacts DEF Marshal, composer
<1>2. k \in SectionKeys
  BY <1>1, OrderFacts
<1> HIDE DEF k
<1>3. /\ sent' = [l \in SectionKeys |-> sent'[l]]
      /\ \A l \in SectionKeys : sent'[l] = sent[l] \/ sent'[l] = array[1][l]
  <2>1. sent = [l \in SectionKeys |-> sent[l]]
    BY DEF ScalarInv
  <2> QED  BY <1>1, <1>2, <2>1
<1>4. ScalarInv'
  <2>1. written' \in 0..9
    BY <1>1
  <2> QED  BY <1>1, <1>3, <2>1 DEF ScalarInv, given
<1>5. PathInv'
  <2>1. /\ path # "sync"
        /\ stage \notin {"idle", "assemble", "market", "decide", "not found"}
    <3>1. written # 0
      BY <1>1
    <3> QED  BY <3>1 DEF PathInv
  <2> QED  BY <1>1, <2>1 DEF PathInv, given
<1>6. ArrayInv'
  BY <1>1 DEF ArrayInv, given
<1>7. SourceInv'
  BY <1>1, GivenStays DEF SourceInv
<1>8. ColdInv'
  BY <1>1, RankedStays DEF ColdInv, given, PathInv, ScalarInv
<1>9. SentInv'
  BY <1>1, <1>3 DEF SentInv
<1>10. KeptInv'
  BY <1>1, GivenStays DEF KeptInv, given
<1>20. AnswerInv'
  BY <1>1 DEF AnswerInv, given
<1> QED  BY <1>4, <1>5, <1>6, <1>7, <1>8, <1>9, <1>10, <1>20

LEMMA FillKeeps ==
  ASSUME SheetInv, Fill
  PROVE  SheetInv'
<1> USE DEF SheetInv
<1> DEFINE k == Order[filled + 1]
           s == array[mine]
           said == [s EXCEPT ![k].prose = ScrubAdvice(reply[k])]
           viewed == [s EXCEPT !["overview"] = Overview]
<1>1. /\ UNCHANGED given
      /\ UNCHANGED <<warm, coldRelative, mine, reply, sent, written, cached, served>>
      /\ stage = "fill" /\ stage' \in {"fill", "publish"} /\ filled' \in 1..8
      /\ mine \in 1..2 /\ filled \in 1..8
  BY OrderFacts DEF Fill, response, ScalarInv
<1>2. PICK t : /\ array' = [array EXCEPT ![mine] = t]
               /\ \/ filled = 8 /\ t = viewed
                  \/ filled # 8 /\ s[k].shown /\ t = said
                  \/ t = s
  BY OrderFacts DEF Fill
<1>3. /\ array' = [i \in 1..2 |-> array'[i]] /\ array'[mine] = t
      /\ \A i \in 1..2 \ {mine} : array'[i] = array[i]
  BY <1>1, <1>2 DEF ScalarInv
<1>4. Clean(s)
  BY <1>1 DEF ArrayInv
<1>5. Clean(t) /\ SameFacts(t, s)
  <2>1. CASE filled = 8 /\ t = viewed
    BY <2>1, <1>4, OverviewIsClean
  <2>2. CASE filled # 8 /\ s[k].shown /\ t = said
    <3>1. k \in Body
      BY <1>1, <2>2, OrderFacts
    <3> QED  BY <2>2, <3>1, <1>4, ProseIsClean
  <2>3. CASE t = s
    BY <2>3, <1>4 DEF SameFacts
  <2> QED  BY <1>2, <2>1, <2>2, <2>3
<1> HIDE DEF k, s, said, viewed
<1>6. ScalarInv'
  BY <1>1, <1>3 DEF ScalarInv, given
<1>7. PathInv'
  BY <1>1 DEF PathInv, given
<1>8. path = "deep" => mine = 2 /\ array'[1] = array[1]
  BY <1>1, <1>3 DEF PathInv
<1>9. ArrayInv'
  <2>1. Clean(array'[1]) /\ Clean(array'[2])
    BY <1>1, <1>3, <1>5 DEF ArrayInv
  <2>2. mine = 2 => SameFacts(array'[2], array'[1])
    BY <1>1, <1>3, <1>5 DEF ArrayInv, SameFacts, s
  <2>3. path = "deep" => Unsaid(array'[1])
    BY <1>8 DEF ArrayInv
  <2> QED  BY <1>1, <2>1, <2>2, <2>3 DEF ArrayInv, given
<1>10. \A l \in Body : array'[1][l].facts = array[1][l].facts
  BY <1>1, <1>3, <1>5 DEF SameFacts, s
<1>11. {"valuation", "fundamentals", "flows", "relative"} \subseteq Body
  BY OrderFacts DEF Body
<1>12. SourceInv'
  BY <1>1, <1>10, <1>11, GivenStays DEF SourceInv
<1>13. ColdInv'
  <2>1. Ranked => Ranked'
    BY <1>1, <1>10, <1>11 DEF Ranked, given
  <2> QED  BY <1>1, <2>1 DEF ColdInv, given
<1>14. SentInv'
  BY <1>1, <1>8 DEF SentInv, PathInv, ScalarInv
<1>15. KeptInv'
  BY <1>1 DEF KeptInv, PathInv, given
<1>20. AnswerInv'
  BY <1>1 DEF AnswerInv, given
<1> QED  BY <1>6, <1>7, <1>9, <1>12, <1>13, <1>14, <1>15, <1>20

LEMMA PublishKeeps ==
  ASSUME SheetInv, Publish
  PROVE  SheetInv'
<1> USE DEF SheetInv
<1>1. /\ UNCHANGED given
      /\ UNCHANGED <<warm, coldRelative, array, mine, reply, filled, sent, written, served>>
      /\ stage = "publish" /\ stage' = "done"
      /\ cached' \subseteq {array[mine]} /\ (cached' # {} /\ path = "sync" => ~coldRelative)
  BY DEF Publish, composer, response
<1>2. ScalarInv'
  BY <1>1 DEF ScalarInv, given
<1>3. PathInv'
  BY <1>1 DEF PathInv, given
<1>4. ArrayInv'
  BY <1>1 DEF ArrayInv, given
<1>5. SourceInv'
  BY <1>1, GivenStays DEF SourceInv
<1>6. ColdInv'
  BY <1>1, RankedStays DEF ColdInv, given
<1>7. SentInv'
  BY <1>1 DEF SentInv
<1>8. KeptInv'
  BY <1>1, GivenStays DEF KeptInv, PathInv, given
<1>20. AnswerInv'
  BY <1>1 DEF AnswerInv, given
<1> QED  BY <1>2, <1>3, <1>4, <1>5, <1>6, <1>7, <1>8, <1>20

LEMMA ServeKeeps ==
  ASSUME SheetInv, NEW entitled \in BOOLEAN, Serve(entitled)
  PROVE  SheetInv'
<1> USE DEF SheetInv
<1>1. PICK page \in cached : served' = [entitled |-> entitled, page |-> {View(page, entitled)}]
  BY DEF Serve
<1>2. /\ UNCHANGED given
      /\ UNCHANGED <<warm, stage, coldRelative, array, mine, reply, filled, sent, written, cached>>
  BY DEF Serve, composer, response
<1>3. /\ served' = [entitled |-> served'.entitled, page |-> served'.page]
      /\ served'.entitled \in BOOLEAN
      /\ page = array[mine] /\ served'.page = {View(array[mine], served'.entitled)}
  BY <1>1 DEF KeptInv
<1>4. stage = "done"
  BY <1>1 DEF PathInv
<1>5. ScalarInv'
  BY <1>2, <1>3 DEF ScalarInv, given
<1>6. PathInv'
  BY <1>2, <1>4 DEF PathInv, given
<1>7. ArrayInv'
  BY <1>2 DEF ArrayInv, given
<1>8. SourceInv'
  BY <1>2, GivenStays DEF SourceInv
<1>9. ColdInv'
  BY <1>2, RankedStays DEF ColdInv, given
<1>10. SentInv'
  BY <1>2 DEF SentInv
<1>11. KeptInv'
  BY <1>2, <1>3, GivenStays DEF KeptInv, given
<1>20. AnswerInv'
  BY <1>2 DEF AnswerInv, given
<1> QED  BY <1>5, <1>6, <1>7, <1>8, <1>9, <1>10, <1>11, <1>20

\* The page of a viewer without Pro.
LEMMA Teaser ==
  ASSUME NEW s, Clean(s), NEW t, t = truncateDeepForFree(s)
  PROVE  /\ t = [k \in SectionKeys |-> t[k]] /\ IsSection(t["overview"])
         /\ ~hasAdvice(t["overview"].prose)
         /\ t["overview"].bull = {} /\ t["overview"].bear = {}
         /\ \A k \in Body : t[k] = Locked \/ (t[k] = s[k] /\ (~s[k].shown \/ k \in FirstWithProse(s)))
<1>1. t = [k \in SectionKeys |-> t[k]]
  BY DEF truncateDeepForFree
<1>2. "overview" \in SectionKeys /\ Body = SectionKeys \ {"overview"}
  BY OrderFacts DEF Body
<1>3. \A k \in Body : t[k] = Locked \/ (t[k] = s[k] /\ (~s[k].shown \/ k \in FirstWithProse(s)))
  BY <1>2 DEF truncateDeepForFree
<1>4. /\ IsSection(t["overview"]) /\ ~hasAdvice(t["overview"].prose)
      /\ t["overview"].bull = {} /\ t["overview"].bear = {}
  <2> DEFINE x == s["overview"]
             y == t["overview"]
  <2>1. CleanSection(x)
    BY <1>2 DEF Clean
  <2>2. y = [x EXCEPT !.bull = {}, !.bear = {}]
    BY <1>2 DEF truncateDeepForFree
  <2> HIDE DEF x, y
  <2>3. /\ x = [shown |-> x.shown, facts |-> x.facts, prose |-> x.prose, bull |-> x.bull,
               bear |-> x.bear, locked |-> x.locked]
        /\ x.shown \in BOOLEAN /\ x.locked \in BOOLEAN /\ ~hasAdvice(x.prose)
    BY <2>1 DEF CleanSection, IsSection
  <2>4. /\ y = [shown |-> x.shown, facts |-> x.facts, prose |-> x.prose, bull |-> {}, bear |-> {},
               locked |-> x.locked]
    BY <2>2, <2>3
  <2>5. /\ y.bull = {} /\ y.bear = {} /\ y.prose = x.prose /\ y.shown = x.shown
        /\ y.locked = x.locked
    BY <2>4
  <2>6. IsSection(y)
    BY <2>3, <2>4 DEF IsSection
  <2> QED  BY <2>3, <2>5, <2>6 DEF y
<1> QED  BY <1>1, <1>3, <1>4

LEMMA LockedSection ==
  /\ IsSection(Locked) /\ Locked.facts = {} /\ Locked.prose = <<>> /\ Locked.locked
  /\ "advice" \notin Locked.bull \cup Locked.bear
BY DEF IsSection, Locked

\* At most one section is the first with prose.
LEMMA OneFirst == \A s : \A k, l \in FirstWithProse(s) : k = l
<1> SUFFICES ASSUME NEW s, NEW k \in FirstWithProse(s), NEW l \in FirstWithProse(s)
             PROVE  k = l
  OBVIOUS
<1>1. PICK i \in 1..8 : /\ k = Order[i] /\ s[k].prose # <<>> /\ k # "overview"
                        /\ \A j \in 2..(i - 1) : s[Order[j]].prose = <<>>
  BY OrderFacts DEF FirstWithProse, Body
<1>2. PICK m \in 1..8 : /\ l = Order[m] /\ s[l].prose # <<>> /\ l # "overview"
                        /\ \A j \in 2..(m - 1) : s[Order[j]].prose = <<>>
  BY OrderFacts DEF FirstWithProse, Body
<1>3. Order[1] = "overview"
  BY DEF Order
<1>4. i # 1 /\ m # 1
  BY <1>1, <1>2, <1>3
<1>5. ~(i < m) /\ ~(m < i)
  <2>1. i < m => i \in 2..(m - 1)
    BY <1>4
  <2>2. m < i => m \in 2..(i - 1)
    BY <1>4
  <2> QED  BY <1>1, <1>2, <2>1, <2>2
<1> QED  BY <1>1, <1>2, <1>5

\* What a page may show of a sheet.
Shows(t, s) ==
  /\ IsSheet(t)
  /\ \A k \in SectionKeys : ~hasAdvice(t[k].prose) /\ "advice" \notin t[k].bull \cup t[k].bear
  /\ \A k \in Body :
       /\ t[k].shown /\ ~t[k].locked => t[k].facts = s[k].facts /\ \E f \in t[k].facts : f.ok
       /\ t[k].locked \/ ~t[k].shown => t[k].facts = {} /\ t[k].prose = <<>>

LEMMA CleanShows ==
  ASSUME NEW t, NEW s, Clean(t), SameFacts(t, s)
  PROVE  Shows(t, s)
<1>1. IsSheet(t)
  BY DEF Clean, CleanSection, IsSheet
<1>2. \A k \in Body : k \in SectionKeys
  BY DEF Body
<1>3. \A k \in SectionKeys : /\ ~hasAdvice(t[k].prose) /\ "advice" \notin t[k].bull \cup t[k].bear
                             /\ ~t[k].locked
  BY DEF Clean, CleanSection
<1>4. \A k \in Body : Backed(t[k]) /\ t[k].facts = s[k].facts /\ ~t[k].locked
  BY <1>2, <1>3 DEF Clean, SameFacts
<1> QED  BY <1>1, <1>3, <1>4 DEF Shows, Backed

LEMMA TeaserShows ==
  ASSUME NEW t, NEW s, Clean(t), SameFacts(t, s)
  PROVE  Shows(truncateDeepForFree(t), s)
<1> DEFINE page == truncateDeepForFree(t)
<1>1. Shows(t, s)
  BY CleanShows
<1>2. /\ page = [k \in SectionKeys |-> page[k]] /\ IsSection(page["overview"])
      /\ ~hasAdvice(page["overview"].prose)
      /\ page["overview"].bull = {} /\ page["overview"].bear = {}
      /\ \A k \in Body : page[k] = Locked \/ page[k] = t[k]
  BY Teaser
<1> HIDE DEF page
<1>3. Body = SectionKeys \ {"overview"}
  BY DEF Body
<1>4. \A k \in Body : IsSection(page[k]) /\ ~hasAdvice(page[k].prose)
                      /\ "advice" \notin page[k].bull \cup page[k].bear
  BY <1>1, <1>2, <1>3, LockedSection, Scrubbed DEF Shows, IsSheet
<1>5. IsSheet(page)
  BY <1>2, <1>3, <1>4 DEF IsSheet
<1>6. \A k \in SectionKeys : /\ ~hasAdvice(page[k].prose)
                             /\ "advice" \notin page[k].bull \cup page[k].bear
  BY <1>2, <1>3, <1>4
<1>7. \A k \in Body :
        /\ page[k].shown /\ ~page[k].locked =>
             page[k].facts = s[k].facts /\ \E f \in page[k].facts : f.ok
        /\ page[k].locked \/ ~page[k].shown => page[k].facts = {} /\ page[k].prose = <<>>
  BY <1>1, <1>2, LockedSection DEF Shows
<1> QED  BY <1>5, <1>6, <1>7 DEF Shows, page

\* What of a response is written so far.
LEMMA SentShows == SheetInv => Shows(sent, array[1]) /\ Unsaid(sent)
<1> SUFFICES ASSUME SheetInv PROVE Shows(sent, array[1]) /\ Unsaid(sent)
  OBVIOUS
<1>1. Clean(array[1]) /\ SameFacts(array[1], array[1])
  BY DEF SheetInv, ArrayInv, SameFacts
<1>2. Shows(array[1], array[1])
  BY <1>1, CleanShows
<1>3. \A k \in SectionKeys : sent[k] = Absent \/ (sent[k] = array[1][k] /\ sent[k].prose = <<>>)
  <2>1. written > 0 => Unsaid(array[1])
    <3>1. written > 0 => written # 0
      <4>1. written \in 0..9
        BY DEF SheetInv, ScalarInv
      <4> QED  BY <4>1
    <3>2. written # 0 => path # "sync"
      BY DEF SheetInv, PathInv
    <3>3. path \in {"sync", "deep"}
      BY DEF SheetInv, ScalarInv
    <3> QED  BY <3>1, <3>2, <3>3 DEF SheetInv, ArrayInv
  <2> QED  BY <2>1 DEF SheetInv, SentInv, Unsaid
<1>4. Unsaid(sent)
  BY <1>3, AbsentSection DEF Unsaid
<1>5. \A k \in SectionKeys : IsSection(sent[k])
  BY <1>2, <1>3, AbsentSection DEF Shows, IsSheet, CleanSection
<1>6. \A k \in SectionKeys : /\ ~hasAdvice(sent[k].prose)
                             /\ "advice" \notin sent[k].bull \cup sent[k].bear
  BY <1>2, <1>3, AbsentSection DEF Shows, CleanSection
<1>7. \A k \in Body :
        /\ sent[k].shown /\ ~sent[k].locked =>
             sent[k].facts = array[1][k].facts /\ \E f \in sent[k].facts : f.ok
        /\ sent[k].locked \/ ~sent[k].shown => sent[k].facts = {} /\ sent[k].prose = <<>>
  <2>1. ~Absent.shown /\ ~Absent.locked /\ Absent.facts = {} /\ Absent.prose = <<>>
    BY AbsentSection DEF CleanSection
  <2> QED  BY <1>2, <1>3, <2>1 DEF Shows, Body
<1>8. IsSheet(sent)
  BY <1>5 DEF IsSheet, SheetInv, ScalarInv
<1> QED  BY <1>4, <1>6, <1>7, <1>8 DEF Shows

LEMMA PagesShow ==
  ASSUME SheetInv, NEW page \in Pages
  PROVE  Shows(page, array[1])
<1>1. mine \in 1..2 /\ Clean(array[mine])
  <2>1. mine = 1 \/ mine = 2
    <3>1. mine \in 1..2
      BY DEF SheetInv, ScalarInv
    <3> QED  BY <3>1
  <2>2. Clean(array[1]) /\ Clean(array[2])
    BY DEF SheetInv, ArrayInv
  <2> QED  BY <2>1, <2>2
<1>2. SameFacts(array[mine], array[1])
  <2>1. SameFacts(array[1], array[1]) /\ (mine = 2 => SameFacts(array[2], array[1]))
    BY DEF SheetInv, ArrayInv, SameFacts
  <2> QED  BY <1>1, <2>1
<1>3. CASE page = sent
  BY <1>3, SentShows
<1>4. CASE page \in cached
  <2>1. page = array[mine]
    BY <1>4 DEF SheetInv, KeptInv
  <2> QED  BY <1>1, <1>2, <2>1, CleanShows
<1>5. CASE page \in served.page
  <2>1. page = array[mine] \/ page = truncateDeepForFree(array[mine])
    BY <1>5 DEF SheetInv, KeptInv, View
  <2> QED  BY <1>1, <1>2, <2>1, CleanShows, TeaserShows
<1> QED  BY <1>3, <1>4, <1>5 DEF Pages

LEMMA InvTypes == SheetInv => SheetTypeOK
<1> SUFFICES ASSUME SheetInv PROVE SheetTypeOK
  OBVIOUS
<1>1. IsSheet(array[1]) /\ IsSheet(array[2])
  BY DEF SheetInv, ArrayInv, Clean, CleanSection, IsSheet
<1>2. \A s \in Pages : IsSheet(s)
  BY PagesShow DEF Shows
<1>3. \A s \in {array[1], array[2], sent} \cup cached \cup served.page : IsSheet(s)
  BY <1>1, <1>2 DEF Pages
<1>8. \A p \in Providers : answer[p] \subseteq Everything[p]
  BY DEF SheetInv, AnswerInv
<1>4. Len(Order) = 8 /\ 8 + 1 = 9
  BY OrderFacts
<1> USE DEF SheetInv, ScalarInv
<1>5. /\ filing \in Filings \cup {Unfiled} /\ holders \in Holdings \cup {<<>>}
      /\ warm \subseteq Relative
      /\ stage \in {"idle", "assemble", "market", "decide", "compose", "fill", "publish", "done",
                    "not found"}
      /\ path \in {"sync", "deep"} /\ coldRelative \in BOOLEAN
  OBVIOUS
<1>6. mine \in 1..2 /\ filled \in 1..Len(Order) /\ written \in 0..(Len(Order) + 1)
  BY <1>4
<1>7. /\ array = [i \in 1..2 |-> array[i]]
      /\ served = [entitled |-> served.entitled, page |-> served.page]
      /\ served.entitled \in BOOLEAN
  OBVIOUS
<1> HIDE DEF SheetInv, ScalarInv
<1> QED  BY <1>3, <1>5, <1>6, <1>7, <1>8 DEF SheetTypeOK

LEMMA InvPages == SheetInv => InstantIsDataOnly /\ NobodyIsAdvised /\ FactsAreAssembled
<1> SUFFICES ASSUME SheetInv
             PROVE  InstantIsDataOnly /\ NobodyIsAdvised /\ FactsAreAssembled
  OBVIOUS
<1>1. InstantIsDataOnly
  BY SentShows DEF InstantIsDataOnly, Unsaid
<1>2. NobodyIsAdvised
  BY PagesShow DEF NobodyIsAdvised, Shows
<1>3. FactsAreAssembled
  BY PagesShow DEF FactsAreAssembled, Shows
<1> QED  BY <1>1, <1>2, <1>3

LEMMA InvComplete == SheetInv => KeptIsComplete
<1> SUFFICES ASSUME SheetInv, NEW page \in cached, path = "sync"
             PROVE  \A p \in Relative : \A k \in answer[p] : Fact(k, 0) \in page["relative"].facts
  BY DEF KeptIsComplete
<1>1. stage = "done" /\ mine = 1
  BY DEF SheetInv, PathInv
<1>2. page = array[1] /\ ~coldRelative
  BY <1>1 DEF SheetInv, KeptInv
<1>3. Ranked
  BY <1>1, <1>2 DEF SheetInv, ColdInv
<1> QED  BY <1>2, <1>3 DEF Ranked

LEMMA InvTeaser == SheetInv => TeaserIsACopy
<1> SUFFICES ASSUME SheetInv PROVE TeaserIsACopy
  OBVIOUS
<1> DEFINE whole == array[mine]
<1>1. Clean(whole)
  <2>1. mine = 1 \/ mine = 2
    <3>1. mine \in 1..2
      BY DEF SheetInv, ScalarInv
    <3> QED  BY <3>1
  <2>2. Clean(array[1]) /\ Clean(array[2])
    BY DEF SheetInv, ArrayInv
  <2> QED  BY <2>1, <2>2
<1>2. \A page \in cached : page = whole
  BY DEF SheetInv, KeptInv
<1>3. ASSUME NEW page \in served.page, served.entitled \/ path = "sync"
      PROVE  page = whole
  BY <1>3 DEF SheetInv, KeptInv, View
<1>4. ASSUME NEW page \in served.page, ~(served.entitled \/ path = "sync")
      PROVE  /\ \A k, l \in Body : (page[k].facts # {} /\ page[l].facts # {}) => k = l
             /\ page["overview"].bull = {} /\ page["overview"].bear = {}
  <2>1. page = truncateDeepForFree(whole)
    BY <1>4 DEF SheetInv, KeptInv, View
  <2> HIDE DEF whole
  <2>2. /\ page["overview"].bull = {} /\ page["overview"].bear = {}
        /\ \A k \in Body : page[k] = Locked
                           \/ (page[k] = whole[k] /\ (~whole[k].shown \/ k \in FirstWithProse(whole)))
    BY <1>1, <2>1, Teaser
  <2>3. \A k \in Body : ~whole[k].shown => whole[k].facts = {}
    BY <1>1 DEF Clean, Backed
  <2>4. \A k \in Body : page[k].facts # {} => k \in FirstWithProse(whole)
    BY <2>2, <2>3, LockedSection
  <2> QED  BY <2>2, <2>4, OneFirst
<1> QED  BY <1>2, <1>3, <1>4 DEF TeaserIsACopy

\* The fields of the facts of an indicator.
LEMMA IndicatorFact ==
  ASSUME NEW id, NEW stamp, NEW x, x = factFromIndicator(id, stamp)
  PROVE  /\ x.key = id /\ x.stamp = stamp /\ ~x.trailing
         /\ x.loss => id = "pe" /\ ~Computed(id) /\ answer.computed # {} /\ filing # Unfiled
<1> DEFINE f == Fact(id, stamp)
           loss == id = "pe" /\ ~Computed(id) /\ answer.computed # {} /\ filing # Unfiled
<1>1. f = [key |-> id, ok |-> TRUE, stamp |-> stamp, loss |-> FALSE, trailing |-> FALSE]
  BY DEF Fact
<1>2. x = [f EXCEPT !.ok = Computed(id), !.loss = loss]
  BY DEF factFromIndicator
<1> HIDE DEF f, loss
<1>3. x.key = id /\ x.stamp = stamp /\ x.trailing = FALSE /\ x.loss = loss
  BY <1>1, <1>2
<1> QED  BY <1>3 DEF loss

\* The fields of the facts of the valuation and of the fundamentals.
LEMMA ValuationFacts ==
  \A x \in valuation :
    \/ x.key \in {"price", "market_cap"} /\ ~x.loss
    \/ \E id \in ValuationIDs :
         x = factFromIndicator(id, IF id = "pe" THEN AsOf("eps_diluted") ELSE fundAsOf)
<1>1. \A k, stamp : Fact(k, stamp).key = k /\ ~Fact(k, stamp).loss
  BY DEF Fact
<1> QED  BY <1>1 DEF valuation

LEMMA FundamentalFacts ==
  \A x \in fundamentals :
    \/ /\ x.key \in Headlines /\ x.stamp = AsOf(x.key) /\ Fund # Unfiled
       /\ x.trailing => Trailing(x.key)
    \/ x.key \in FundamentalIDs /\ ~x.trailing
<1> SUFFICES ASSUME NEW x \in fundamentals
             PROVE  \/ /\ x.key \in Headlines /\ x.stamp = AsOf(x.key) /\ Fund # Unfiled
                       /\ x.trailing => Trailing(x.key)
                    \/ x.key \in FundamentalIDs /\ ~x.trailing
  OBVIOUS
<1>1. CASE \E h \in Headlines : Fund # Unfiled /\ x = [Fact(h, AsOf(h)) EXCEPT !.trailing = Trailing(h)]
  <2> PICK h \in Headlines : Fund # Unfiled /\ x = [Fact(h, AsOf(h)) EXCEPT !.trailing = Trailing(h)]
    BY <1>1
  <2> DEFINE f == Fact(h, AsOf(h))
  <2>1. f = [key |-> h, ok |-> TRUE, stamp |-> AsOf(h), loss |-> FALSE, trailing |-> FALSE]
    BY DEF Fact
  <2>2. x = [f EXCEPT !.trailing = Trailing(h)]
    OBVIOUS
  <2> HIDE DEF f
  <2>3. x.key = h /\ x.stamp = AsOf(h) /\ x.trailing = Trailing(h)
    BY <2>1, <2>2
  <2> QED  BY <2>3
<1>2. CASE \E id \in FundamentalIDs : x = factFromIndicator(id, fundAsOf)
  BY <1>2, IndicatorFact
<1> QED  BY <1>1, <1>2 DEF fundamentals

LEMMA InvReconciles == SheetAssumption /\ SheetInv => PEReconciles
<1> SUFFICES ASSUME SheetAssumption, SheetInv,
                    NEW x \in array[1]["fundamentals"].facts
             PROVE  /\ x.key = "eps_diluted" =>
                         \A y \in array[1]["valuation"].facts : y.key = "pe" => y.stamp = x.stamp
                    /\ x.trailing /\ filing.quarter # 0 => x.stamp = filing.quarter
  BY DEF PEReconciles
<1>1. x \in fundamentals /\ array[1]["valuation"].facts \subseteq valuation
  BY DEF SheetInv, SourceInv
<1>2. \/ /\ x.key \in Headlines /\ x.stamp = AsOf(x.key) /\ Fund # Unfiled
         /\ x.trailing => Trailing(x.key)
      \/ x.key \in FundamentalIDs /\ ~x.trailing
  BY <1>1, FundamentalFacts
<1>3. ASSUME x.key = "eps_diluted", NEW y \in valuation, y.key = "pe"
      PROVE  y.stamp = x.stamp
  <2>1. x.stamp = AsOf("eps_diluted")
    BY <1>2, <1>3 DEF FundamentalIDs
  <2>2. PICK id \in ValuationIDs :
          y = factFromIndicator(id, IF id = "pe" THEN AsOf("eps_diluted") ELSE fundAsOf)
    BY <1>3, ValuationFacts
  <2>3. id = "pe"
    BY <1>3, <2>2, IndicatorFact
  <2>4. y = factFromIndicator("pe", AsOf("eps_diluted"))
    BY <2>2, <2>3
  <2> QED  BY <2>1, <2>4, IndicatorFact
<1>4. ASSUME x.trailing, filing.quarter # 0
      PROVE  x.stamp = filing.quarter
  <2>1. x.stamp = AsOf(x.key) /\ Trailing(x.key) /\ Fund # Unfiled
    BY <1>2, <1>4
  <2>2. Fund = filing
    BY <2>1 DEF Fund
  <2> QED  BY <1>4, <2>1, <2>2 DEF AsOf, ttmAsOf
<1> QED  BY <1>1, <1>3, <1>4

LEMMA InvLoss == SheetInv => LossIsFiled
<1> SUFFICES ASSUME SheetInv, NEW x \in array[1]["valuation"].facts, x.loss
             PROVE  filing # Unfiled /\ ("pe" \notin filing.figures \/ answer.last = {})
  BY DEF LossIsFiled
<1>1. x \in valuation
  BY DEF SheetInv, SourceInv
<1>2. PICK id \in ValuationIDs :
        x = factFromIndicator(id, IF id = "pe" THEN AsOf("eps_diluted") ELSE fundAsOf)
  BY <1>1, ValuationFacts
<1>3. id = "pe" /\ ~Computed(id) /\ answer.computed # {} /\ filing # Unfiled
  BY <1>2, IndicatorFact
<1> QED  BY <1>3 DEF Computed, TechnicalIDs, ValuationIDs

LEMMA InvStale == SheetAssumption /\ SheetInv => CountIsStale
<1> SUFFICES ASSUME SheetAssumption, SheetInv,
                    NEW x \in array[1]["flows"].facts, x.key = "whales_count",
                    NEW i \in DOMAIN holders, holders[i] # 0
             PROVE  x.stamp <= holders[i]
  BY DEF CountIsStale
<1>1. x \in assembleFlows
  BY DEF SheetInv, SourceInv
<1>2. \A k, stamp : Fact(k, stamp).key = k /\ Fact(k, stamp).stamp = stamp
  BY DEF Fact
<1>3. x.stamp = oldestPeriod
  <2> DEFINE others == {"congress", "insider", "options", "shortVol", "shortInt"}
  <2>1. \A p \in others : "whales_count" \notin answer[p]
    <3>1. others \subseteq Providers
      BY DEF Providers, Gives
    <3>2. \A p \in others : "whales_count" \notin UNION Gives[p]
      BY DEF Gives
    <3>3. \A p \in Providers : answer[p] \subseteq UNION Gives[p]
      BY DEF SheetInv, AnswerInv, Everything
    <3> HIDE DEF others
    <3> QED  BY <3>1, <3>2, <3>3
  <2>2. x \in thirteenFFacts
    BY <1>1, <1>2, <2>1 DEF assembleFlows
  <2> QED  BY <1>2, <2>2 DEF thirteenFFacts
<1>4. holders \in Seq(Nat)
  <2>1. holders \in Holdings \/ holders = <<>>
    BY DEF SheetInv, ScalarInv
  <2>2. Holdings \subseteq Seq(Nat)
    BY DEF SheetAssumption
  <2> QED  BY <2>1, <2>2
<1>5. Known \in SUBSET Nat /\ holders[i] \in Known
  BY <1>4 DEF Known
<1>6. \E p \in Known : \A q \in Known : p <= q
  BY <1>5, Least
<1> QED  BY <1>3, <1>5, <1>6 DEF oldestPeriod

\* One step keeps the invariant.
LEMMA SheetStep ==
  ASSUME SheetInv, [SheetNext]_sheetVars
  PROVE  SheetInv'
<1>1. CASE \E r \in Relative : Warm(r)
  BY <1>1, WarmKeeps
<1>2. CASE Ask
  BY <1>2, AskKeeps
<1>3. CASE AssembleCompany
  BY <1>3, AssembleCompanyKeeps
<1>4. CASE AssembleMarket
  BY <1>4, AssembleMarketKeeps
<1>5. CASE Decide
  BY <1>5, DecideKeeps
<1>6. CASE Marshal
  BY <1>6, MarshalKeeps
<1>7. CASE ComposeFails
  BY <1>7, ComposeFailsKeeps
<1>8. CASE \E r \in Replies : ComposeAnswers(r)
  BY <1>8, ComposeAnswersKeeps
<1>9. CASE Fill
  BY <1>9, FillKeeps
<1>10. CASE Publish
  BY <1>10, PublishKeeps
<1>11. CASE \E entitled \in BOOLEAN : Serve(entitled)
  BY <1>11, ServeKeeps
<1>12. CASE UNCHANGED sheetVars
  <2>1. /\ UNCHANGED given
        /\ UNCHANGED <<warm, stage, coldRelative, array, mine, reply, filled, sent, written, cached,
                       served>>
    BY <1>12 DEF sheetVars, composer, response
  <2>2. ScalarInv' /\ AnswerInv' /\ PathInv' /\ ArrayInv' /\ SentInv'
    BY <2>1 DEF SheetInv, ScalarInv, AnswerInv, PathInv, ArrayInv, SentInv, given
  <2>3. SourceInv' /\ ColdInv' /\ KeptInv'
    BY <2>1, GivenStays, RankedStays DEF SheetInv, SourceInv, ColdInv, KeptInv, given
  <2> QED  BY <2>2, <2>3 DEF SheetInv
<1> QED
  BY <1>1, <1>2, <1>3, <1>4, <1>5, <1>6, <1>7, <1>8, <1>9, <1>10, <1>11, <1>12 DEF SheetNext

\* The types, for any filings, holdings and answers of the LLM.
THEOREM SheetTypes == ASSUME SheetAssumption PROVE SheetSpec => []SheetTypeOK
<1>1. SheetInit => SheetInv
  BY SheetInitInv
<1>2. SheetInv /\ [SheetNext]_sheetVars => SheetInv'
  BY SheetStep
<1>3. SheetInv => SheetTypeOK
  BY InvTypes
<1> QED  BY <1>1, <1>2, <1>3, PTL DEF SheetSpec

\* Whatever the company filed, the providers gave and the LLM answered, and however the composer,
\* the response and the first scans interleave: the report says what was assembled, dated and
\* whole, with no advice, to each what is his.
THEOREM ReportIsSound == ASSUME SheetAssumption PROVE SheetSpec => []SheetIsSound
<1>1. SheetInit => SheetInv
  BY SheetInitInv
<1>2. SheetInv /\ [SheetNext]_sheetVars => SheetInv'
  BY SheetStep
<1>3. SheetInv => SheetIsSound
  BY InvPages, InvComplete, InvTeaser, InvReconciles, InvLoss, InvStale DEF SheetIsSound
<1> QED  BY <1>1, <1>2, <1>3, PTL DEF SheetSpec
=============================================================================
