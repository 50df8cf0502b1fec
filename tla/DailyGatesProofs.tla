-------------------------- MODULE DailyGatesProofs --------------------------
(***************************************************************************)
(* Proofs about the five gated per-day caches (DailyGates), for any        *)
(* requests, tickers, cap and bounds: they implement SingleFlight, the     *)
(* daily budget holds, and a text is made once a day.                      *)
(***************************************************************************)
EXTENDS DailyGates, FiniteSetTheorems, TLAPS

\* A generator holds the gate of its key, alone.
GateInv ==
  /\ \A p \in Procs : Generating(p) => job[p] \in inflight
  /\ \A p, q \in Procs : Generating(p) /\ Generating(q) /\ job[p] = job[q] => p = q

\* Only a generator has a slot, which it took when there was a counter.
SlotInv == \A p \in Procs : slot[p] = TRUE => Generating(p) /\ dayDate # 0

-----------------------------------------------------------------------------
(* The steps, by what they do to the generators. *)

\* A request that comes, looks, waits, or is answered.
Asks(p) == \E t \in Tickers : Ask(p, t)
Looks(p) == LookHit(p) \/ LookMiss(p) \/ LoadStored(p) \/ LoadNothing(p) \/ NothingToMake(p) \/ GiveUp(p)
Declines(p) == DecideHit(p) \/ DecideTerminal(p) \/ DecideBusy(p) \/ DecideFull(p)
Idle(p) == Asks(p) \/ Looks(p) \/ Declines(p)

\* A generator that ends.
Ends(p) == FinishKept(p) \/ FinishDropped(p) \/ PanicRecovered(p)

LEMMA NextCases ==
  Next <=> \/ \E p \in Procs : \/ Idle(p) \/ DecideGenerate(p) \/ Composed(p) \/ NotComposed(p)
                               \/ Ends(p) \/ PanicSwallowed(p)
           \/ Midnight \/ Restart
BY DEF Next, Idle, Asks, Looks, Declines, Ends, Decide, Generator

\* What a generator is doing is left alone by the requests around it.
Undisturbed(q) ==
  /\ Generating(q)' <=> Generating(q)
  /\ Generating(q) => pc'[q] = pc[q] /\ job'[q] = job[q] /\ slot'[q] = slot[q]
  /\ ~Generating(q) => slot'[q] = FALSE

LEMMA IdleFacts ==
  ASSUME TypeOK, SlotInv, NEW p \in Procs, Idle(p)
  PROVE  /\ \A q \in Procs : Undisturbed(q)
         /\ UNCHANGED <<kind, today, inflight, spent, made, wedged, stray, restarted>>
<1> USE DEF Undisturbed, Generating, TypeOK, Goto, Return, bounds, history, gateVars
<1>0. \A q \in Procs : ~Generating(q) => slot[q] = FALSE
  BY DEF SlotInv
<1>1. CASE Asks(p)
  BY <1>0, <1>1 DEF Asks, Ask
<1>2. CASE Looks(p)
  BY <1>0, <1>2 DEF Looks, LookHit, LookMiss, LoadStored, LoadNothing, NothingToMake, GiveUp
<1>3. CASE Declines(p)
  BY <1>0, <1>3 DEF Declines, DecideHit, DecideTerminal, DecideBusy, DecideFull
<1> QED  BY <1>1, <1>2, <1>3 DEF Idle

\* A generator that ends wakes those that wait for its key, and no other generator.
LEMMA EndFacts ==
  ASSUME TypeOK, SlotInv, NEW p \in Procs, Ends(p)
  PROVE  /\ Generating(p) /\ ~Generating(p)' /\ slot'[p] = FALSE /\ job'[p] = None
         /\ \A q \in Procs \ {p} : Undisturbed(q)
         /\ inflight' = inflight \ {job[p]}
         /\ UNCHANGED <<kind, today, stored, dayDate, restarted, wedged, stray, turnedBack>>
<1> USE DEF Undisturbed, Generating, TypeOK, Release, Wake, history
<1>0. \A q \in Procs : ~Generating(q) => slot[q] = FALSE
  BY DEF SlotInv
<1>1. CASE FinishKept(p)
  BY <1>0, <1>1 DEF FinishKept, bounds
<1>2. CASE FinishDropped(p)
  BY <1>0, <1>2 DEF FinishDropped, bounds
<1>3. CASE PanicRecovered(p)
  BY <1>0, <1>3 DEF PanicRecovered
<1> QED  BY <1>1, <1>2, <1>3 DEF Ends

-----------------------------------------------------------------------------
(* Types. *)

LEMMA KeyType == \A k \in Keys : k[2] \in 1..MaxDay
BY DEF Keys

LEMMA DayType ==
  ASSUME TypeOK, NEW p \in Procs, pc[p] # "out"
  PROVE  job[p] \in Keys /\ Day(p) \in 1..MaxDay
BY KeyType DEF TypeOK, Day

LEMMA InitTypes ==
  ASSUME GatesAssumption, Init
  PROVE  TypeOK
<1>1. /\ kind \in Kinds /\ today \in 1..MaxDay /\ dayDate \in 0..MaxDay /\ dayCount = 0
      /\ asks \in 0..MaxAsks /\ faults \in 0..MaxFaults
  BY DEF Init, GatesAssumption
<1>2. /\ cache \subseteq Keys /\ stored \subseteq Keys /\ inflight \subseteq Keys
      /\ wedged \subseteq Keys
  BY DEF Init
<1>3. /\ pc \in [Procs -> {"out", "asked", "loading", "deciding", "waiting", "composing", "keeping",
                           "dropping"}]
      /\ job \in [Procs -> Keys \cup {None}]
      /\ \A p \in Procs : IF pc[p] = "out" THEN job[p] = None ELSE job[p] \in Keys
  BY DEF Init
<1>4. slot \in [Procs -> BOOLEAN]
  BY DEF Init
<1>5. restarted \in BOOLEAN /\ turnedBack \in BOOLEAN
  BY DEF Init
<1>6. /\ spent \in [1..MaxDay -> Nat] /\ made \in [Keys -> 0..2] /\ stray \in [1..MaxDay -> Nat]
  BY DEF Init
<1> QED  BY <1>1, <1>2, <1>3, <1>4, <1>5, <1>6 DEF TypeOK

LEMMA NextTypes ==
  ASSUME GatesAssumption, TypeOK, SlotInv, Next
  PROVE  TypeOK'
<1> USE DEF TypeOK, Goto, Return, Stay, gateVars, procVars, bounds, history
<1>a. faults < MaxFaults => faults + 1 \in 0..MaxFaults
  BY DEF GatesAssumption
<1>b. \A p \in Procs : pc[p] # "out" => job[p] \in Keys /\ Day(p) \in 1..MaxDay /\ Day(p) \in 0..MaxDay
  BY DayType
<1>c. /\ dayCount \in Int /\ 0 \in Nat /\ (kind # "material" => dayCount \in Nat)
      /\ \A n \in Nat : n + 1 \in Nat /\ n + 0 \in Nat /\ (n > 0 => n - 1 \in Nat)
      /\ \A n \in Int : n + 1 \in Int /\ n - 1 \in Int /\ n + 0 \in Int
  OBVIOUS
<1>d. \A p \in Procs, keys \in SUBSET Keys, n \in {0, 1} :
        pc[p] # "out" /\ Roll(Day(p), keys, n) =>
          /\ cache' \subseteq Keys /\ dayDate' \in 0..MaxDay
          /\ dayCount' \in (IF kind = "material" THEN Int ELSE Nat)
  BY <1>b, <1>c DEF Roll, Kept, CountOn
<1>e. \A d, keys, n : Roll(d, keys, n) => turnedBack' \in BOOLEAN
  BY DEF Roll
<1>1. ASSUME NEW p \in Procs, Asks(p) PROVE TypeOK'
  <2>1. PICK t \in Tickers : Ask(p, t)
    BY <1>1 DEF Asks
  <2>2. <<t, today>> \in Keys /\ asks + 1 \in 0..MaxAsks
    BY <2>1 DEF Ask, Keys, GatesAssumption
  <2> QED  BY <2>1, <2>2 DEF Ask
<1>2. ASSUME NEW p \in Procs, Looks(p) PROVE TypeOK'
  <2>1. CASE LookHit(p) \/ LoadStored(p) \/ LoadNothing(p) \/ NothingToMake(p) \/ GiveUp(p)
    BY <2>1, <1>a, <1>b DEF LookHit, LoadStored, LoadNothing, NothingToMake, GiveUp
  <2>2. CASE LookMiss(p)
    <3>1. turnedBack' \in BOOLEAN
      BY <2>2 DEF LookMiss
    <3> QED  BY <2>2, <1>b, <3>1 DEF LookMiss
  <2> QED  BY <1>2, <2>1, <2>2 DEF Looks
<1>3. ASSUME NEW p \in Procs, Declines(p) PROVE TypeOK'
  <2>1. PICK keys \in SUBSET Keys : Roll(Day(p), keys, 0) \/ Stay
    BY <1>3, <1>b DEF Declines, DecideHit, DecideTerminal, DecideBusy, DecideFull
  <2>2. /\ cache' \subseteq Keys /\ dayDate' \in 0..MaxDay
        /\ dayCount' \in (IF kind = "material" THEN Int ELSE Nat) /\ turnedBack' \in BOOLEAN
    <3>1. pc[p] # "out"
      BY <1>3 DEF Declines, DecideHit, DecideTerminal, DecideBusy, DecideFull
    <3> QED  BY <2>1, <3>1, <1>d, <1>e
  <2>3. stored' \subseteq Keys
    BY <1>3, <1>b DEF Declines, DecideHit, DecideTerminal, DecideBusy, DecideFull
  <2> QED  BY <1>3, <1>b, <2>2, <2>3 DEF Declines, DecideHit, DecideTerminal, DecideBusy, DecideFull
<1>4. ASSUME NEW p \in Procs, DecideGenerate(p) PROVE TypeOK'
  <2>1. PICK takes \in BOOLEAN :
          /\ slot' = [slot EXCEPT ![p] = takes]
          /\ IF kind = "digest"
             THEN UNCHANGED <<cache, dayDate, dayCount>> /\ turnedBack' = (turnedBack \/ Day(p) < dayDate)
             ELSE Roll(Day(p), {}, IF takes THEN 1 ELSE 0)
    BY <1>4 DEF DecideGenerate
  <2>2. turnedBack' \in BOOLEAN
    BY <2>1 DEF Roll
  <2>3. /\ cache' \subseteq Keys /\ dayDate' \in 0..MaxDay
        /\ dayCount' \in (IF kind = "material" THEN Int ELSE Nat)
    BY <1>4, <2>1, <1>d DEF DecideGenerate
  <2>4. slot' \in [Procs -> BOOLEAN]
    BY <2>1
  <2> QED  BY <1>4, <1>b, <2>2, <2>3, <2>4 DEF DecideGenerate
<1>5. ASSUME NEW p \in Procs, Composed(p) PROVE TypeOK'
  BY <1>5, <1>a, <1>b DEF Composed
<1>6. ASSUME NEW p \in Procs, NotComposed(p) PROVE TypeOK'
  <2>1. slot' \in [Procs -> BOOLEAN]
    BY <1>6 DEF NotComposed
  <2>2. stray' \in [1..MaxDay -> Nat] /\ dayCount' \in (IF kind = "material" THEN Int ELSE Nat)
    <3>1. CASE kind = "material" /\ slot[p]
      <4>1. dayDate \in 1..MaxDay
        BY <3>1 DEF SlotInv, GatesAssumption
      <4> QED  BY <1>6, <1>c, <3>1, <4>1 DEF NotComposed
    <3>2. CASE ~(kind = "material" /\ slot[p])
      BY <1>6, <3>2 DEF NotComposed
    <3> QED  BY <3>1, <3>2
  <2> QED  BY <1>6, <2>1, <2>2 DEF NotComposed
<1>7. ASSUME NEW p \in Procs, Ends(p) PROVE TypeOK'
  <2>1. /\ slot' \in [Procs -> BOOLEAN] /\ inflight' \subseteq Keys
        /\ \A q \in Procs : IF pc'[q] = "out" THEN job'[q] = None ELSE job'[q] \in Keys
        /\ job' \in [Procs -> Keys \cup {None}]
        /\ pc' \in [Procs -> {"out", "asked", "loading", "deciding", "waiting", "composing", "keeping",
                              "dropping"}]
    BY <1>7 DEF Ends, FinishKept, FinishDropped, PanicRecovered, Release, Wake
  <2>2. /\ cache' \subseteq Keys /\ made' \in [Keys -> 0..2] /\ spent' \in [1..MaxDay -> Nat]
        /\ faults' \in 0..MaxFaults
    <3>1. CASE FinishKept(p)
      <4>1. \A n \in 0..2 : (IF n < 2 THEN n + 1 ELSE n) \in 0..2
        OBVIOUS
      <4>2. made' \in [Keys -> 0..2]
        BY <3>1, <4>1 DEF FinishKept
      <4>3. spent' \in [1..MaxDay -> Nat]
        BY <3>1, <1>c DEF FinishKept
      <4> QED  BY <3>1, <1>b, <4>2, <4>3 DEF FinishKept
    <3>2. CASE FinishDropped(p) \/ PanicRecovered(p)
      BY <3>2, <1>a DEF FinishDropped, PanicRecovered
    <3> QED  BY <1>7, <3>1, <3>2 DEF Ends
  <2>3. dayCount' \in (IF kind = "material" THEN Int ELSE Nat)
    BY <1>7, <1>c DEF Ends, FinishKept, FinishDropped, PanicRecovered, Refunded
  <2> QED  BY <1>7, <2>1, <2>2, <2>3 DEF Ends, FinishKept, FinishDropped, PanicRecovered
<1>8. ASSUME NEW p \in Procs, PanicSwallowed(p) PROVE TypeOK'
  BY <1>8, <1>a, <1>b DEF PanicSwallowed
<1>9. ASSUME Midnight PROVE TypeOK'
  BY <1>9 DEF Midnight, GatesAssumption
<1>10. ASSUME Restart PROVE TypeOK'
  <2>1. restarted' \in BOOLEAN /\ slot' \in [Procs -> BOOLEAN]
    BY <1>10 DEF Restart
  <2> QED  BY <1>10, <1>a, <1>c, <2>1 DEF Restart, GatesAssumption
<1> QED  BY <1>1, <1>2, <1>3, <1>4, <1>5, <1>6, <1>7, <1>8, <1>9, <1>10, NextCases DEF Idle

-----------------------------------------------------------------------------
(* The gates. *)

\* What the generator does that goes on, or ends.
LEMMA WorkFacts ==
  ASSUME TypeOK, SlotInv, NEW p \in Procs, Composed(p) \/ NotComposed(p)
  PROVE  /\ Generating(p) /\ Generating(p)' /\ job' = job
         /\ \A q \in Procs \ {p} : Undisturbed(q)
         /\ UNCHANGED <<kind, today, cache, inflight, dayDate, restarted, spent, made, wedged, turnedBack>>
<1> USE DEF Undisturbed, Generating, TypeOK, Goto, gateVars
<1>0. \A q \in Procs : ~Generating(q) => slot[q] = FALSE
  BY DEF SlotInv
<1>1. CASE Composed(p)
  BY <1>0, <1>1 DEF Composed, history
<1>2. CASE NotComposed(p)
  BY <1>0, <1>2 DEF NotComposed, bounds
<1> QED  BY <1>1, <1>2

LEMMA PanicFacts ==
  ASSUME TypeOK, SlotInv, NEW p \in Procs, PanicSwallowed(p)
  PROVE  /\ Generating(p) /\ ~Generating(p)' /\ slot'[p] = FALSE /\ job'[p] = None
         /\ \A q \in Procs \ {p} : Undisturbed(q)
         /\ UNCHANGED <<kind, today, stored, gateVars, restarted, spent, made, stray, turnedBack>>
<1>0. \A q \in Procs : ~Generating(q) => slot[q] = FALSE
  BY DEF SlotInv
<1> QED  BY <1>0 DEF Undisturbed, Generating, TypeOK, PanicSwallowed, Return

\* The one who goes on to generate, on a key nobody generates.
LEMMA GenerateFacts ==
  ASSUME TypeOK, SlotInv, NEW p \in Procs, DecideGenerate(p)
  PROVE  /\ ~Generating(p) /\ pc[p] = "deciding" /\ Generating(p)' /\ pc'[p] = "composing" /\ job' = job
         /\ job[p] \notin inflight /\ inflight' = inflight \cup {job[p]} /\ job[p] \notin cache
         /\ \A q \in Procs \ {p} : Undisturbed(q)
         /\ UNCHANGED <<kind, today, stored, bounds, spent, made, wedged, stray>>
<1>0. \A q \in Procs : ~Generating(q) => slot[q] = FALSE
  BY DEF SlotInv
<1> QED  BY <1>0 DEF Undisturbed, Generating, TypeOK, DecideGenerate, Busy, Cached

LEMMA NextGate ==
  ASSUME TypeOK, SlotInv, GateInv, Next
  PROVE  GateInv'
<1>1. ASSUME NEW p \in Procs, Idle(p) PROVE GateInv'
  BY <1>1, IdleFacts DEF GateInv, Undisturbed
<1>2. ASSUME NEW p \in Procs, DecideGenerate(p) PROVE GateInv'
  BY <1>2, GenerateFacts DEF GateInv, Undisturbed
<1>3. ASSUME NEW p \in Procs, Composed(p) \/ NotComposed(p) PROVE GateInv'
  BY <1>3, WorkFacts DEF GateInv, Undisturbed
<1>4. ASSUME NEW p \in Procs, Ends(p) PROVE GateInv'
  BY <1>4, EndFacts DEF GateInv, Undisturbed
<1>5. ASSUME NEW p \in Procs, PanicSwallowed(p) PROVE GateInv'
  BY <1>5, PanicFacts DEF GateInv, Undisturbed, gateVars
<1>6. ASSUME Midnight PROVE GateInv'
  BY <1>6 DEF Midnight, GateInv, Generating, gateVars, procVars
<1>7. ASSUME Restart PROVE GateInv'
  BY <1>7 DEF Restart, GateInv, Generating
<1> QED  BY <1>1, <1>2, <1>3, <1>4, <1>5, <1>6, <1>7, NextCases

\* The counter, once there is one, is only taken away by a restart.
LEMMA NextSlot ==
  ASSUME GatesAssumption, TypeOK, SlotInv, Next
  PROVE  SlotInv'
<1>0. \A p \in Procs : pc[p] # "out" => Day(p) # 0
  BY DayType DEF GatesAssumption
<1>1. ASSUME NEW p \in Procs, Idle(p) PROVE SlotInv'
  <2>1. dayDate # 0 => dayDate' # 0
    BY <1>0, <1>1 DEF Idle, Asks, Ask, Looks, LookHit, LookMiss, LoadStored, LoadNothing, NothingToMake,
       GiveUp, Declines, DecideHit, DecideTerminal, DecideBusy, DecideFull, Roll, Stay, gateVars
  <2> QED  BY <1>1, <2>1, IdleFacts DEF SlotInv, Undisturbed
<1>2. ASSUME NEW p \in Procs, DecideGenerate(p) PROVE SlotInv'
  <2>1. (dayDate # 0 => dayDate' # 0) /\ (slot'[p] = TRUE => dayDate' # 0)
    BY <1>0, <1>2 DEF DecideGenerate, Roll, TypeOK, Capped
  <2> QED  BY <1>2, <2>1, GenerateFacts DEF SlotInv, Undisturbed
<1>3. ASSUME NEW p \in Procs, Composed(p) \/ NotComposed(p) PROVE SlotInv'
  <2>1. slot'[p] = TRUE => slot[p] = TRUE
    BY <1>3 DEF Composed, NotComposed, Goto, TypeOK
  <2> QED  BY <1>3, <2>1, WorkFacts DEF SlotInv, Undisturbed
<1>4. ASSUME NEW p \in Procs, Ends(p) PROVE SlotInv'
  BY <1>4, EndFacts DEF SlotInv, Undisturbed
<1>5. ASSUME NEW p \in Procs, PanicSwallowed(p) PROVE SlotInv'
  BY <1>5, PanicFacts DEF SlotInv, Undisturbed, gateVars
<1>6. ASSUME Midnight PROVE SlotInv'
  BY <1>6 DEF Midnight, SlotInv, Generating, gateVars, procVars
<1>7. ASSUME Restart PROVE SlotInv'
  BY <1>7 DEF Restart, SlotInv, Generating
<1> QED  BY <1>1, <1>2, <1>3, <1>4, <1>5, <1>6, <1>7, NextCases

-----------------------------------------------------------------------------
(* They implement SingleFlight. *)

flightOf == [p \in Procs |-> IF Generating(p) THEN job[p] ELSE None]

LEMMA FlightOf ==
  ASSUME GatesAssumption, TypeOK
  PROVE  /\ \A p \in Procs : Generating(p) => flightOf[p] = job[p] /\ job[p] \in Keys /\ flightOf[p] # None
         /\ \A p \in Procs : ~Generating(p) => flightOf[p] = None
  BY DEF flightOf, TypeOK, Generating, GatesAssumption

LEMMA GateRefines ==
  ASSUME GatesAssumption, TypeOK, TypeOK', SlotInv, GateInv, [Next]_vars
  PROVE  [SF!Next]_flightOf
<1>1. ASSUME NEW p \in Procs, Idle(p) PROVE UNCHANGED flightOf
  BY <1>1, IdleFacts DEF flightOf, Undisturbed
<1>2. ASSUME NEW p \in Procs, DecideGenerate(p) PROVE SF!Next
  <2>1. flightOf' = [flightOf EXCEPT ![p] = job[p]]
    BY <1>2, GenerateFacts DEF flightOf, Undisturbed
  <2>2. flightOf[p] = None /\ job[p] \in Keys
    BY <1>2, GenerateFacts, FlightOf DEF TypeOK
  <2>3. \A q \in Procs : flightOf[q] # job[p]
    BY <1>2, <2>2, GenerateFacts, FlightOf DEF GateInv, GatesAssumption
  <2>4. PICK k \in Keys : k = job[p]
    BY <2>2
  <2>5. SF!Take(p, k)
    BY <2>1, <2>2, <2>3, <2>4 DEF SF!Take, flightOf
  <2> QED  BY <2>5 DEF SF!Next
<1>3. ASSUME NEW p \in Procs, Composed(p) \/ NotComposed(p) PROVE UNCHANGED flightOf
  BY <1>3, WorkFacts DEF flightOf, Undisturbed
<1>4. ASSUME NEW p \in Procs, Ends(p) \/ PanicSwallowed(p) PROVE SF!Next
  <2>1. Generating(p) /\ ~Generating(p)' /\ \A q \in Procs \ {p} : Undisturbed(q)
    BY <1>4, EndFacts, PanicFacts
  <2>2. flightOf[p] # None
    BY <2>1, FlightOf
  <2>3. flightOf' = [flightOf EXCEPT ![p] = None]
    BY <2>1 DEF flightOf, Undisturbed
  <2>4. SF!Release(p)
    BY <2>2, <2>3 DEF SF!Release, flightOf
  <2> QED  BY <2>4 DEF SF!Next
<1>5. ASSUME Restart PROVE SF!Next
  BY <1>5 DEF Restart, SF!Restart, SF!Next, Generating
<1>6. ASSUME Midnight \/ UNCHANGED vars PROVE UNCHANGED flightOf
  BY <1>6 DEF Midnight, vars, procVars, flightOf, Generating
<1>7. Next => SF!Next \/ UNCHANGED flightOf
  BY <1>1, <1>2, <1>3, <1>4, <1>5, <1>6, NextCases
<1> QED  BY <1>6, <1>7 DEF flightOf

-----------------------------------------------------------------------------
(* The daily budget. *)

\* The slots of a day that are held.
Held(d) == {p \in Procs : Generating(p) /\ slot[p] = TRUE /\ Day(p) = d}

\* What the counter of the current day covers, and what that of a day gone by did.
Allowance(d) == IF d > dayDate THEN 0 ELSE IF d = dayDate THEN dayCount ELSE Cap

Ledger(d) == spent[d] + Cardinality(Held(d)) <= Allowance(d) + stray[d]

BudgetInv == dayCount <= Cap /\ \A d \in 1..MaxDay : Ledger(d)

LEMMA HeldCount ==
  ASSUME GatesAssumption, NEW S \in SUBSET Procs
  PROVE  /\ IsFiniteSet(S) /\ Cardinality(S) \in Nat
         /\ \A T \in SUBSET S : Cardinality(T) <= Cardinality(S)
         /\ \A p \in S : Cardinality(S \ {p}) = Cardinality(S) - 1
         /\ \A p : p \notin S => Cardinality(S \cup {p}) = Cardinality(S) + 1
<1>1. IsFiniteSet(S)
  BY FS_Subset DEF GatesAssumption
<1> QED  BY <1>1, FS_Subset, FS_CardinalityType, FS_AddElement, FS_RemoveElement

LEMMA LedgerTypes ==
  ASSUME GatesAssumption, TypeOK, NEW d \in 1..MaxDay
  PROVE  /\ d \in Nat /\ spent[d] \in Nat /\ stray[d] \in Nat /\ Cap \in Nat
         /\ dayDate \in Nat /\ dayCount \in Int
         /\ Held(d) \in SUBSET Procs /\ Cardinality(Held(d)) \in Nat
<1>1. Held(d) \in SUBSET Procs
  BY DEF Held
<1>2. MaxDay \in Nat /\ dayCount \in Int
  BY DEF GatesAssumption, TypeOK
<1> QED  BY <1>1, <1>2, HeldCount DEF TypeOK, GatesAssumption

\* How the day and its counter move when nobody takes a slot.
DayStays == dayDate' = dayDate /\ dayCount' = dayCount /\ turnedBack' = turnedBack
DayRolls(d) ==
  /\ dayDate' = d /\ turnedBack' = (turnedBack \/ d < dayDate)
  /\ dayDate = d => dayCount' = dayCount
  /\ dayDate # d => dayCount' = 0 \/ (kind # "material" /\ dayCount' = dayCount)

LEMMA IdleDay ==
  ASSUME TypeOK, NEW p \in Procs, Idle(p)
  PROVE  DayStays \/ (pc[p] # "out" /\ DayRolls(Day(p)))
<1>1. dayCount \in Int /\ \A n \in Int : n + 0 = n
  BY DEF TypeOK
<1>2. CASE Asks(p)
  BY <1>2 DEF Asks, Ask, DayStays, gateVars, history
<1>3. CASE Looks(p)
  BY <1>3 DEF Looks, LookHit, LookMiss, LoadStored, LoadNothing, NothingToMake, GiveUp, DayStays, DayRolls,
     gateVars, history, Stay
<1>4. CASE Declines(p)
  BY <1>1, <1>4 DEF Declines, DecideHit, DecideTerminal, DecideBusy, DecideFull, DayStays, DayRolls, Stay,
     Roll, CountOn
<1> QED  BY <1>2, <1>3, <1>4 DEF Idle

\* The budget, over a step that spends, holds and strays nothing.
LEMMA BudgetRolls ==
  ASSUME GatesAssumption, TypeOK, TypeOK', BudgetInv, ~turnedBack', UNCHANGED <<spent, stray>>,
         \A d \in 1..MaxDay : Held(d)' = Held(d),
         DayStays \/ \E d \in 1..MaxDay : DayRolls(d)
  PROVE  BudgetInv'
<1>1. dayCount' <= Cap
  BY DEF BudgetInv, DayStays, DayRolls, TypeOK, GatesAssumption
<1>2. ASSUME NEW d \in 1..MaxDay PROVE Ledger(d)'
  <2>1. Allowance(d) <= Allowance(d)' /\ Allowance(d) \in Int /\ Allowance(d)' \in Int
    <3>1. CASE DayStays
      BY <3>1, LedgerTypes DEF DayStays, Allowance
    <3>2. ASSUME NEW e \in 1..MaxDay, DayRolls(e)
          PROVE  Allowance(d) <= Allowance(d)' /\ Allowance(d) \in Int /\ Allowance(d)' \in Int
      <4>1. dayDate <= e /\ dayDate' = e
        <5>1. dayDate' = e /\ ~(e < dayDate)
          BY <3>2 DEF DayRolls
        <5> QED  BY <5>1, LedgerTypes
      <4>2. dayDate # e => dayCount' \in Int /\ 0 <= dayCount'
        BY <3>2 DEF DayRolls, TypeOK
      <4>3. dayDate = e => dayCount' = dayCount
        BY <3>2 DEF DayRolls
      <4>4. /\ d \in Nat /\ e \in Nat /\ dayDate \in Nat /\ Cap \in Nat /\ dayCount \in Int
            /\ dayCount <= Cap
        BY LedgerTypes DEF BudgetInv
      <4>5. CASE e < d
        <5>1. Allowance(d) = 0 /\ Allowance(d)' = 0
          BY <4>1, <4>4, <4>5 DEF Allowance
        <5> QED  BY <5>1
      <4>6. CASE e = d
        <5>1. Allowance(d)' = dayCount'
          BY <4>1, <4>4, <4>6 DEF Allowance
        <5>2. CASE dayDate = e
          BY <4>3, <4>4, <4>6, <5>1, <5>2 DEF Allowance
        <5>3. CASE dayDate # e
          <6>1. d > dayDate
            BY <4>1, <4>4, <4>6, <5>3
          <6>2. Allowance(d) = 0
            BY <6>1 DEF Allowance
          <6> QED  BY <4>2, <5>1, <5>3, <6>2
        <5> QED  BY <5>2, <5>3
      <4>7. CASE d < e
        <5>1. Allowance(d)' = Cap
          BY <4>1, <4>4, <4>7 DEF Allowance
        <5>2. Allowance(d) \in {0, dayCount, Cap}
          BY DEF Allowance
        <5> QED  BY <4>4, <5>1, <5>2
      <4> QED  BY <4>4, <4>5, <4>6, <4>7
    <3> QED  BY <3>1, <3>2
  <2>2. Ledger(d) /\ Held(d)' = Held(d)
    BY DEF BudgetInv
  <2> HIDE DEF Held
  <2> QED  BY <2>1, <2>2, LedgerTypes DEF Ledger
<1> QED  BY <1>1, <1>2 DEF BudgetInv

\* A generator that gives its slot up, or has none to give up.
LEMMA HeldDrops ==
  ASSUME GatesAssumption, TypeOK, SlotInv, NEW p \in Procs, Generating(p), slot'[p] = FALSE,
         \A q \in Procs \ {p} : Undisturbed(q), NEW d \in 1..MaxDay
  PROVE  /\ Cardinality(Held(d)') \in Nat
         /\ slot[p] = TRUE /\ Day(p) = d => Cardinality(Held(d)') = Cardinality(Held(d)) - 1
         /\ ~(slot[p] = TRUE /\ Day(p) = d) => Cardinality(Held(d)') = Cardinality(Held(d))
<1>1. Held(d)' = Held(d) \ {p} /\ Held(d) \in SUBSET Procs /\ Held(d)' \in SUBSET Procs
  BY DEF Held, Undisturbed, Day, SlotInv
<1>2. p \in Held(d) <=> slot[p] = TRUE /\ Day(p) = d
  BY DEF Held
<1> HIDE DEF Held
<1>3. p \notin Held(d) => Held(d) \ {p} = Held(d)
  OBVIOUS
<1> QED  BY <1>1, <1>2, <1>3, HeldCount

LEMMA NextBudget ==
  ASSUME GatesAssumption, TypeOK, TypeOK', SlotInv, Next, ~turnedBack', ~turnedBack => BudgetInv
  PROVE  BudgetInv'
<1>0. ~turnedBack => BudgetInv
  OBVIOUS
<1>1. \A p \in Procs : pc[p] # "out" => Day(p) \in 1..MaxDay
  BY DayType
<1>2. ASSUME NEW p \in Procs, Idle(p) PROVE BudgetInv'
  <2>1. /\ \A d \in 1..MaxDay : Held(d)' = Held(d)
        /\ UNCHANGED <<spent, stray>>
    BY <1>2, IdleFacts DEF Held, Undisturbed, Day, SlotInv
  <2>2. DayStays \/ \E d \in 1..MaxDay : DayRolls(d)
    BY <1>1, <1>2, IdleDay
  <2>3. ~turnedBack
    BY <2>2 DEF DayStays, DayRolls
  <2> QED  BY <2>1, <2>2, <2>3, BudgetRolls
<1>3. ASSUME NEW p \in Procs, DecideGenerate(p) PROVE BudgetInv'
  <2> DEFINE e == Day(p)
  <2>1. PICK takes \in BOOLEAN :
          /\ takes => kind \in Capped /\ CountOn(e) < Cap
          /\ slot' = [slot EXCEPT ![p] = takes]
          /\ IF kind = "digest"
             THEN UNCHANGED <<cache, dayDate, dayCount>> /\ turnedBack' = (turnedBack \/ e < dayDate)
             ELSE Roll(e, {}, IF takes THEN 1 ELSE 0)
    BY <1>3 DEF DecideGenerate
  <2>2. /\ e \in 1..MaxDay /\ UNCHANGED <<spent, stray>> /\ slot[p] = FALSE /\ ~Generating(p)
        /\ Generating(p)' /\ job' = job /\ \A q \in Procs \ {p} : Undisturbed(q)
    BY <1>1, <1>3, GenerateFacts DEF SlotInv, TypeOK
  <2>3. ~turnedBack /\ ~(e < dayDate)
    BY <2>1 DEF Roll
  <2>4. CASE takes = FALSE
    <3>1. slot'[p] = FALSE
      BY <2>1, <2>4 DEF TypeOK
    <3>2. \A d \in 1..MaxDay : Held(d)' = Held(d)
      BY <2>2, <3>1 DEF Held, Undisturbed, Day
    <3>3. dayCount \in Int /\ \A n \in Int : n + 0 = n
      BY DEF TypeOK
    <3>4. DayStays \/ DayRolls(e)
      <4>1. turnedBack' = turnedBack
        BY <2>3 DEF TypeOK
      <4>2. CASE kind = "digest"
        BY <2>1, <4>1, <4>2 DEF DayStays
      <4>3. CASE kind # "digest"
        <5>1. Roll(e, {}, 0)
          BY <2>1, <2>4, <4>3
        <5> QED  BY <3>3, <5>1 DEF DayRolls, Roll, CountOn
      <4> QED  BY <4>2, <4>3
    <3> HIDE DEF e
    <3> QED  BY <2>2, <2>3, <3>2, <3>4, BudgetRolls
  <2>5. CASE takes = TRUE
    <3>1. slot'[p] = TRUE /\ dayDate' = e /\ dayCount' = CountOn(e) + 1 /\ CountOn(e) < Cap
      BY <2>1, <2>5 DEF TypeOK, Roll, Capped
    <3>2. \A d \in 1..MaxDay : IF d = e THEN Held(d)' = Held(d) \cup {p} /\ p \notin Held(d)
                                        ELSE Held(d)' = Held(d)
      BY <2>2, <3>1 DEF Held, Undisturbed, Day
    <3>3. /\ dayDate <= e /\ e \in Nat /\ dayDate \in Nat /\ Cap \in Nat /\ dayCount \in Int
          /\ CountOn(e) \in Int
      BY <2>2, <2>3, LedgerTypes DEF CountOn
    <3> HIDE DEF e
    <3>4. dayCount' <= Cap
      BY <3>1, <3>3
    <3>5. ASSUME NEW d \in 1..MaxDay PROVE Ledger(d)'
      <4>1. /\ spent[d] + Cardinality(Held(d)) <= Allowance(d) + stray[d]
            /\ spent[d] \in Nat /\ stray[d] \in Nat /\ d \in Nat /\ Cardinality(Held(d)) \in Nat
        BY <2>3, LedgerTypes DEF Ledger, BudgetInv
      <4>2. CASE d = e
        <5>1. Held(d)' = Held(d) \cup {p} /\ p \notin Held(d) /\ Held(d) \in SUBSET Procs
          BY <3>2, <4>2, LedgerTypes
        <5> HIDE DEF Held
        <5>3. Cardinality(Held(d)') = Cardinality(Held(d)) + 1
          BY <5>1, HeldCount
        <5>2. Allowance(d) = CountOn(e) /\ Allowance(d)' = CountOn(e) + 1
          BY <3>1, <3>3, <4>1, <4>2 DEF Allowance, CountOn
        <5> QED  BY <2>2, <3>3, <4>1, <5>2, <5>3 DEF Ledger
      <4>3. CASE d # e
        <5>1. Held(d)' = Held(d)
          BY <3>2, <4>3
        <5>2. CASE d > e
          <6>1. Allowance(d) = 0 /\ Allowance(d)' = 0
            BY <3>1, <3>3, <4>1, <5>2 DEF Allowance
          <6> HIDE DEF Held
          <6> QED  BY <2>2, <4>1, <5>1, <6>1 DEF Ledger
        <5>3. CASE ~(d > e)
          <6>1. Allowance(d)' = Cap
            BY <3>1, <4>3, <5>3 DEF Allowance
          <6>2. Allowance(d) \in {0, dayCount, Cap} /\ dayCount <= Cap
            BY <2>3 DEF Allowance, BudgetInv
          <6> HIDE DEF Held
          <6> QED  BY <2>2, <3>3, <4>1, <5>1, <6>1, <6>2 DEF Ledger
        <5> QED  BY <5>2, <5>3
      <4> QED  BY <4>2, <4>3
    <3> QED  BY <3>4, <3>5 DEF BudgetInv
  <2> QED  BY <2>4, <2>5
<1>4. ASSUME NEW p \in Procs, Composed(p) PROVE BudgetInv'
  <2>1. /\ \A d \in 1..MaxDay : Held(d)' = Held(d)
        /\ UNCHANGED <<spent, stray>> /\ DayStays
    BY <1>4, WorkFacts DEF Held, Undisturbed, Day, Composed, Goto, gateVars, history, DayStays
  <2> QED  BY <2>1, BudgetRolls DEF DayStays
<1>5. ASSUME NEW p \in Procs, NotComposed(p) PROVE BudgetInv'
  <2> DEFINE e == Day(p)
  <2>1. /\ ~turnedBack /\ e \in 1..MaxDay /\ Generating(p) /\ UNCHANGED <<spent, dayDate>>
        /\ job' = job /\ Generating(p)' /\ \A q \in Procs \ {p} : Undisturbed(q)
    BY <1>1, <1>5, WorkFacts DEF Generating
  <2>2. CASE kind = "material" /\ slot[p] = TRUE
    <3>1. slot'[p] = FALSE /\ dayCount' = dayCount - 1 /\ dayDate # 0
          /\ stray' = IF dayDate = e THEN stray ELSE [stray EXCEPT ![dayDate] = @ + 1]
      BY <1>5, <2>2 DEF NotComposed, TypeOK, SlotInv
    <3>2. dayCount \in Int /\ Cap \in Nat /\ dayCount <= Cap /\ dayDate \in Nat
      BY <2>1, LedgerTypes DEF BudgetInv
    <3>3. ASSUME NEW d \in 1..MaxDay PROVE Ledger(d)'
      <4>1. /\ spent[d] + Cardinality(Held(d)) <= Allowance(d) + stray[d]
            /\ spent[d] \in Nat /\ stray[d] \in Nat /\ d \in Nat /\ Cardinality(Held(d)) \in Nat
        BY <2>1, LedgerTypes DEF Ledger, BudgetInv
      <4>2. /\ Cardinality(Held(d)') \in Nat
            /\ e = d => Cardinality(Held(d)') = Cardinality(Held(d)) - 1
            /\ e # d => Cardinality(Held(d)') = Cardinality(Held(d))
        BY <2>1, <2>2, <3>1, HeldDrops
      <4> HIDE DEF Held, e
      <4>3. stray'[d] = IF d = dayDate /\ d # e THEN stray[d] + 1 ELSE stray[d]
        BY <3>1 DEF TypeOK
      <4>4. Allowance(d) \in Int /\ Allowance(d)' = IF d = dayDate THEN Allowance(d) - 1 ELSE Allowance(d)
        BY <2>1, <3>1, <3>2, <4>1 DEF Allowance
      <4> QED  BY <2>1, <4>1, <4>2, <4>3, <4>4 DEF Ledger
    <3> QED  BY <3>1, <3>2, <3>3 DEF BudgetInv
  <2>3. CASE ~(kind = "material" /\ slot[p] = TRUE)
    <3>1. /\ UNCHANGED <<slot, stray>> /\ DayStays
      BY <1>5, <2>3 DEF NotComposed, TypeOK, DayStays
    <3>2. \A d \in 1..MaxDay : Held(d)' = Held(d)
      BY <2>1, <3>1 DEF Held, Undisturbed, Day
    <3> QED  BY <2>1, <3>1, <3>2, BudgetRolls
  <2> QED  BY <2>2, <2>3
<1>6. ASSUME NEW p \in Procs, FinishKept(p) PROVE BudgetInv'
  <2> DEFINE e == Day(p)
  <2>1. /\ ~turnedBack /\ e \in 1..MaxDay /\ Generating(p) /\ UNCHANGED <<dayCount, dayDate, stray>>
        /\ slot'[p] = FALSE /\ \A q \in Procs \ {p} : Undisturbed(q)
        /\ spent' = IF slot[p] THEN [spent EXCEPT ![e] = @ + 1] ELSE spent
    BY <1>1, <1>6, EndFacts DEF Ends, FinishKept, Generating
  <2>2. ASSUME NEW d \in 1..MaxDay PROVE Ledger(d)'
    <3>1. /\ spent[d] + Cardinality(Held(d)) <= Allowance(d) + stray[d]
          /\ spent[d] \in Nat /\ stray[d] \in Nat /\ Cardinality(Held(d)) \in Nat
      BY <2>1, LedgerTypes DEF Ledger, BudgetInv
    <3>2. /\ Cardinality(Held(d)') \in Nat
          /\ slot[p] = TRUE /\ e = d => Cardinality(Held(d)') = Cardinality(Held(d)) - 1
          /\ ~(slot[p] = TRUE /\ e = d) => Cardinality(Held(d)') = Cardinality(Held(d))
      BY <2>1, HeldDrops
    <3>3. spent'[d] = IF slot[p] = TRUE /\ e = d THEN spent[d] + 1 ELSE spent[d]
      BY <2>1 DEF TypeOK
    <3> HIDE DEF Held, e
    <3>4. Allowance(d)' = Allowance(d)
      BY <2>1 DEF Allowance
    <3>5. spent'[d] + Cardinality(Held(d)') = spent[d] + Cardinality(Held(d))
      BY <3>1, <3>2, <3>3
    <3> QED  BY <2>1, <3>1, <3>4, <3>5 DEF Ledger
  <2> QED  BY <2>1, <2>2 DEF BudgetInv
<1>7. ASSUME NEW p \in Procs, FinishDropped(p) \/ PanicRecovered(p) PROVE BudgetInv'
  <2> DEFINE e == Day(p)
  <2>1. /\ ~turnedBack /\ e \in 1..MaxDay /\ Generating(p) /\ UNCHANGED <<spent, dayDate, stray>>
        /\ slot'[p] = FALSE /\ \A q \in Procs \ {p} : Undisturbed(q)
        /\ dayCount' = IF slot[p] THEN Refunded(e) ELSE dayCount
    <3>1. /\ ~turnedBack /\ Generating(p) /\ UNCHANGED <<dayDate, stray>> /\ slot'[p] = FALSE
          /\ \A q \in Procs \ {p} : Undisturbed(q)
      BY <1>7, EndFacts DEF Ends
    <3>2. e \in 1..MaxDay
      BY <1>1, <3>1 DEF Generating
    <3>3. /\ UNCHANGED spent /\ dayCount' = IF slot[p] THEN Refunded(e) ELSE dayCount
      BY <1>7 DEF FinishDropped, PanicRecovered, history
    <3> QED  BY <3>1, <3>2, <3>3
  <2>2. dayCount \in Int /\ Cap \in Nat /\ dayCount <= Cap /\ dayDate \in Nat
    BY <2>1, LedgerTypes DEF BudgetInv
  <2>3. dayCount' \in Int /\ dayCount' <= dayCount
    BY <2>1, <2>2 DEF Refunded
  <2>4. ASSUME NEW d \in 1..MaxDay PROVE Ledger(d)'
    <3>1. /\ spent[d] + Cardinality(Held(d)) <= Allowance(d) + stray[d]
          /\ spent[d] \in Nat /\ stray[d] \in Nat /\ Cardinality(Held(d)) \in Nat
      BY <2>1, LedgerTypes DEF Ledger, BudgetInv
    <3>2. /\ Cardinality(Held(d)') \in Nat
          /\ slot[p] = TRUE /\ e = d => Cardinality(Held(d)') = Cardinality(Held(d)) - 1
          /\ ~(slot[p] = TRUE /\ e = d) => Cardinality(Held(d)') = Cardinality(Held(d))
      BY <2>1, HeldDrops
    <3>3. dayCount' = dayCount \/ (slot[p] = TRUE /\ e = dayDate /\ dayCount' = dayCount - 1)
      BY <2>1 DEF Refunded, TypeOK
    <3> HIDE DEF Held, e
    <3>4. CASE dayCount' = dayCount
      <4>1. Allowance(d)' = Allowance(d) /\ Allowance(d) \in Int
        BY <2>1, <2>2, <3>4 DEF Allowance
      <4> QED  BY <2>1, <3>1, <3>2, <4>1 DEF Ledger
    <3>5. CASE slot[p] = TRUE /\ e = dayDate /\ dayCount' = dayCount - 1
      <4>1. CASE d = e
        <5>1. Allowance(d) = dayCount /\ Allowance(d)' = dayCount - 1
          BY <2>1, <2>2, <3>5, <4>1 DEF Allowance
        <5> QED  BY <2>1, <2>2, <3>1, <3>2, <3>5, <4>1, <5>1 DEF Ledger
      <4>2. CASE d # e
        <5>1. Allowance(d)' = Allowance(d)
          BY <2>1, <3>5, <4>2 DEF Allowance
        <5> QED  BY <2>1, <3>1, <3>2, <4>2, <5>1 DEF Ledger
      <4> QED  BY <4>1, <4>2
    <3> QED  BY <3>3, <3>4, <3>5
  <2> QED  BY <2>2, <2>3, <2>4 DEF BudgetInv
<1>8. ASSUME NEW p \in Procs, PanicSwallowed(p) PROVE BudgetInv'
  <2>1. /\ ~turnedBack /\ Generating(p) /\ UNCHANGED <<spent, dayDate, dayCount, stray>>
        /\ slot'[p] = FALSE /\ \A q \in Procs \ {p} : Undisturbed(q)
    BY <1>8, PanicFacts DEF gateVars
  <2>2. ASSUME NEW d \in 1..MaxDay PROVE Ledger(d)'
    <3>1. /\ spent[d] + Cardinality(Held(d)) <= Allowance(d) + stray[d]
          /\ spent[d] \in Nat /\ stray[d] \in Nat /\ Cardinality(Held(d)) \in Nat
          /\ dayCount \in Int /\ Cap \in Nat
      BY <2>1, LedgerTypes DEF Ledger, BudgetInv
    <3>2. Cardinality(Held(d)') \in Nat /\ Cardinality(Held(d)') <= Cardinality(Held(d))
      <4>1. /\ Cardinality(Held(d)') \in Nat
            /\ slot[p] = TRUE /\ Day(p) = d => Cardinality(Held(d)') = Cardinality(Held(d)) - 1
            /\ ~(slot[p] = TRUE /\ Day(p) = d) => Cardinality(Held(d)') = Cardinality(Held(d))
        BY <2>1, HeldDrops
      <4> HIDE DEF Held
      <4> QED  BY <3>1, <4>1
    <3> HIDE DEF Held
    <3>3. Allowance(d)' = Allowance(d) /\ Allowance(d) \in Int
      BY <2>1, <3>1 DEF Allowance
    <3> QED  BY <2>1, <3>1, <3>2, <3>3 DEF Ledger
  <2> QED  BY <2>1, <2>2 DEF BudgetInv
<1>9. ASSUME Midnight PROVE BudgetInv'
  BY <1>0, <1>9 DEF Midnight, BudgetInv, Ledger, Allowance, Held, Generating, Day, gateVars, procVars, history
<1>10. ASSUME Restart PROVE BudgetInv'
  <2>1. ~turnedBack /\ dayCount' = 0 /\ dayDate' = 0 /\ Cap \in Nat
    BY <1>10 DEF Restart, GatesAssumption
  <2>2. \A d \in 1..MaxDay : Held(d)' = {} /\ spent'[d] = 0 /\ stray'[d] = 0 /\ d > 0
    BY <1>10 DEF Restart, Held, Generating
  <2>3. Cardinality({}) = 0
    BY FS_EmptySet
  <2> HIDE DEF Held
  <2>4. \A d \in 1..MaxDay : Ledger(d)'
    BY <2>1, <2>2, <2>3 DEF Ledger, Allowance
  <2> QED  BY <2>1, <2>4 DEF BudgetInv
<1> QED  BY <1>2, <1>3, <1>4, <1>5, <1>6, <1>7, <1>8, <1>9, <1>10, NextCases DEF Ends

-----------------------------------------------------------------------------
(* A text is made once. *)

\* The requests and the table are of days that have come, only the kinds that
\* generate in the request wait, only the summary is loaded, and a restart is a fault.
PastInv ==
  /\ \A p \in Procs : pc[p] # "out" => Day(p) <= today
  /\ \A k \in stored : k[2] <= today
  /\ \A p \in Procs : /\ pc[p] = "waiting" => kind \notin Background
                      /\ pc[p] = "loading" => kind = "summary"
  /\ restarted => faults > 0

\* While no request has turned the day back, a generator is not ahead of the counter's
\* day (nor is a digest that has looked), and what is stored is not ahead of both the
\* counter's day and a request's.
DayInv ==
  /\ \A p \in Procs :
       Generating(p) \/ (kind = "digest" /\ pc[p] = "deciding") => Day(p) <= dayDate
  /\ \A p \in Procs, k \in stored : pc[p] # "out" => k[2] <= dayDate \/ k[2] <= Day(p)

\* What this process has made is cached, unless its day is over.
MadeInv == \A k \in Keys : made[k] > 0 => k[2] <= dayDate /\ (k \in cache \/ k[2] < dayDate)

\* Nothing but a restart has failed.
Clean == kind = "summary" /\ faults <= IF restarted THEN 1 ELSE 0

\* Then what was made is stored, ...
CleanInv ==
  /\ \A k \in Keys : made[k] > 0 => k \in stored
  /\ \A p \in Procs : pc[p] = "keeping" => job[p] \in stored

\* ... and a request that is about to decide on a key that is stored will see it in
\* the cache, see its gate closed, or turn the day back.
SeenInv ==
  \A p \in Procs :
    pc[p] = "deciding" /\ job[p] \in stored =>
      \/ job[p] \in cache \/ Day(p) < dayDate
      \/ \E q \in Procs : pc[q] = "keeping" /\ job[q] = job[p]

Excused == turnedBack \/ (restarted /\ (kind # "summary" \/ faults > 1))

\* A text that is being made was not made before.
FreshInv == \A p \in Procs : Generating(p) => made[job[p]] = 0 \/ Excused

LEMMA FaultsGrow ==
  ASSUME TypeOK, Next
  PROVE  /\ faults \in Nat /\ faults' \in Nat /\ faults <= faults' /\ kind' = kind
         /\ Restart \/ restarted' = restarted
<1>0. faults \in Nat
  BY DEF TypeOK
<1>1. faults' = faults \/ faults' = faults + 1
  BY DEF Next, Ask, LookHit, LookMiss, LoadStored, LoadNothing, NothingToMake, Decide, DecideHit,
     DecideTerminal, DecideBusy, DecideFull, DecideGenerate, GiveUp, Generator, Composed, NotComposed,
     FinishKept, FinishDropped, PanicRecovered, PanicSwallowed, Midnight, Restart, bounds
<1>2. /\ kind' = kind
      /\ Restart \/ restarted' = restarted
  BY DEF Next, Ask, LookHit, LookMiss, LoadStored, LoadNothing, NothingToMake, Decide, DecideHit,
     DecideTerminal, DecideBusy, DecideFull, DecideGenerate, GiveUp, Generator, Composed, NotComposed,
     FinishKept, FinishDropped, PanicRecovered, PanicSwallowed, Midnight, Restart, bounds
<1> QED  BY <1>0, <1>1, <1>2

\* The days only go on, and what leaves the cache is not of the counter's day.
CalendarGoesOn ==
  /\ ~turnedBack /\ dayDate <= dayDate'
  /\ \A k \in cache : \/ k \in cache'
                      \/ k[2] # dayDate' /\ \E p \in Procs : pc[p] # "out" /\ dayDate' = Day(p)

LEMMA CalendarFacts ==
  ASSUME GatesAssumption, TypeOK, Next, ~Restart, ~turnedBack'
  PROVE  CalendarGoesOn
<1>0. dayDate \in Nat /\ \A p \in Procs : pc[p] # "out" => Day(p) \in Nat
  BY DayType DEF TypeOK, GatesAssumption
<1>1. ASSUME NEW d \in Nat, \E p \in Procs : pc[p] # "out" /\ Day(p) = d,
             {k \in cache : k[2] = d} \subseteq cache', dayDate' = d,
             turnedBack' = (turnedBack \/ d < dayDate)
      PROVE  CalendarGoesOn
  <2>1. ~turnedBack /\ ~(d < dayDate)
    BY <1>1
  <2>2. dayDate <= dayDate'
    BY <1>0, <1>1, <2>1
  <2>3. \A k \in cache : k \in cache' \/ k[2] # dayDate'
    BY <1>1
  <2> QED  BY <1>1, <2>1, <2>2, <2>3 DEF CalendarGoesOn
<1>2. ASSUME cache \subseteq cache', UNCHANGED <<dayDate, turnedBack>> PROVE CalendarGoesOn
  BY <1>0, <1>2 DEF CalendarGoesOn
<1>3. ASSUME NEW p \in Procs, Asks(p) PROVE CalendarGoesOn
  BY <1>2, <1>3 DEF Asks, Ask, gateVars, history
<1>4. ASSUME NEW p \in Procs, Looks(p) PROVE CalendarGoesOn
  <2>1. CASE LookMiss(p)
    <3>1. pc[p] # "out"
      BY <2>1 DEF LookMiss
    <3>2. CASE kind = "digest"
      BY <1>0, <1>1, <2>1, <3>1, <3>2 DEF LookMiss
    <3>3. CASE kind # "digest"
      BY <1>2, <2>1, <3>3 DEF LookMiss, Stay
    <3> QED  BY <3>2, <3>3
  <2>2. CASE LookHit(p) \/ LoadStored(p) \/ LoadNothing(p) \/ NothingToMake(p) \/ GiveUp(p)
    BY <1>2, <2>2 DEF LookHit, LoadStored, LoadNothing, NothingToMake, GiveUp, gateVars, history
  <2> QED  BY <1>4, <2>1, <2>2 DEF Looks
<1>5. ASSUME NEW p \in Procs, Declines(p) PROVE CalendarGoesOn
  <2>1. PICK keys : Roll(Day(p), keys, 0) \/ Stay
    BY <1>5 DEF Declines, DecideHit, DecideTerminal, DecideBusy, DecideFull
  <2>2. pc[p] # "out"
    BY <1>5 DEF Declines, DecideHit, DecideTerminal, DecideBusy, DecideFull
  <2>3. \A d : Roll(d, keys, 0) => /\ {k \in cache : k[2] = d} \subseteq cache' /\ dayDate' = d
                                   /\ turnedBack' = (turnedBack \/ d < dayDate)
    BY DEF Roll, Kept
  <2> QED  BY <1>0, <1>1, <1>2, <2>1, <2>2, <2>3 DEF Stay
<1>6. ASSUME NEW p \in Procs, DecideGenerate(p) PROVE CalendarGoesOn
  <2>1. CASE kind = "digest"
    BY <1>2, <1>6, <2>1 DEF DecideGenerate, TypeOK
  <2>2. CASE kind # "digest"
    <3>1. PICK n : Roll(Day(p), {}, n)
      BY <1>6, <2>2 DEF DecideGenerate
    <3>2. /\ {k \in cache : k[2] = Day(p)} \subseteq cache' /\ dayDate' = Day(p)
          /\ turnedBack' = (turnedBack \/ Day(p) < dayDate)
      BY <3>1 DEF Roll, Kept
    <3>3. pc[p] # "out"
      BY <1>6 DEF DecideGenerate
    <3> QED  BY <1>0, <1>1, <3>2, <3>3
  <2> QED  BY <2>1, <2>2
<1>7. ASSUME NEW p \in Procs, Composed(p) \/ NotComposed(p) \/ Ends(p) \/ PanicSwallowed(p)
      PROVE  CalendarGoesOn
  BY <1>2, <1>7 DEF Composed, NotComposed, Ends, FinishKept, FinishDropped, PanicRecovered, PanicSwallowed,
     gateVars, history
<1>8. ASSUME Midnight PROVE CalendarGoesOn
  BY <1>2, <1>8 DEF Midnight, gateVars, history
<1> QED  BY <1>3, <1>4, <1>5, <1>6, <1>7, <1>8, NextCases DEF Idle

\* What is stored was composed, or settled without a text.
LEMMA StoredFacts ==
  ASSUME TypeOK, Next, NEW k \in stored'
  PROVE  \/ k \in stored
         \/ \E p \in Procs : Composed(p) /\ k = job[p]
         \/ \E p \in Procs : /\ DecideTerminal(p) /\ k = job[p] /\ dayDate' = Day(p) /\ k \in cache'
                             /\ pc[p] # "out"
<1>1. ASSUME NEW p \in Procs, DecideTerminal(p), k \notin stored
      PROVE  k = job[p] /\ dayDate' = Day(p) /\ k \in cache' /\ pc[p] # "out"
  BY <1>1 DEF DecideTerminal, Roll
<1>2. ASSUME NEW p \in Procs, Composed(p), k \notin stored PROVE k = job[p]
  BY <1>2 DEF Composed
<1>3. \/ stored' = stored \/ \E p \in Procs : DecideTerminal(p) \/ Composed(p)
  BY DEF Next, Ask, LookHit, LookMiss, LoadStored, LoadNothing, NothingToMake, Decide, DecideHit,
     DecideBusy, DecideFull, DecideGenerate, GiveUp, Generator, NotComposed,
     FinishKept, FinishDropped, PanicRecovered, PanicSwallowed, Midnight, Restart
<1> QED  BY <1>1, <1>2, <1>3

\* A request that is somewhere was there, with its key, or comes now, with a key of today.
Stayed(p) == pc[p] # "out" /\ job'[p] = job[p]
Came(p) == pc[p] = "out" /\ pc'[p] \in {"asked", "deciding"} /\ job'[p] \in Keys /\ job'[p][2] = today
           /\ today' = today /\ (kind = "digest" => pc'[p] = "asked")
           /\ (kind = "summary" => pc'[p] = "asked")

LEMMA JobFacts ==
  ASSUME TypeOK, Next, NEW p \in Procs, pc'[p] # "out"
  PROVE  Stayed(p) \/ Came(p)
<1> USE DEF TypeOK, Goto, Return
<1>1. ASSUME NEW q \in Procs, Asks(q) PROVE Stayed(p) \/ Came(p)
  <2>1. PICK t \in Tickers : Ask(q, t)
    BY <1>1 DEF Asks
  <2>2. <<t, today>> \in Keys /\ <<t, today>>[2] = today
    BY DEF Keys
  <2>3. CASE p = q
    BY <2>1, <2>2, <2>3 DEF Ask, Came, Background
  <2>4. CASE p # q
    BY <2>1, <2>4 DEF Ask, Stayed
  <2> QED  BY <2>3, <2>4
<1>2. ASSUME NEW q \in Procs, Looks(q) PROVE Stayed(p)
  BY <1>2 DEF Looks, LookHit, LookMiss, LoadStored, LoadNothing, NothingToMake, GiveUp, Stayed
<1>3. ASSUME NEW q \in Procs, Declines(q) PROVE Stayed(p)
  BY <1>3 DEF Declines, DecideHit, DecideTerminal, DecideBusy, DecideFull, Stayed
<1>4. ASSUME NEW q \in Procs, DecideGenerate(q) \/ Composed(q) \/ NotComposed(q) \/ PanicSwallowed(q)
      PROVE  Stayed(p)
  BY <1>4 DEF DecideGenerate, Composed, NotComposed, PanicSwallowed, Stayed
<1>5. ASSUME NEW q \in Procs, Ends(q) PROVE Stayed(p)
  BY <1>5 DEF Ends, FinishKept, FinishDropped, PanicRecovered, Release, Wake, Stayed
<1>6. ASSUME Midnight PROVE Stayed(p)
  BY <1>6 DEF Midnight, Stayed, procVars
<1>7. ASSUME Restart PROVE FALSE
  BY <1>7 DEF Restart
<1> QED  BY <1>1, <1>2, <1>3, <1>4, <1>5, <1>6, <1>7, NextCases DEF Idle

LEMMA NextPast ==
  ASSUME GatesAssumption, TypeOK, TypeOK', PastInv, Next
  PROVE  PastInv'
<1>0. today \in Nat /\ today' \in Nat /\ today <= today'
  <2>1. today' = today \/ today' = today + 1
    BY DEF Next, Ask, LookHit, LookMiss, LoadStored, LoadNothing, NothingToMake, Decide, DecideHit,
     DecideTerminal, DecideBusy, DecideFull, DecideGenerate, GiveUp, Generator, Composed, NotComposed,
     FinishKept, FinishDropped, PanicRecovered, PanicSwallowed, Midnight, Restart
  <2> QED  BY <2>1 DEF TypeOK
<1>1. ASSUME NEW p \in Procs, pc'[p] # "out" PROVE Day(p)' <= today'
  <2>1. CASE Stayed(p)
    BY <1>0, <2>1, DayType DEF Stayed, PastInv, Day
  <2>2. CASE Came(p)
    BY <1>0, <2>2 DEF Came, Day
  <2> QED  BY <1>1, <2>1, <2>2, JobFacts
<1>2. ASSUME NEW k \in stored' PROVE k[2] <= today'
  <2>1. CASE k \in stored
    BY <1>0, <2>1, KeyType DEF PastInv, TypeOK
  <2>2. ASSUME NEW p \in Procs, pc[p] # "out", k = job[p] PROVE k[2] <= today'
    BY <1>0, <2>2, DayType DEF PastInv, Day
  <2> QED  BY <2>1, <2>2, StoredFacts DEF Composed
<1>3. ASSUME NEW p \in Procs
      PROVE  /\ pc'[p] = "waiting" => kind' \notin Background
             /\ pc'[p] = "loading" => kind' = "summary"
  <2> DEFINE Fine == /\ pc'[p] = "waiting" => pc[p] = "waiting" \/ kind \notin Background
                     /\ pc'[p] = "loading" => pc[p] = "loading" \/ kind = "summary"
  <2>1. kind' = kind
    BY FaultsGrow
  <2>2. ASSUME NEW q \in Procs, Idle(q) PROVE Fine
    BY <2>2 DEF Idle, Asks, Ask, Looks, LookHit, LookMiss, LoadStored, LoadNothing, NothingToMake,
       GiveUp, Declines, DecideHit, DecideTerminal, DecideBusy, DecideFull, Return, Goto, TypeOK
  <2>3. ASSUME NEW q \in Procs, \/ DecideGenerate(q) \/ Composed(q) \/ NotComposed(q)
                                \/ Ends(q) \/ PanicSwallowed(q)
        PROVE Fine
    BY <2>3 DEF DecideGenerate, Composed, NotComposed, Ends, FinishKept, FinishDropped,
       PanicRecovered, PanicSwallowed, Release, Wake, Return, Goto, TypeOK
  <2>4. ASSUME Midnight \/ Restart PROVE Fine
    BY <2>4 DEF Midnight, Restart, procVars
  <2>5. Fine
    BY <2>2, <2>3, <2>4, NextCases
  <2> QED  BY <2>1, <2>5 DEF PastInv
<1>4. restarted' => faults' > 0
  <2>1. CASE Restart
    <3>1. faults' = faults + 1 /\ faults \in Nat
      BY <2>1, FaultsGrow DEF Restart
    <3> QED  BY <3>1
  <2>2. CASE ~Restart
    <3>1. restarted' = restarted /\ faults \in Nat /\ faults' \in Nat /\ faults <= faults'
      BY <2>2, FaultsGrow
    <3> QED  BY <3>1 DEF PastInv
  <2> QED  BY <2>1, <2>2
<1> QED  BY <1>1, <1>2, <1>3, <1>4 DEF PastInv

\* Who begins to generate, or is about to decide on a digest.
LEMMA StartsFacts ==
  ASSUME TypeOK, SlotInv, PastInv, Next, NEW p \in Procs,
         Generating(p)' \/ (kind = "digest" /\ pc'[p] = "deciding"),
         ~(Generating(p) \/ (kind = "digest" /\ pc[p] = "deciding"))
  PROVE  DecideGenerate(p) \/ (LookMiss(p) /\ kind = "digest")
<1>1. ASSUME NEW q \in Procs, Idle(q) PROVE LookMiss(p) /\ kind = "digest"
  <2>1. ~Generating(p)'
    BY <1>1, IdleFacts DEF Undisturbed
  <2>2. kind = "digest" /\ pc'[p] = "deciding" /\ pc[p] # "deciding"
    BY <2>1
  <2>3. pc[p] # "loading"
    BY <2>2 DEF PastInv
  <2>4. p = q /\ ~LookHit(q) /\ ~LoadStored(q) /\ ~LoadNothing(q) /\ ~NothingToMake(q) /\ ~GiveUp(q)
    BY <1>1, <2>2, <2>3 DEF Idle, Asks, Ask, Looks, LookHit, LookMiss, LoadStored, LoadNothing,
       NothingToMake, GiveUp, Declines, DecideHit, DecideTerminal, DecideBusy, DecideFull, Return, Goto,
       TypeOK
  <2>5. ~Asks(q) /\ ~Declines(q)
    BY <2>2, <2>4 DEF Asks, Ask, Declines, DecideHit, DecideTerminal, DecideBusy, DecideFull, TypeOK,
       Background
  <2> QED  BY <1>1, <2>2, <2>4, <2>5 DEF Idle, Looks
<1>2. ASSUME NEW q \in Procs, DecideGenerate(q) PROVE p = q
  BY <1>2, GenerateFacts DEF Undisturbed, DecideGenerate, TypeOK
<1>3. ASSUME NEW q \in Procs, Composed(q) \/ NotComposed(q) PROVE FALSE
  BY <1>3, WorkFacts DEF Undisturbed, Composed, NotComposed, Goto, TypeOK
<1>4. ASSUME NEW q \in Procs, Ends(q) PROVE FALSE
  <2>1. ~Generating(p)' /\ kind = "digest" /\ pc'[p] = "deciding" /\ pc[p] # "deciding"
    BY <1>4, EndFacts DEF Undisturbed
  <2>2. pc[p] = "waiting"
    BY <1>4, <2>1 DEF Ends, FinishKept, FinishDropped, PanicRecovered, Release, Wake, TypeOK
  <2> QED  BY <2>1, <2>2 DEF PastInv, Background
<1>5. ASSUME NEW q \in Procs, PanicSwallowed(q) PROVE FALSE
  BY <1>5, PanicFacts DEF Undisturbed, PanicSwallowed, Background
<1>6. ASSUME Midnight \/ Restart PROVE FALSE
  BY <1>6 DEF Midnight, Restart, Generating, procVars
<1> QED  BY <1>1, <1>2, <1>3, <1>4, <1>5, <1>6, NextCases

LEMMA NextDay ==
  ASSUME GatesAssumption, TypeOK, TypeOK', SlotInv, PastInv, Next, ~turnedBack', ~turnedBack => DayInv
  PROVE  DayInv'
<1>1. CASE Restart
  BY <1>1 DEF Restart, DayInv, Generating
<1>2. CASE ~Restart
  <2>1. CalendarGoesOn /\ dayDate \in Nat /\ dayDate' \in Nat
    <3>1. CalendarGoesOn
      BY <1>2, CalendarFacts
    <3> QED  BY <3>1 DEF TypeOK, GatesAssumption
  <2>2. DayInv /\ dayDate <= dayDate'
    BY <2>1 DEF CalendarGoesOn
  <2>3. ASSUME NEW p \in Procs, Generating(p)' \/ (kind' = "digest" /\ pc'[p] = "deciding")
        PROVE  Day(p)' <= dayDate'
    <3>1. pc'[p] # "out" /\ kind' = kind
      BY <2>3, FaultsGrow DEF Generating
    <3>2. CASE Generating(p) \/ (kind = "digest" /\ pc[p] = "deciding")
      <4>1. pc[p] # "out" /\ Day(p)' = Day(p)
        BY <3>1, <3>2, JobFacts DEF Generating, Day, Stayed, Came
      <4>2. Day(p) \in Nat /\ Day(p) <= dayDate
        BY <2>2, <3>2, <4>1, DayType DEF DayInv
      <4> QED  BY <2>1, <2>2, <4>1, <4>2
    <3>3. CASE ~(Generating(p) \/ (kind = "digest" /\ pc[p] = "deciding"))
      <4>1. DecideGenerate(p) \/ (LookMiss(p) /\ kind = "digest")
        BY <2>3, <3>1, <3>3, StartsFacts
      <4>2. CASE LookMiss(p) /\ kind = "digest"
        <5>1. Day(p)' = dayDate'
          BY <4>2 DEF LookMiss, Goto, Day
        <5> QED  BY <2>1, <5>1
      <4>3. CASE DecideGenerate(p)
        <5>1. kind # "digest" => dayDate' = Day(p)
          BY <4>3 DEF DecideGenerate, Roll
        <5>2. kind # "digest" /\ Day(p)' = Day(p)
          BY <3>3, <4>3 DEF DecideGenerate, Day
        <5> QED  BY <2>1, <5>1, <5>2
      <4> QED  BY <4>1, <4>2, <4>3
    <3> QED  BY <3>2, <3>3
  <2>4. ASSUME NEW p \in Procs, NEW k \in stored', pc'[p] # "out"
        PROVE  k[2] <= dayDate' \/ k[2] <= Day(p)'
    <3>1. k \in Keys /\ k[2] \in Nat
      BY KeyType DEF TypeOK
    <3>2. CASE k \in stored
      <4>1. CASE Stayed(p)
        <5>1. Day(p)' = Day(p) /\ (k[2] <= dayDate \/ k[2] <= Day(p))
          BY <2>2, <3>2, <4>1 DEF Stayed, Day, DayInv
        <5> QED  BY <2>1, <2>2, <3>1, <5>1
      <4>2. CASE Came(p)
        BY <3>2, <4>2 DEF PastInv, Came, Day
      <4> QED  BY <2>4, <4>1, <4>2, JobFacts
    <3>3. ASSUME NEW q \in Procs, Composed(q), k = job[q] PROVE k[2] <= dayDate'
      <4>1. Generating(q)
        BY <3>3, WorkFacts
      <4>2. Day(q) <= dayDate /\ k[2] = Day(q)
        BY <2>2, <3>3, <4>1 DEF DayInv, Day
      <4> QED  BY <2>1, <2>2, <3>1, <4>2
    <3>4. ASSUME NEW q \in Procs, k = job[q], dayDate' = Day(q) PROVE k[2] <= dayDate'
      BY <2>1, <3>4 DEF Day
    <3> QED  BY <3>2, <3>3, <3>4, StoredFacts
  <2> QED  BY <2>3, <2>4 DEF DayInv
<1> QED  BY <1>1, <1>2

\* What is made is made by a generator that keeps it.
LEMMA MadeGrows ==
  ASSUME TypeOK, Next, NEW k \in Keys, made'[k] # made[k]
  PROVE  \E p \in Procs : FinishKept(p) /\ k = job[p]
<1>1. PICK p \in Procs : FinishKept(p)
  BY DEF Next, Ask, LookHit, LookMiss, LoadStored, LoadNothing, NothingToMake, Decide, DecideHit,
     DecideTerminal, DecideBusy, DecideFull, DecideGenerate, GiveUp, Generator, Composed, NotComposed,
     FinishDropped, PanicRecovered, PanicSwallowed, Midnight, Restart, history
<1> QED  BY <1>1 DEF FinishKept, TypeOK

LEMMA NextMade ==
  ASSUME GatesAssumption, TypeOK, TypeOK', SlotInv, Next, DayInv, ~turnedBack', ~restarted',
         ~turnedBack /\ ~restarted => MadeInv
  PROVE  MadeInv'
<1>0. Restart => restarted'
  BY DEF Restart
<1>1. ~Restart /\ ~restarted
  BY <1>0, FaultsGrow
<1>2. CalendarGoesOn /\ MadeInv /\ dayDate \in Nat /\ dayDate' \in Nat /\ dayDate <= dayDate'
  <2>1. CalendarGoesOn
    BY <1>1, CalendarFacts
  <2>2. ~turnedBack /\ dayDate <= dayDate'
    BY <2>1 DEF CalendarGoesOn
  <2>3. dayDate \in Nat /\ dayDate' \in Nat
    BY DEF TypeOK, GatesAssumption
  <2> QED  BY <1>1, <2>1, <2>2, <2>3
<1> SUFFICES ASSUME NEW k \in Keys, made'[k] > 0
             PROVE  k[2] <= dayDate' /\ (k \in cache' \/ k[2] < dayDate')
  BY DEF MadeInv
<1>3. k[2] \in Nat
  BY KeyType
<1>4. CASE made[k] > 0
  <2>1. k[2] <= dayDate /\ (k \in cache \/ k[2] < dayDate)
    BY <1>2, <1>4 DEF MadeInv
  <2>2. k \in cache => k \in cache' \/ k[2] # dayDate'
    BY <1>2 DEF CalendarGoesOn
  <2> QED  BY <1>2, <1>3, <2>1, <2>2
<1>5. CASE ~(made[k] > 0) /\ made'[k] # made[k]
  <2>1. PICK p \in Procs : FinishKept(p) /\ k = job[p]
    BY <1>5, MadeGrows
  <2>2. Generating(p) /\ k[2] = Day(p)
    BY <2>1 DEF FinishKept, Generating, Day
  <2>3. k \in cache' /\ Day(p) <= dayDate
    BY <2>1, <2>2 DEF FinishKept, DayInv
  <2> QED  BY <1>2, <1>3, <2>2, <2>3
<1> QED  BY <1>4, <1>5

LEMMA CleanNoFault ==
  ASSUME TypeOK, PastInv, Next, ~Restart, Clean'
  PROVE  faults' = faults /\ restarted' = restarted
<1>1. /\ faults \in Nat /\ faults' \in Nat /\ faults <= faults' /\ restarted' = restarted
  BY FaultsGrow
<1>2. CASE restarted
  <2>1. faults > 0 /\ faults' <= 1
    BY <1>1, <1>2 DEF PastInv, Clean
  <2> QED  BY <1>1, <2>1
<1>3. CASE ~restarted
  <2>1. faults' <= 0
    BY <1>1, <1>3 DEF Clean
  <2> QED  BY <1>1, <2>1
<1> QED  BY <1>2, <1>3

\* The keeping are those that composed, or material events that go on without a text.
LEMMA NextClean ==
  ASSUME GatesAssumption, TypeOK, SlotInv, PastInv, Next, Clean', Clean => CleanInv
  PROVE  Clean /\ CleanInv'
<1>0. /\ faults \in Nat /\ faults' \in Nat /\ faults <= faults' /\ kind' = kind
      /\ Restart \/ restarted' = restarted
  BY FaultsGrow
<1>1. Clean
  <2>1. CASE Restart
    <3>1. faults' = faults + 1 /\ faults' <= 1
      BY <2>1 DEF Restart, Clean
    <3> QED  BY <1>0, <3>1 DEF Clean
  <2>2. CASE restarted' = restarted
    BY <1>0, <2>2 DEF Clean
  <2> QED  BY <1>0, <2>1, <2>2
<1>2. CleanInv /\ stored \subseteq stored'
  <2>1. stored \subseteq stored'
    BY DEF Next, Ask, LookHit, LookMiss, LoadStored, LoadNothing, NothingToMake, Decide, DecideHit,
     DecideTerminal, DecideBusy, DecideFull, DecideGenerate, GiveUp, Generator, Composed, NotComposed,
     FinishKept, FinishDropped, PanicRecovered, PanicSwallowed, Midnight, Restart
  <2> QED  BY <1>1, <2>1
<1>3. ASSUME NEW k \in Keys, made'[k] > 0 PROVE k \in stored'
  <2>1. CASE made'[k] = made[k]
    BY <1>2, <1>3, <2>1 DEF CleanInv
  <2>2. CASE made'[k] # made[k]
    BY <1>2, <2>2, MadeGrows DEF CleanInv, FinishKept
  <2> QED  BY <2>1, <2>2
<1>4. ASSUME NEW p \in Procs, pc'[p] = "keeping" PROVE job'[p] \in stored'
  <2>1. Stayed(p)
    BY <1>4, JobFacts DEF Came
  <2>2. CASE pc[p] = "keeping"
    BY <1>2, <2>1, <2>2 DEF Stayed, CleanInv
  <2>3. CASE Composed(p)
    <3>1. faults' = faults
      <4>1. pc'[p] = "keeping"
        BY <1>4
      <4>2. ~Restart
        BY <4>1 DEF Restart
      <4> QED  BY <4>2, CleanNoFault
    <3>2. stored' = stored \cup {job[p]}
      BY <1>0, <1>1, <2>3, <3>1 DEF Composed, Clean
    <3> QED  BY <2>1, <3>2 DEF Stayed
  <2>4. pc[p] = "keeping" \/ Composed(p)
    <3>1. ASSUME NEW q \in Procs, Idle(q) PROVE pc[p] = "keeping"
      BY <1>4, <3>1, IdleFacts DEF Undisturbed, Generating
    <3>2. ASSUME NEW q \in Procs, DecideGenerate(q) PROVE pc[p] = "keeping"
      BY <1>4, <3>2, GenerateFacts DEF Undisturbed, Generating
    <3>3. ASSUME NEW q \in Procs, Composed(q) \/ NotComposed(q)
          PROVE pc[p] = "keeping" \/ Composed(p)
      <4>1. CASE p = q
        BY <1>1, <1>4, <3>3, <4>1 DEF NotComposed, TypeOK, Clean
      <4>2. CASE p # q
        BY <1>4, <3>3, <4>2, WorkFacts DEF Undisturbed, Generating
      <4> QED  BY <4>1, <4>2
    <3>4. ASSUME NEW q \in Procs, Ends(q) PROVE pc[p] = "keeping"
      BY <1>4, <3>4, EndFacts DEF Undisturbed, Generating
    <3>5. ASSUME NEW q \in Procs, PanicSwallowed(q) PROVE pc[p] = "keeping"
      BY <1>4, <3>5, PanicFacts DEF Undisturbed, Generating
    <3>6. ASSUME Midnight \/ Restart PROVE pc[p] = "keeping"
      BY <1>4, <3>6 DEF Midnight, Restart, procVars
    <3> QED  BY <3>1, <3>2, <3>3, <3>4, <3>5, <3>6, NextCases
  <2> QED  BY <2>2, <2>3, <2>4
<1> QED  BY <1>1, <1>3, <1>4 DEF CleanInv

LEMMA NextSeen ==
  ASSUME GatesAssumption, TypeOK, TypeOK', SlotInv, PastInv, DayInv, Next, ~turnedBack', Clean',
         ~turnedBack /\ Clean => SeenInv
  PROVE  SeenInv'
<1>1. CASE Restart
  BY <1>1 DEF Restart, SeenInv
<1>2. CASE ~Restart
  <2>1. /\ CalendarGoesOn /\ faults' = faults /\ restarted' = restarted /\ kind' = kind
        /\ kind = "summary"
    BY <1>2, CalendarFacts, CleanNoFault, FaultsGrow DEF Clean
  <2>2. SeenInv /\ ~turnedBack /\ dayDate <= dayDate' /\ dayDate \in Nat /\ dayDate' \in Nat
    <3>1. dayDate \in Nat /\ dayDate' \in Nat
      BY DEF TypeOK, GatesAssumption
    <3>2. ~turnedBack /\ dayDate <= dayDate'
      BY <2>1 DEF CalendarGoesOn
    <3>3. Clean
      BY <2>1 DEF Clean
    <3> QED  BY <3>1, <3>2, <3>3
  <2> SUFFICES ASSUME NEW p \in Procs, pc'[p] = "deciding", job'[p] \in stored'
               PROVE  \/ job'[p] \in cache' \/ Day(p)' < dayDate'
                      \/ \E q \in Procs : pc'[q] = "keeping" /\ job'[q] = job'[p]
    BY DEF SeenInv
  <2>3. Stayed(p)
    BY <2>1, JobFacts DEF Came
  <2> DEFINE k == job[p]
  <2>4. k \in Keys /\ k[2] = Day(p) /\ k[2] \in Nat /\ job'[p] = k /\ Day(p)' = k[2]
    BY <2>3, DayType DEF Stayed, Day
  <2>5. pc[p] = "deciding" \/ (LoadNothing(p) /\ k \notin stored)
    <3> USE DEF TypeOK
    <3>1. ASSUME NEW q \in Procs, Idle(q) PROVE pc[p] = "deciding" \/ (LoadNothing(p) /\ k \notin stored)
      <4>1. CASE p = q
        <5>1. pc[p] = "deciding" \/ LoadNothing(p)
          BY <2>1, <2>3, <3>1, <4>1 DEF Idle, Asks, Ask, Looks, LookHit, LookMiss, LoadStored,
             NothingToMake, GiveUp, Declines, DecideHit, DecideTerminal, DecideBusy, DecideFull, Return,
             Goto, Stayed
        <5>2. LoadNothing(p) /\ k \in stored => faults' = faults + 1
          BY DEF LoadNothing
        <5>3. faults + 1 # faults
          OBVIOUS
        <5> QED  BY <2>1, <5>1, <5>2, <5>3
      <4>2. CASE p # q
        BY <3>1, <4>2 DEF Idle, Asks, Ask, Looks, LookHit, LookMiss, LoadStored, LoadNothing,
           NothingToMake, GiveUp, Declines, DecideHit, DecideTerminal, DecideBusy, DecideFull, Return, Goto
      <4> QED  BY <4>1, <4>2
    <3>2. ASSUME NEW q \in Procs, \/ DecideGenerate(q) \/ Composed(q) \/ NotComposed(q)
                                  \/ PanicSwallowed(q)
          PROVE  pc[p] = "deciding"
      BY <3>2 DEF DecideGenerate, Composed, NotComposed, PanicSwallowed, Return, Goto
    <3>3. ASSUME NEW q \in Procs, Ends(q) PROVE pc[p] = "deciding"
      <4>1. pc[p] = "deciding" \/ pc[p] = "waiting"
        BY <3>3 DEF Ends, FinishKept, FinishDropped, PanicRecovered, Release, Wake
      <4> QED  BY <2>1, <4>1 DEF PastInv, Background
    <3>4. ASSUME Midnight PROVE pc[p] = "deciding"
      BY <3>4 DEF Midnight, procVars
    <3> QED  BY <1>2, <3>1, <3>2, <3>3, <3>4, NextCases
  <2>6. CASE k \in stored
    <3>1. \/ k \in cache \/ k[2] < dayDate
          \/ \E q \in Procs : pc[q] = "keeping" /\ job[q] = k
      BY <2>2, <2>4, <2>5, <2>6 DEF SeenInv
    <3>2. CASE k \in cache
      <4>1. CASE k \in cache'
        BY <2>4, <4>1
      <4>2. CASE k \notin cache'
        <5>1. PICK q \in Procs : pc[q] # "out" /\ dayDate' = Day(q) /\ k[2] # dayDate'
          BY <2>1, <3>2, <4>2 DEF CalendarGoesOn
        <5>2. k[2] <= dayDate \/ k[2] <= Day(q)
          BY <2>6, <5>1 DEF DayInv
        <5> QED  BY <2>2, <2>4, <5>1, <5>2
      <4> QED  BY <4>1, <4>2
    <3>3. CASE k[2] < dayDate
      BY <2>2, <2>4, <3>3
    <3>4. ASSUME NEW q \in Procs, pc[q] = "keeping", job[q] = k
          PROVE  (pc'[q] = "keeping" /\ job'[q] = k) \/ k \in cache'
      <4>0. Generating(q)
        BY <3>4 DEF Generating
      <4>1. ASSUME NEW r \in Procs, Idle(r) PROVE pc'[q] = "keeping" /\ job'[q] = k
        BY <3>4, <4>0, <4>1, IdleFacts DEF Undisturbed
      <4>2. ASSUME NEW r \in Procs, DecideGenerate(r) PROVE pc'[q] = "keeping" /\ job'[q] = k
        BY <3>4, <4>0, <4>2, GenerateFacts DEF Undisturbed
      <4>3. ASSUME NEW r \in Procs, Composed(r) \/ NotComposed(r)
            PROVE  pc'[q] = "keeping" /\ job'[q] = k
        <5>1. q # r
          BY <3>4, <4>3 DEF Composed, NotComposed
        <5> QED  BY <3>4, <4>0, <4>3, <5>1, WorkFacts DEF Undisturbed
      <4>4. ASSUME NEW r \in Procs, Ends(r) \/ PanicSwallowed(r), q # r
            PROVE  pc'[q] = "keeping" /\ job'[q] = k
        BY <3>4, <4>0, <4>4, EndFacts, PanicFacts DEF Undisturbed
      <4>5. ASSUME Ends(q) \/ PanicSwallowed(q) PROVE k \in cache'
        BY <3>4, <4>5 DEF Ends, FinishKept, FinishDropped, PanicRecovered, PanicSwallowed
      <4>6. ASSUME Midnight PROVE pc'[q] = "keeping" /\ job'[q] = k
        BY <3>4, <4>6 DEF Midnight, procVars
      <4> HIDE DEF k
      <4> QED  BY <1>2, <4>1, <4>2, <4>3, <4>4, <4>5, <4>6, NextCases
    <3> QED  BY <2>4, <3>1, <3>2, <3>3, <3>4
  <2>7. CASE k \notin stored
    <3>1. ASSUME NEW q \in Procs, Composed(q), k = job[q] PROVE pc'[q] = "keeping" /\ job'[q] = k
      BY <3>1 DEF Composed, Goto, TypeOK
    <3> QED  BY <2>4, <2>7, <3>1, StoredFacts
  <2> QED  BY <2>6, <2>7
<1> QED  BY <1>1, <1>2

LEMMA ExcusedStays ==
  ASSUME TypeOK, Next, Excused
  PROVE  Excused'
<1>1. /\ faults \in Nat /\ faults' \in Nat /\ faults <= faults' /\ kind' = kind
      /\ Restart \/ restarted' = restarted
  BY FaultsGrow
<1>2. Restart => restarted'
  BY DEF Restart
<1>3. turnedBack => turnedBack'
  BY DEF Next, Ask, LookHit, LookMiss, LoadStored, LoadNothing, NothingToMake, Decide, DecideHit,
     DecideTerminal, DecideBusy, DecideFull, DecideGenerate, GiveUp, Generator, Composed, NotComposed,
     FinishKept, FinishDropped, PanicRecovered, PanicSwallowed, Midnight, Restart, Roll, Stay, gateVars,
     history
<1>4. faults > 1 => faults' > 1
  BY <1>1
<1> QED  BY <1>1, <1>2, <1>3, <1>4 DEF Excused

LEMMA NextFresh ==
  ASSUME GatesAssumption, TypeOK, TypeOK', SlotInv, GateInv, PastInv, Next, FreshInv,
         ~turnedBack => DayInv, ~turnedBack /\ ~restarted => MadeInv,
         Clean => CleanInv, ~turnedBack /\ Clean => SeenInv
  PROVE  FreshInv'
<1> SUFFICES ASSUME NEW p \in Procs, Generating(p)', ~Excused'
             PROVE  made'[job'[p]] = 0
  BY DEF FreshInv
<1>1. ~Excused
  BY ExcusedStays
<1>2. CASE Generating(p)
  <2>1. made[job[p]] = 0 /\ job'[p] = job[p] /\ job[p] \in Keys
    BY <1>1, <1>2, JobFacts, DayType DEF FreshInv, Generating, Stayed, Came
  <2>2. ASSUME made'[job[p]] # made[job[p]] PROVE FALSE
    <3>1. PICK k \in Keys : k = job[p]
      BY <2>1
    <3>2. PICK q \in Procs : FinishKept(q) /\ k = job[q]
      BY <2>2, <3>1, MadeGrows
    <3>3. Generating(q) /\ ~Generating(q)'
      BY <3>2, EndFacts DEF Ends
    <3>4. q = p
      BY <1>2, <3>1, <3>2, <3>3 DEF GateInv
    <3> QED  BY <3>3, <3>4
  <2> QED  BY <2>1, <2>2
<1>3. CASE ~Generating(p)
  <2>1. DecideGenerate(p)
    <3>1. CASE kind = "digest" /\ pc[p] = "deciding"
      <4>1. ASSUME NEW q \in Procs, Idle(q) PROVE FALSE
        BY <1>3, <4>1, IdleFacts DEF Undisturbed
      <4>2. ASSUME NEW q \in Procs, DecideGenerate(q) PROVE q = p
        BY <1>3, <4>2, GenerateFacts DEF Undisturbed
      <4>3. ASSUME NEW q \in Procs, Composed(q) \/ NotComposed(q) PROVE FALSE
        BY <1>3, <4>3, WorkFacts DEF Undisturbed
      <4>4. ASSUME NEW q \in Procs, Ends(q) \/ PanicSwallowed(q) PROVE FALSE
        BY <1>3, <4>4, EndFacts, PanicFacts DEF Undisturbed
      <4>5. ASSUME Midnight \/ Restart PROVE FALSE
        BY <1>3, <4>5 DEF Midnight, Restart, Generating, procVars
      <4> QED  BY <4>1, <4>2, <4>3, <4>4, <4>5, NextCases
    <3>2. CASE ~(kind = "digest" /\ pc[p] = "deciding")
      <4>1. DecideGenerate(p) \/ LookMiss(p)
        BY <1>3, <3>2, StartsFacts
      <4>2. LookMiss(p) => ~Generating(p)'
        BY DEF LookMiss, Goto, Generating, TypeOK
      <4> QED  BY <4>1, <4>2
    <3> QED  BY <3>1, <3>2
  <2> DEFINE k == job[p]
  <2>2. /\ k \in Keys /\ k[2] = Day(p) /\ k[2] \in Nat /\ job'[p] = k /\ k \notin cache /\ k \notin inflight
        /\ pc[p] = "deciding" /\ made' = made
    BY <2>1, GenerateFacts, DayType DEF Day
  <2>3. ~turnedBack /\ ~(Day(p) < dayDate)
    <3>1. turnedBack' = (turnedBack \/ Day(p) < dayDate)
      BY <2>1 DEF DecideGenerate, Roll
    <3> QED  BY <3>1 DEF Excused
  <2>4. ASSUME made[k] > 0 PROVE FALSE
    <3>1. CASE ~restarted
      BY <2>2, <2>3, <2>4, <3>1 DEF MadeInv
    <3>2. CASE restarted
      <4>1. Clean
        <5>1. kind = "summary" /\ ~(faults > 1) /\ faults \in Nat
          BY <1>1, <3>2, FaultsGrow DEF Excused
        <5> QED  BY <3>2, <5>1 DEF Clean
      <4>2. k \in stored
        BY <2>2, <2>4, <4>1 DEF CleanInv
      <4>3. \E q \in Procs : pc[q] = "keeping" /\ job[q] = k
        BY <2>2, <2>3, <4>1, <4>2 DEF SeenInv
      <4> QED  BY <2>2, <4>3 DEF GateInv, Generating
    <3> QED  BY <3>1, <3>2
  <2>5. made[k] \in Nat
    <3>1. \A x \in Keys : made[x] \in Nat
      BY DEF TypeOK
    <3> HIDE DEF k
    <3> QED  BY <2>2, <3>1
  <2> QED  BY <2>2, <2>4, <2>5
<1> QED  BY <1>2, <1>3

-----------------------------------------------------------------------------
(* The invariant, and what follows from it. *)

IInv ==
  /\ TypeOK /\ SlotInv /\ GateInv /\ PastInv /\ FreshInv /\ MadeOnce
  /\ ~turnedBack => BudgetInv /\ DayInv
  /\ ~turnedBack /\ ~restarted => MadeInv
  /\ Clean => CleanInv
  /\ ~turnedBack /\ Clean => SeenInv

LEMMA InitInv ==
  ASSUME GatesAssumption, Init
  PROVE  IInv
<1>1. TypeOK
  BY InitTypes
<1>2. SlotInv /\ GateInv /\ PastInv /\ FreshInv /\ DayInv /\ SeenInv
  BY DEF Init, SlotInv, GateInv, PastInv, FreshInv, DayInv, SeenInv, Generating
<1>3. MadeOnce /\ MadeInv /\ CleanInv
  BY DEF Init, MadeOnce, MadeInv, CleanInv
<1>4. BudgetInv
  <2>1. dayCount = 0 /\ dayDate = 0 /\ Cap \in Nat
    BY DEF Init, GatesAssumption
  <2>2. \A d \in 1..MaxDay : Held(d) = {} /\ spent[d] = 0 /\ stray[d] = 0 /\ d > 0
    BY DEF Init, Held, Generating
  <2>3. Cardinality({}) = 0
    BY FS_EmptySet
  <2> HIDE DEF Held
  <2> QED  BY <2>1, <2>2, <2>3 DEF BudgetInv, Ledger, Allowance
<1> QED  BY <1>1, <1>2, <1>3, <1>4 DEF IInv

LEMMA NextMadeOnce ==
  ASSUME TypeOK, TypeOK', FreshInv, MadeOnce, Next
  PROVE  MadeOnce'
<1> SUFFICES ASSUME NEW k \in Keys, made'[k] > 1, ~Excused' PROVE FALSE
  BY DEF MadeOnce, Excused
<1>1. ~Excused
  BY ExcusedStays
<1>2. CASE made'[k] = made[k]
  BY <1>1, <1>2 DEF MadeOnce, Excused
<1>3. CASE made'[k] # made[k]
  <2>1. PICK p \in Procs : FinishKept(p) /\ k = job[p]
    BY <1>3, MadeGrows
  <2>2. made[k] = 0
    BY <1>1, <2>1 DEF FreshInv, FinishKept, Generating
  <2>3. made'[k] = 1
    BY <2>1, <2>2 DEF FinishKept, TypeOK
  <2> QED  BY <2>3
<1> QED  BY <1>2, <1>3

LEMMA NextInv ==
  ASSUME GatesAssumption, IInv, [Next]_vars
  PROVE  IInv'
<1>1. CASE Next
  <2> USE <1>1 DEF IInv
  <2>1. TypeOK' /\ SlotInv'
    BY NextTypes, NextSlot
  <2>2. GateInv' /\ PastInv'
    BY <2>1, NextGate, NextPast
  <2>3. FreshInv' /\ MadeOnce'
    BY <2>1, NextFresh, NextMadeOnce
  <2>4. ASSUME ~turnedBack' PROVE BudgetInv' /\ DayInv'
    BY <2>1, <2>4, NextBudget, NextDay
  <2>5. turnedBack => turnedBack'
    BY <2>1 DEF Next, Ask, LookHit, LookMiss, LoadStored, LoadNothing, NothingToMake, Decide, DecideHit,
     DecideTerminal, DecideBusy, DecideFull, DecideGenerate, GiveUp, Generator, Composed, NotComposed,
     FinishKept, FinishDropped, PanicRecovered, PanicSwallowed, Midnight, Restart, Roll, Stay, gateVars,
     history
  <2>6. ASSUME ~turnedBack', ~restarted' PROVE MadeInv'
    BY <2>1, <2>5, <2>6, NextMade
  <2>7. ASSUME Clean' PROVE CleanInv'
    BY <2>1, <2>7, NextClean
  <2>8. ASSUME ~turnedBack', Clean' PROVE SeenInv'
    BY <2>1, <2>5, <2>8, NextSeen
  <2> QED  BY <2>1, <2>2, <2>3, <2>4, <2>6, <2>7, <2>8
<1>2. CASE UNCHANGED vars
  BY <1>2 DEF IInv, TypeOK, SlotInv, GateInv, PastInv, FreshInv, MadeOnce, BudgetInv, Ledger, Allowance,
     Held, DayInv, MadeInv, Clean, CleanInv, SeenInv, Excused, Generating, Day, vars, gateVars, procVars,
     bounds, history
<1> QED  BY <1>1, <1>2

LEMMA InvBudget ==
  ASSUME GatesAssumption, IInv
  PROVE  BudgetKept
<1>1. ASSUME ~turnedBack, NEW d \in 1..MaxDay
      PROVE  spent[d] + Cardinality({p \in Procs : Generating(p) /\ slot[p] /\ Day(p) = d})
               <= Cap + stray[d]
  <2>1. {p \in Procs : Generating(p) /\ slot[p] /\ Day(p) = d} = Held(d)
    BY DEF Held, IInv, TypeOK
  <2>2. Ledger(d) /\ dayCount <= Cap
    BY <1>1 DEF IInv, BudgetInv
  <2>3. /\ spent[d] \in Nat /\ stray[d] \in Nat /\ Cap \in Nat /\ dayCount \in Int
        /\ Cardinality(Held(d)) \in Nat
    BY LedgerTypes DEF IInv
  <2>4. Allowance(d) \in {0, dayCount, Cap}
    BY DEF Allowance
  <2> HIDE DEF Held
  <2>5. spent[d] + Cardinality(Held(d)) <= Cap + stray[d]
    BY <2>2, <2>3, <2>4 DEF Ledger
  <2> QED  BY <2>1, <2>5
<1> QED  BY <1>1 DEF BudgetKept, DailyCapHolds, IInv

-----------------------------------------------------------------------------
\* The five gates of internal/api are well typed, ...
THEOREM GatesTypes == ASSUME GatesAssumption PROVE Spec => []TypeOK
<1>1. IInv => TypeOK
  BY DEF IInv
<1> QED  BY InitInv, NextInv, <1>1, PTL DEF Spec

\* ... are single flights: no key is generated by two at once, and what takes a key
\* away is its generator or a restart, ...
THEOREM GatesImplementSingleFlight == ASSUME GatesAssumption PROVE Spec => GatesAreSingleFlight
<1>1. Init => SF!Init
  BY DEF Init, SF!Init, Generating
<1>2. IInv /\ IInv' /\ [Next]_vars => [SF!Next]_flightOf
  BY GateRefines DEF IInv
<1> QED  BY InitInv, NextInv, <1>1, <1>2, PTL DEF Spec, GatesAreSingleFlight, SF!Spec, flightOf

\* ... and keep the day's budget: the texts of a day stay within the cap and the refunds
\* that came to it from another day, and none is made twice while it is kept.
THEOREM GatesBudget == ASSUME GatesAssumption PROVE Spec => []BudgetKept
BY InitInv, NextInv, InvBudget, PTL DEF Spec
=============================================================================
