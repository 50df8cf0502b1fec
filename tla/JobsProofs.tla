----------------------------- MODULE JobsProofs ------------------------------
(***************************************************************************)
(* Proofs about the background jobs.                                       *)
(*                                                                         *)
(* Alerts, for any alerts, tickers and bounds, on both stores: an alert is *)
(* stamped at most once for each time it is armed.  A listed alert may be  *)
(* deleted before it is stamped, and a stamped one re-armed while the      *)
(* cycle goes on.  What saves the memory store, which stamps any row it    *)
(* finds, is that the evaluator is the only one to stamp: what it has      *)
(* listed and not looked at yet cannot have fired.                         *)
(*                                                                         *)
(* Briefing, for every number of days, faults and attempts: a day is       *)
(* posted and generated a bounded number of times.  What carries the       *)
(* argument is an order: a day that was posted is never newer than the one *)
(* being sent, which is never newer than the one stored, nor that than the *)
(* ET day, so what the two goroutines forget when the day changes is never *)
(* asked for again.                                                        *)
(*                                                                         *)
(* Boards, for any sources: a scan that fails leaves the board as it was,  *)
(* apart from the kinds that blank it, and takes nothing back.             *)
(*                                                                         *)
(* InsiderBuys, for any filings, window and backfill: a purchase that was  *)
(* fetched is stored, or its mark was not written, or the process died     *)
(* between the two; and the board is not emptied by a sweep that works.    *)
(*                                                                         *)
(* Disclosures, for any reports: what a PDF that was read discloses is     *)
(* shown, all of it, under the one name the newest listing of it gives.    *)
(***************************************************************************)
EXTENDS Alerts, Briefing, Integers, FiniteSets, SequenceTheorems, FiniteSetTheorems,
  WellFoundedInduction, TLAPS

CONSTANTS
  Sources, Watched, Newest, MaxChanges,        \* Boards
  Filings, Purchases, DayOf, Backfill, Window, \* InsiderBuys
  Rows, PdfOf, Scan, Paper, SlugOf, Universe, Bars, SPY, YearOf, Thin, MaxRows, Budget, Week,
  LastDay, Gaps, MaxOutages                    \* Disclosures
VARIABLES
  scan, world, down, step, toWalk, failed, found, served, changes, \* Boards
  date4, filed, secUp, alpacaUp, marked, saved, sweep, booting, days, refs, seen, batch,
  shares, board, sweepFaults, lostBuys,                            \* InsiderBuys
  utcDay, clerkUp, directory, extractor, listing, unread, credit, tried, parsed, dropped, gated,
  snapshot, request, kept, outages                                 \* Disclosures

Scans == INSTANCE Boards WITH kind <- scan, pc <- step, todo <- toWalk, board <- served
Buys == INSTANCE InsiderBuys WITH
  today <- date4, stored <- saved, pc <- sweep, faults <- sweepFaults, lost <- lostBuys
Congress == INSTANCE Disclosures WITH date <- utcDay

\* The alerts the evaluator still has to look at or to stamp.
Pending == todo \cup ({hot} \ {None})

RowType ==
  /\ row \in [AlertIds -> {"none", "armed", "fired", "gone"}]
  /\ armings \in [AlertIds -> Nat] /\ stamps \in [AlertIds -> Nat]
  /\ todo \subseteq AlertIds /\ hot \in AlertIds \cup {None}

\* An alert not made yet was never stamped.
NoneIsFresh == \A a \in AlertIds : row[a] = "none" => stamps[a] = 0

\* An armed alert has a stamp to come, and a pending one is armed or gone.
ArmedIsOwed == \A a \in AlertIds : row[a] = "armed" => stamps[a] < armings[a]
PendingIsUnfired == \A a \in AlertIds : a \in Pending => row[a] \in {"armed", "gone"}
IdleIsDone == ~cycle => hot = None
LookedIsDone == hot # None => hot \notin todo

IInv == RowType /\ OneShot /\ NoneIsFresh /\ ArmedIsOwed /\ PendingIsUnfired /\ LookedIsDone /\ IdleIsDone

\* An action that leaves the alerts and the evaluator's lists alone.
LEMMA Untouched ==
  ASSUME IInv, UNCHANGED <<tableVars, todo, hot, cycle>>
  PROVE  IInv'
BY DEF IInv, RowType, OneShot, NoneIsFresh, ArmedIsOwed, PendingIsUnfired, LookedIsDone, IdleIsDone, Pending, tableVars

LEMMA InitInv == Init => IInv
BY DEF Init, IInv, RowType, OneShot, NoneIsFresh, ArmedIsOwed, PendingIsUnfired, LookedIsDone, IdleIsDone, Pending

LEMMA StepInv == IInv /\ [Next]_alertVars => IInv'
<1>. SUFFICES ASSUME IInv, [Next]_alertVars PROVE IInv'
  OBVIOUS
<1>. USE DEF IInv, RowType, OneShot, NoneIsFresh, ArmedIsOwed, PendingIsUnfired, LookedIsDone, IdleIsDone, Pending
<1>1. ASSUME NEW a \in AlertIds, Post(a) PROVE IInv'
  BY <1>1 DEF Post, evalVars
<1>2. ASSUME NEW a \in AlertIds, Delete(a) PROVE IInv'
  BY <1>2 DEF Delete, evalVars
<1>3. ASSUME NEW a \in AlertIds, Reactivate(a) PROVE IInv'
  <2>1. /\ row' = [row EXCEPT ![a] = "armed"] /\ armings' = [armings EXCEPT ![a] = @ + 1]
        /\ stamps' = stamps /\ todo' = todo /\ hot' = hot /\ cycle' = cycle
    BY <1>3 DEF Reactivate, evalVars
  <2>2. armings'[a] = armings[a] + 1 /\ stamps[a] <= armings[a]
    BY <2>1
  <2>3. RowType' /\ LookedIsDone' /\ IdleIsDone'
    BY <2>1
  <2>4. ASSUME NEW b \in AlertIds
        PROVE  stamps'[b] <= armings'[b] /\ (row'[b] = "armed" => stamps'[b] < armings'[b])
    <3>1. CASE b = a
      BY <2>1, <2>2, <3>1
    <3>2. CASE b # a
      BY <2>1, <3>2
    <3>. QED BY <3>1, <3>2
  <2>5. ASSUME NEW b \in AlertIds
        PROVE  /\ row'[b] = "none" => stamps'[b] = 0
               /\ b \in Pending' => row'[b] \in {"armed", "gone"}
    <3>1. row'[b] = (IF b = a THEN "armed" ELSE row[b])
      BY <2>1
    <3>2. Pending' = Pending /\ stamps'[b] = stamps[b]
      BY <2>1
    <3>3. (row[b] = "none" => stamps[b] = 0) /\ (b \in Pending => row[b] \in {"armed", "gone"})
      OBVIOUS
    <3>. HIDE DEF IInv, RowType, OneShot, NoneIsFresh, ArmedIsOwed, PendingIsUnfired, Pending
    <3>. QED BY <3>1, <3>2, <3>3
  <2>. QED BY <2>3, <2>4, <2>5
<1>4. CASE StartCycle
  BY <1>4 DEF StartCycle, Listed, tableVars
<1>5. ASSUME NEW a \in AlertIds, Look(a) PROVE IInv'
  BY <1>5 DEF Look, tableVars
<1>6. CASE MarkFails
  BY <1>6 DEF MarkFails, tableVars
\* A stamp goes to an alert that was owed one, on either store.
<1>7. CASE Mark
  BY <1>7 DEF Mark
<1>8. CASE EndCycle
  BY <1>8 DEF EndCycle, tableVars
<1>9. ASSUME NEW t \in Tickers, Change(t) PROVE IInv'
  BY <1>9, Untouched DEF Change, tableVars, evalVars
<1>10. CASE UNCHANGED alertVars
  BY <1>10, Untouched DEF alertVars, evalVars
<1>. QED
  BY <1>1, <1>2, <1>3, <1>4, <1>5, <1>6, <1>7, <1>8, <1>9, <1>10 DEF Next, Evaluator

\* An alert is one-shot: it is stamped at most once for each time it is armed,
\* whatever the user does between the listing and the stamp (ingest/alerts.go:
\* evaluate; MarkAlertTriggered of both stores).
THEOREM AlertsAreOneShot == Spec => []OneShot
<1>1. IInv => OneShot
  BY DEF IInv
<1>. QED BY InitInv, StepInv, <1>1, PTL DEF Spec

-----------------------------------------------------------------------------
(* The briefing of the day. *)

BriefConstants ==
  /\ HasIndices \in BOOLEAN /\ MaxAttempts \in Nat \ {0}
  /\ MaxDay \in Nat \ {0} /\ MaxSendFaults \in Nat

\* What the process may have generated of one day before its last restart.
Before == MaxAttempts * restarts

BriefTypes ==
  /\ day \in Days /\ genDay \in Nat /\ date \in Nat /\ tries \in Nat
  /\ sending \in Nat /\ lastPosted \in Nat
  /\ restarts \in Nat /\ Before \in Nat
  /\ gens \in [Days -> Nat] /\ posts \in [Days -> Nat] /\ lost \in [Days -> Nat]

Order ==
  /\ lastPosted <= date /\ date <= day
  /\ send \in Sends => sending \in Days /\ lastPosted < sending /\ sending <= date
  /\ gen = "composing" => genDay \in Days /\ date <= genDay /\ genDay <= day

PostInv ==
  \A d \in Days : posts[d] <= restarts + lost[d] + (IF d <= lastPosted THEN 1 ELSE 0)

GenInv ==
  /\ \A d \in Days : gens[d] <= Before + (IF d <= date THEN MaxAttempts ELSE 0)
  /\ date = day => gens[date] <= Before + tries
  /\ gen = "composing" /\ date = genDay =>
       gens[date] <= Before + tries /\ tries < MaxAttempts

BriefInv == BriefTypes /\ Order /\ PostInv /\ GenInv

-----------------------------------------------------------------------------

\* One more restart allows MaxAttempts more texts of each day.
LEMMA AllowanceGrows ==
  ASSUME NEW m \in Nat, NEW r \in Nat
  PROVE  /\ m * r \in Nat /\ m * (r + 1) = m * r + m /\ m * (1 + r) = m * r + m
         /\ m * 0 = 0
  OBVIOUS

LEMMA BriefInvInit ==
  ASSUME BriefConstants PROVE BriefInit => BriefInv
  <1>1. SUFFICES ASSUME BriefInit PROVE BriefInv
    OBVIOUS
  <1>2. Before = 0
    BY <1>1, AllowanceGrows DEF BriefConstants, BriefInit, Before
  <1>3. BriefTypes
    BY <1>1, <1>2 DEF BriefConstants, BriefInit, BriefTypes, Days
  <1>4. Order /\ PostInv /\ GenInv
    BY <1>1, <1>2 DEF BriefConstants, BriefInit, Order, PostInv, GenInv, Days, Sends
  <1>. QED BY <1>3, <1>4 DEF BriefInv

\* Each step keeps the invariant.
LEMMA BriefInvNext ==
  ASSUME BriefConstants, BriefInv, [BriefNext]_briefVars PROVE BriefInv'
  <1>0. BriefTypes /\ Order /\ PostInv /\ GenInv
    BY DEF BriefInv
  <1>1. restarts' = restarts => Before' = Before
    BY DEF Before
  <1>a. "idle" \notin Sends
    BY DEF Sends
  <1>2. CASE TimePasses
    <2>1. Before' = Before /\ UNCHANGED <<cacheVars, castVars, gens, posts, lost, restarts>>
      BY <1>1, <1>2 DEF TimePasses
    <2>2. day' \in Days /\ (day' = day \/ day' = day + 1)
      BY <1>0, <1>2 DEF TimePasses, BriefTypes, Days, BriefConstants
    <2>3. BriefTypes' /\ Order'
      BY <1>0, <2>1, <2>2 DEF BriefTypes, Order, Days, cacheVars, castVars
    <2>4. PostInv'
      BY <1>0, <2>1 DEF PostInv, castVars
    <2>5. GenInv'
      BY <1>0, <2>1, <2>2 DEF GenInv, BriefTypes, Order, Days, cacheVars
    <2>. QED BY <2>3, <2>4, <2>5 DEF BriefInv
  <1>3. CASE WarmUp \/ UNCHANGED briefVars \/ GenerationFails
    <2>1. /\ Before' = Before /\ (gen' = gen \/ gen' = "idle")
          /\ UNCHANGED <<day, genDay, date, tries, castVars, gens, posts, lost, restarts>>
      BY <1>1, <1>3 DEF WarmUp, GenerationFails, briefVars, cacheVars
    <2>2. BriefTypes' /\ Order'
      BY <1>0, <2>1 DEF BriefTypes, Order, castVars
    <2>3. PostInv' /\ GenInv'
      BY <1>0, <2>1 DEF PostInv, GenInv, castVars
    <2>. QED BY <2>2, <2>3 DEF BriefInv
  <1>4. CASE StartGenerating
    <2>1. /\ Before' = Before /\ genDay' = day /\ tries' = (IF date # day THEN 0 ELSE tries)
          /\ UNCHANGED <<day, date, castVars, gens, posts, lost, restarts>>
      BY <1>1, <1>4 DEF StartGenerating
    <2>2. BriefTypes' /\ Order'
      BY <1>0, <2>1 DEF BriefTypes, Order, Days, castVars
    <2>3. PostInv'
      BY <1>0, <2>1 DEF PostInv, castVars
    \* If the text of the day is to be replaced, an attempt is left.
    <2>4. date = day => tries < MaxAttempts
      BY <1>0, <1>4 DEF StartGenerating, Locked, BriefTypes, BriefConstants
    <2>5. GenInv'
      BY <1>0, <2>1, <2>4 DEF GenInv, BriefTypes
    <2>. QED BY <2>2, <2>3, <2>5 DEF BriefInv
  <1>5. CASE Generated
    <2>1. /\ Before' = Before /\ gen' = "idle" /\ date' = genDay
          /\ tries' = (IF date # genDay THEN 0 ELSE tries) + 1
          /\ gens' = [gens EXCEPT ![genDay] = @ + 1]
          /\ UNCHANGED <<day, genDay, castVars, posts, lost, restarts>>
      BY <1>1, <1>5 DEF Generated
    <2>2. genDay \in Days /\ date <= genDay /\ genDay <= day
      BY <1>0, <1>5 DEF Generated, Order
    <2>3. BriefTypes' /\ Order'
      BY <1>0, <2>1, <2>2 DEF BriefTypes, Order, Days, castVars
    <2>4. PostInv'
      BY <1>0, <2>1 DEF PostInv, castVars
    <2>5. gens'[genDay] <= Before + tries' /\ tries' <= MaxAttempts
      <3>1. gens'[genDay] = gens[genDay] + 1
        BY <1>0, <2>1, <2>2 DEF BriefTypes
      <3>2. CASE date = genDay
        BY <1>0, <1>5, <2>1, <3>1, <3>2 DEF Generated, GenInv, Order, BriefTypes, BriefConstants
      <3>3. CASE date # genDay
        <4>1. gens[genDay] <= Before
          BY <1>0, <2>2, <3>3 DEF GenInv, BriefTypes, Days
        <4>. QED BY <1>0, <2>1, <2>2, <3>1, <3>3, <4>1 DEF BriefTypes, BriefConstants
      <3>. QED BY <3>2, <3>3
    <2>6. \A d \in Days : gens'[d] <= Before + (IF d <= genDay THEN MaxAttempts ELSE 0)
      <3>. SUFFICES ASSUME NEW d \in Days
           PROVE gens'[d] <= Before + (IF d <= genDay THEN MaxAttempts ELSE 0)
        OBVIOUS
      <3>1. CASE d = genDay
        <4>1. /\ Before \in Nat /\ tries' \in Nat /\ MaxAttempts \in Nat
              /\ gens'[genDay] \in Nat /\ genDay \in Nat
          BY <1>0, <2>1, <2>2, <2>3 DEF BriefTypes, Days, BriefConstants
        <4>. QED BY <2>5, <3>1, <4>1
      <3>2. CASE d # genDay
        <4>1. gens'[d] = gens[d]
          BY <1>0, <2>1, <2>2, <3>2 DEF BriefTypes
        <4>. QED BY <1>0, <2>2, <4>1 DEF GenInv, BriefTypes, Days, BriefConstants
      <3>. QED BY <3>1, <3>2
    <2>7. GenInv'
      BY <2>1, <2>5, <2>6 DEF GenInv
    <2>. QED BY <2>3, <2>4, <2>7 DEF BriefInv
  <1>6. CASE StartSending
    <2>1. /\ Before' = Before /\ sending' = date /\ lastPosted < date
          /\ UNCHANGED <<day, cacheVars, lastPosted, gens, posts, lost, restarts>>
      BY <1>0, <1>1, <1>6 DEF StartSending, BriefTypes, Order
    <2>2. BriefTypes' /\ Order'
      BY <1>0, <1>6, <2>1 DEF StartSending, BriefTypes, Order, Days, cacheVars, BriefConstants
    <2>3. PostInv' /\ GenInv'
      BY <1>0, <2>1 DEF PostInv, GenInv, cacheVars
    <2>. QED BY <2>2, <2>3 DEF BriefInv
  <1>7. CASE SendOk
    <2>1. /\ Before' = Before /\ lastPosted' = sending /\ sending' = 0 /\ send' = "idle"
          /\ posts' = [posts EXCEPT ![sending] = @ + 1]
          /\ UNCHANGED <<day, cacheVars, gens, lost, restarts>>
      BY <1>1, <1>7 DEF SendOk
    <2>2. sending \in Days /\ lastPosted < sending /\ sending <= date
      BY <1>0, <1>7 DEF SendOk, Order
    <2>3. BriefTypes'
      BY <1>0, <2>1, <2>2 DEF BriefTypes, Days, cacheVars
    <2>6. Order'
      BY <1>0, <1>a, <2>1, <2>2 DEF BriefTypes, Order, cacheVars
    <2>4. PostInv'
      <3>. SUFFICES ASSUME NEW d \in Days
           PROVE posts'[d] <= restarts + lost[d] + (IF d <= sending THEN 1 ELSE 0)
        BY <2>1 DEF PostInv
      <3>1. posts'[d] = IF d = sending THEN posts[d] + 1 ELSE posts[d]
        BY <1>0, <2>1, <2>2 DEF BriefTypes
      <3>. QED BY <1>0, <2>2, <3>1 DEF PostInv, BriefTypes, Days
    <2>5. GenInv'
      BY <1>0, <2>1 DEF GenInv, cacheVars
    <2>. QED BY <2>3, <2>4, <2>5, <2>6 DEF BriefInv
  <1>8. CASE SendFails \/ RateLimited
    <2>1. /\ Before' = Before
          /\ UNCHANGED <<day, cacheVars, lastPosted, gens, posts, lost, restarts>>
      BY <1>1, <1>8 DEF SendFails, RateLimited
    <2>2. send \in Sends /\ (sending' = sending \/ (send' = "idle" /\ sending' = 0))
      BY <1>8 DEF SendFails, RateLimited, GiveWay
    <2>3. BriefTypes'
      BY <1>0, <2>1, <2>2 DEF BriefTypes, cacheVars
    <2>4. PostInv' /\ GenInv'
      BY <1>0, <2>1 DEF PostInv, GenInv, cacheVars
    <2>5. Order'
      BY <1>0, <1>a, <2>1, <2>2 DEF Order, cacheVars
    <2>. QED BY <2>3, <2>4, <2>5 DEF BriefInv
  <1>9. CASE AnswerLost
    <2>1. /\ Before' = Before
          /\ posts' = [posts EXCEPT ![sending] = @ + 1]
          /\ lost' = [lost EXCEPT ![sending] = @ + 1]
          /\ UNCHANGED <<day, cacheVars, lastPosted, gens, restarts>>
      BY <1>1, <1>9 DEF AnswerLost
    <2>2. send \in Sends /\ (sending' = sending \/ (send' = "idle" /\ sending' = 0))
      BY <1>9 DEF AnswerLost, GiveWay
    <2>3. sending \in Days
      BY <1>0, <2>2 DEF Order
    <2>4. BriefTypes'
      BY <1>0, <2>1, <2>2, <2>3 DEF BriefTypes, cacheVars
    <2>7. Order'
      BY <1>0, <1>a, <2>1, <2>2 DEF Order, cacheVars
    <2>5. PostInv'
      <3>. SUFFICES ASSUME NEW d \in Days
           PROVE posts'[d] <= restarts + lost'[d] + (IF d <= lastPosted THEN 1 ELSE 0)
        BY <2>1 DEF PostInv
      <3>1. /\ posts'[d] = IF d = sending THEN posts[d] + 1 ELSE posts[d]
            /\ lost'[d] = IF d = sending THEN lost[d] + 1 ELSE lost[d]
        BY <1>0, <2>1, <2>3 DEF BriefTypes
      <3>. QED BY <1>0, <3>1 DEF PostInv, BriefTypes, Days
    <2>6. GenInv'
      BY <1>0, <2>1 DEF GenInv, cacheVars
    <2>. QED BY <2>4, <2>5, <2>6, <2>7 DEF BriefInv
  <1>10. CASE Restart
    <2>1. /\ restarts' = restarts + 1 /\ gen' = "idle" /\ send' = "idle"
          /\ genDay' = 0 /\ date' = 0 /\ tries' = 0 /\ sending' = 0 /\ lastPosted' = 0
          /\ UNCHANGED <<day, gens, posts, lost>>
      BY <1>10 DEF Restart
    <2>2. Before' = Before + MaxAttempts
      BY <1>0, <2>1, AllowanceGrows DEF Before, BriefTypes, BriefConstants
    <2>3. BriefTypes'
      BY <1>0, <2>1, <2>2 DEF BriefTypes, BriefConstants
    <2>4. Order'
      BY <1>0, <1>a, <2>1, "idle" # "composing" DEF Order, BriefTypes, Days, BriefConstants
    <2>5. PostInv'
      <3>. SUFFICES ASSUME NEW d \in Days
           PROVE posts[d] <= restarts + 1 + lost[d] + (IF d <= 0 THEN 1 ELSE 0)
        BY <2>1 DEF PostInv
      <3>. QED BY <1>0 DEF PostInv, BriefTypes, Days
    <2>6. GenInv'
      <3>1. \A d \in Days : gens[d] <= Before'
        BY <1>0, <2>2 DEF GenInv, BriefTypes, BriefConstants, Days
      <3>. QED BY <1>0, <2>1, <2>3, <3>1 DEF GenInv, BriefTypes, Days, BriefConstants
    <2>. QED BY <2>3, <2>4, <2>5, <2>6 DEF BriefInv
  <1>. QED
    BY <1>2, <1>3, <1>4, <1>5, <1>6, <1>7, <1>8, <1>9, <1>10 DEF BriefNext, Sender

\* A day's briefing is posted at most once per run of the process, answers lost
\* aside, and its text generated at most MaxAttempts times per run.
THEOREM BriefingOnceADay ==
  ASSUME BriefConstants PROVE BriefSpec => []OnceADay
  <1>1. BriefInv => OnceADay
    <2>. SUFFICES ASSUME BriefInv, NEW d \in Days
         PROVE  posts[d] <= 1 + restarts + lost[d] /\ gens[d] <= MaxAttempts * (1 + restarts)
      BY DEF OnceADay
    <2>1. MaxAttempts * (1 + restarts) = Before + MaxAttempts
      BY AllowanceGrows DEF Before, BriefInv, BriefTypes, BriefConstants
    <2>2. /\ d \in Nat \ {0} /\ posts[d] \in Nat /\ lost[d] \in Nat /\ gens[d] \in Nat
          /\ restarts \in Nat /\ Before \in Nat /\ MaxAttempts \in Nat
          /\ date \in Nat /\ lastPosted \in Nat
      BY DEF BriefInv, BriefTypes, BriefConstants, Days
    <2>3. posts[d] <= 1 + restarts + lost[d]
      BY <2>2 DEF BriefInv, PostInv
    <2>4. gens[d] <= Before + MaxAttempts
      BY <2>2 DEF BriefInv, GenInv
    <2>. QED BY <2>1, <2>3, <2>4
  <1>. QED BY <1>1, BriefInvInit, BriefInvNext, PTL DEF BriefSpec

-----------------------------------------------------------------------------
(* The boards of the market. *)

\* What is shown, and what a scan has found so far, is what a source has or had, and a scan
\* finds nothing older than what is shown.
VersionInv ==
  /\ \A s \in Sources : world[s].version <= changes + 1
  /\ \A s \in Sources : /\ found[s] <= world[s].version /\ served[s] <= world[s].version
                        /\ found[s] # 0 => found[s] >= served[s]

ScanInv == Scans!TypeOK /\ VersionInv

LEMMA ScansInit == Scans!ScansAssumption /\ Scans!Init => ScanInv
<1> SUFFICES ASSUME Scans!ScansAssumption, Scans!Init PROVE ScanInv
  OBVIOUS
<1>1. Scans!TypeOK
  BY DEF Scans!ScansAssumption, Scans!Init, Scans!TypeOK, Scans!Empty
<1>2. VersionInv
  BY DEF Scans!Init, VersionInv, Scans!Empty
<1> QED  BY <1>1, <1>2 DEF ScanInv

LEMMA ScansNext ==
  ASSUME Scans!ScansAssumption, ScanInv, [Scans!Next]_(Scans!boardVars)
  PROVE  ScanInv'
<1> USE DEF Scans!worldVars
<1>0. Scans!TypeOK /\ VersionInv
  BY DEF ScanInv
<1>b. scan' = scan => Scans!Upstreams' = Scans!Upstreams
  BY DEF Scans!Upstreams
<1>a. \A s \in Sources : Scans!Worth[s] \in {0, world[s].version} /\ Scans!Worth[s] \in 0..(MaxChanges + 1)
  BY <1>0 DEF Scans!Worth, Scans!TypeOK, Scans!ScansAssumption
<1>1. CASE Scans!StartScan
  <2>1. Scans!ListedNow \subseteq Sources
    BY DEF Scans!ListedNow
  <2>2. Scans!TypeOK'
    BY <1>0, <1>b, <1>1, <2>1 DEF Scans!StartScan, Scans!TypeOK, Scans!Empty, Scans!ScansAssumption
  <2>3. VersionInv'
    BY <1>0, <1>1 DEF Scans!StartScan, Scans!TypeOK, Scans!Empty, VersionInv
  <2> QED  BY <2>2, <2>3 DEF ScanInv
<1>2. ASSUME NEW s \in Sources, Scans!WalkSource(s) PROVE ScanInv'
  <2>1. \E n \in {0, world[s].version} \cap 0..(MaxChanges + 1) : found' = [found EXCEPT ![s] = n]
    <3> DEFINE n == IF Scans!Answers(s) THEN Scans!Worth[s] ELSE 0
    <3>1. n \in {0, world[s].version} \cap 0..(MaxChanges + 1)
      BY <1>a DEF Scans!ScansAssumption
    <3>2. found' = [found EXCEPT ![s] = n]
      BY <1>2 DEF Scans!WalkSource
    <3> QED  BY <3>1, <3>2
  <2>2. Scans!TypeOK'
    BY <1>0, <1>b, <1>2, <2>1 DEF Scans!WalkSource, Scans!TypeOK
  <2>3. VersionInv'
    BY <1>0, <1>2, <2>1 DEF Scans!WalkSource, Scans!TypeOK, VersionInv
  <2> QED  BY <2>2, <2>3 DEF ScanInv
<1>3. CASE Scans!EndScan
  <2>1. /\ step' = "idle" /\ UNCHANGED <<scan, world, down, changes, toWalk, failed, found>>
        /\ served' \in [Sources -> 0..(MaxChanges + 1)]
        /\ \A s \in Sources : served'[s] \in {served[s], found[s]}
    BY <1>0, <1>3 DEF Scans!EndScan, Scans!RatesOf, Scans!TypeOK
  <2>2. Scans!TypeOK'
    BY <1>0, <1>b, <2>1 DEF Scans!TypeOK
  <2>3. VersionInv'
    BY <1>0, <2>1 DEF Scans!TypeOK, VersionInv
  <2> QED  BY <2>2, <2>3 DEF ScanInv
<1>4. CASE Scans!Restart
  <2>1. Scans!TypeOK'
    BY <1>0, <1>b, <1>4 DEF Scans!Restart, Scans!TypeOK, Scans!Empty, Scans!ScansAssumption
  <2>2. VersionInv'
    BY <1>0, <1>4 DEF Scans!Restart, Scans!TypeOK, Scans!Empty, VersionInv
  <2> QED  BY <2>1, <2>2 DEF ScanInv
<1>5. ASSUME NEW s \in Sources, Scans!WorldChanges(s) PROVE ScanInv'
  <2>1. PICK b \in BOOLEAN :
          world' = [world EXCEPT ![s] = [version |-> @.version + 1, shown |-> b]]
    BY <1>5 DEF Scans!WorldChanges
  <2>2. /\ changes < MaxChanges /\ changes' = changes + 1
        /\ UNCHANGED <<scan, down, step, toWalk, failed, found, served>>
    BY <1>5 DEF Scans!WorldChanges
  <2>3. /\ world[s].version \in 1..(changes + 1)
        /\ world'[s] = [version |-> world[s].version + 1, shown |-> b]
        /\ \A t \in Sources : t # s => world'[t] = world[t]
    BY <1>0, <2>1 DEF Scans!TypeOK, VersionInv
  <2>4. world[s].version + 1 \in 1..(MaxChanges + 1)
    BY <1>0, <2>2, <2>3 DEF Scans!TypeOK, Scans!ScansAssumption
  <2>5. Scans!TypeOK'
    BY <1>0, <1>b, <2>1, <2>2, <2>4 DEF Scans!TypeOK, Scans!ScansAssumption
  <2>6. VersionInv'
    BY <1>0, <2>2, <2>3 DEF Scans!TypeOK, VersionInv
  <2> QED  BY <2>5, <2>6 DEF ScanInv
<1>6. CASE (\E x \in Scans!Upstreams : Scans!Outage(x)) \/ UNCHANGED Scans!boardVars
  <2>1. /\ down' \subseteq Scans!Upstreams
        /\ UNCHANGED <<scan, world, step, toWalk, failed, found, served, changes>>
    BY <1>0, <1>6 DEF Scans!Outage, Scans!boardVars, Scans!TypeOK
  <2>2. Scans!TypeOK'
    BY <1>0, <1>b, <2>1 DEF Scans!TypeOK, Scans!Upstreams
  <2> QED  BY <1>0, <2>1, <2>2 DEF VersionInv, ScanInv
<1> QED
  BY <1>1, <1>2, <1>3, <1>4, <1>5, <1>6 DEF Scans!Next, Scans!Scan

LEMMA ScansStep ==
  ASSUME Scans!ScansAssumption, ScanInv, [Scans!Next]_(Scans!boardVars)
  PROVE  Scans!NeverBlanked
<1> USE DEF Scans!worldVars
<1>0. Scans!TypeOK /\ VersionInv
  BY DEF ScanInv
<1>1. CASE Scans!EndScan
  <2>1. ASSUME served # Scans!Empty, served' = Scans!Empty
        PROVE  \/ scan \in Scans!Blanking
               \/ scan \in Scans!MayEmpty /\ \A s \in Sources : served[s] # 0 => s \notin failed
    <3>1. CASE scan = "rates"
      <4>1. \A s \in Sources : s \in failed => served'[s] = served[s]
        BY <1>1, <3>1 DEF Scans!EndScan, Scans!RatesOf
      <4> QED  BY <2>1, <3>1, <4>1 DEF Scans!Empty, Scans!MayEmpty
    <3>2. CASE scan # "rates" /\ Scans!Swaps
      <4>1. found = Scans!Empty
        BY <1>1, <2>1, <3>2 DEF Scans!EndScan
      <4> QED  BY <3>2, <4>1 DEF Scans!Swaps, Scans!SweptWithoutError, Scans!MayEmpty
    <3> QED  BY <1>1, <2>1, <3>1, <3>2 DEF Scans!EndScan
  <2>2. \A s \in Sources : served'[s] # 0 => served'[s] >= served[s]
    <3>1. \A s \in Sources : served'[s] \in {served[s], found[s]} /\ served[s] \in Nat /\ found[s] \in Nat
      BY <1>0, <1>1 DEF Scans!EndScan, Scans!RatesOf, Scans!TypeOK
    <3> QED  BY <1>0, <3>1 DEF VersionInv
  <2> QED  BY <2>1, <2>2 DEF Scans!NeverBlanked
<1>2. CASE Scans!Restart
  BY <1>0, <1>2 DEF Scans!Restart, Scans!NeverBlanked, Scans!TypeOK, Scans!Empty
<1>3. CASE UNCHANGED served
  BY <1>0, <1>3 DEF Scans!NeverBlanked, Scans!TypeOK
<1> QED
  BY <1>1, <1>2, <1>3 DEF Scans!Next, Scans!Scan, Scans!StartScan, Scans!WalkSource,
    Scans!WorldChanges, Scans!Outage, Scans!boardVars

\* The boards of the market are well typed, ...
THEOREM ScansTypes == ASSUME Scans!ScansAssumption PROVE Scans!Spec => []Scans!TypeOK
<1>1. ScanInv => Scans!TypeOK
  BY DEF ScanInv
<1> QED  BY ScansInit, ScansNext, <1>1, PTL DEF Scans!Spec

\* ... and a scan neither blanks one for a source that fails, nor takes anything back.
THEOREM BoardsNeverBlanked ==
  ASSUME Scans!ScansAssumption PROVE Scans!Spec => [][Scans!NeverBlanked]_(Scans!boardVars)
BY ScansInit, ScansNext, ScansStep, PTL DEF Scans!Spec

-----------------------------------------------------------------------------
(* The insider purchases. *)

\* A board is made of share counts, and only a process that is up has one.  A day is
\* listed only if there is one left to sweep, and a batch is empty outside of its day.
BoardInv ==
  /\ board # {} => shares
  /\ sweep = "start" => board = {}
  /\ sweep = "list" => days # <<>>
  /\ sweep \notin {"fetch", "save"} => batch = {}

BuysInv == Buys!TypeOK /\ Buys!NoneForgotten /\ BoardInv

LEMMA BuysInit == Buys!BuysAssumption /\ Buys!Init => BuysInv
<1> SUFFICES ASSUME Buys!BuysAssumption, Buys!Init PROVE BuysInv
  OBVIOUS
<1>1. <<>> \in Seq(1..MaxDay)
  OBVIOUS
<1>2. Buys!TypeOK
  <2>1. secUp \in BOOLEAN /\ alpacaUp \in BOOLEAN /\ booting \in BOOLEAN /\ shares \in BOOLEAN
    BY DEF Buys!Init
  <2>2. /\ date4 = 1 /\ filed = {} /\ marked = {} /\ saved = {} /\ sweep = "start" /\ days = <<>>
        /\ refs = {} /\ seen = {} /\ batch = {} /\ board = {} /\ sweepFaults = 0 /\ lostBuys = {}
    BY DEF Buys!Init
  <2> QED  BY <1>1, <2>1, <2>2 DEF Buys!BuysAssumption, Buys!TypeOK
<1>3. Buys!NoneForgotten
  BY DEF Buys!Init, Buys!NoneForgotten
<1>4. BoardInv
  BY DEF Buys!Init, BoardInv
<1> QED  BY <1>2, <1>3, <1>4 DEF BuysInv

\* Days of a sweep.
LEMMA SweptDays ==
  ASSUME Buys!BuysAssumption, Buys!TypeOK, NEW n \in Nat
  PROVE  Buys!FromTo(Buys!Since(date4 - n), date4) \in Seq(1..MaxDay)
<1> DEFINE m == Buys!Since(date4 - n)
           s == Buys!FromTo(m, date4)
<1>1. m \in 1..date4 /\ date4 \in 1..MaxDay
  BY DEF Buys!Since, Buys!TypeOK, Buys!BuysAssumption
<1> HIDE DEF m
<1>2. date4 - m + 1 \in Nat
  BY <1>1
<1>3. \A i \in 1..(date4 - m + 1) : m + i - 1 \in 1..MaxDay
  BY <1>1 DEF Buys!BuysAssumption
<1>4. s \in [1..(date4 - m + 1) -> 1..MaxDay]
  BY <1>3 DEF Buys!FromTo
<1>5. s \in Seq(1..MaxDay)
  BY <1>2, <1>4, SeqDef
<1> QED  BY <1>5 DEF m

LEMMA BuysNext ==
  ASSUME Buys!BuysAssumption, BuysInv, [Buys!Next]_(Buys!buyVars)
  PROVE  BuysInv'
<1> USE DEF Buys!outside, Buys!tables
<1>0. Buys!TypeOK /\ Buys!NoneForgotten /\ BoardInv
  BY DEF BuysInv
<1>1. CASE Buys!Start
  <2>1. Buys!FromTo(Buys!Since(date4 - Backfill), date4) \in Seq(1..MaxDay)
    BY <1>0, SweptDays DEF Buys!BuysAssumption
  <2>2. Buys!TypeOK'
    <3>1. shares' \in BOOLEAN /\ booting' \in BOOLEAN
      BY <1>0, <1>1 DEF Buys!Start, Buys!TypeOK
    <3>2. /\ sweep' = "compute" /\ days' \in Seq(1..MaxDay) /\ seen' \subseteq filed
          /\ sweepFaults' \in 0..MaxFaults
          /\ UNCHANGED <<date4, filed, secUp, alpacaUp, marked, saved, refs, batch, board, lostBuys>>
      BY <1>0, <1>1, <2>1 DEF Buys!Start, Buys!Fault, Buys!TypeOK, Buys!BuysAssumption
    <3>3. batch = {}
      BY <1>0, <1>1 DEF Buys!Start, BoardInv
    <3> QED  BY <1>0, <3>1, <3>2, <3>3 DEF Buys!TypeOK
  <2>3. Buys!NoneForgotten'
    BY <1>0, <1>1 DEF Buys!Start, Buys!NoneForgotten
  <2>4. BoardInv'
    BY <1>0, <1>1 DEF Buys!Start, BoardInv
  <2> QED  BY <2>2, <2>3, <2>4 DEF BuysInv
<1>2. CASE Buys!TickerFires
  <2>1. Buys!FromTo(Buys!Since(date4 - 1), date4) \in Seq(1..MaxDay)
    BY <1>0, SweptDays
  <2>2. Buys!TypeOK'
    BY <1>0, <1>2, <2>1 DEF Buys!TickerFires, Buys!TypeOK
  <2>3. days' # <<>>
    <3>1. date4 \in 1..MaxDay /\ Buys!Since(date4 - 1) \in 1..date4
      BY <1>0 DEF Buys!TypeOK, Buys!Since, Buys!BuysAssumption
    <3>2. 1 \in DOMAIN days'
      BY <1>2, <3>1 DEF Buys!TickerFires, Buys!FromTo, Buys!BuysAssumption
    <3> QED  BY <3>2
  <2> QED  BY <1>0, <1>2, <2>2, <2>3 DEF Buys!TickerFires, Buys!NoneForgotten, BoardInv, BuysInv
<1>3. CASE Buys!ListDay
  <2>1. Tail(days) \in Seq(1..MaxDay)
    BY <1>0, <1>3, HeadTailProperties DEF Buys!ListDay, Buys!TypeOK, BoardInv
  <2>2. /\ sweep = "list" /\ sweep' \in {"fetch", "compute", "list"}
        /\ sweep' = "list" => Tail(days) # <<>>
        /\ days' = Tail(days) /\ refs' \subseteq filed
        /\ UNCHANGED <<date4, filed, secUp, alpacaUp, marked, saved, booting, seen, batch, shares,
                      board, sweepFaults, lostBuys>>
    BY <1>0, <1>3 DEF Buys!ListDay, Buys!TypeOK, Buys!AfterDay
  <2>3. Buys!TypeOK'
    BY <1>0, <2>1, <2>2 DEF Buys!TypeOK
  <2> QED  BY <1>0, <2>2, <2>3 DEF Buys!NoneForgotten, BoardInv, BuysInv
<1>4. ASSUME NEW f \in Filings, Buys!Fetch(f) PROVE BuysInv'
  <2>1. Buys!TypeOK'
    BY <1>0, <1>4 DEF Buys!Fetch, Buys!TypeOK
  <2>2. Buys!NoneForgotten'
    BY <1>0, <1>4 DEF Buys!Fetch, Buys!NoneForgotten
  <2> QED  BY <1>0, <1>4, <2>1, <2>2 DEF Buys!Fetch, BoardInv, BuysInv
<1>5. CASE Buys!Mark
  <2>1. Buys!TypeOK'
    BY <1>0, <1>5 DEF Buys!Mark, Buys!Fault, Buys!TypeOK, Buys!BuysAssumption
  <2>2. Buys!NoneForgotten'
    BY <1>0, <1>5 DEF Buys!Mark, Buys!NoneForgotten
  <2> QED  BY <1>0, <1>5, <2>1, <2>2 DEF Buys!Mark, BoardInv, BuysInv
<1>6. CASE Buys!Save
  <2>1. Buys!TypeOK'
    BY <1>0, <1>6 DEF Buys!Save, Buys!Fault, Buys!TypeOK, Buys!AfterDay, Buys!BuysAssumption
  <2>2. Buys!NoneForgotten'
    BY <1>0, <1>6 DEF Buys!Save, Buys!NoneForgotten
  <2> QED  BY <1>0, <1>6, <2>1, <2>2 DEF Buys!Save, Buys!AfterDay, BoardInv, BuysInv
<1>7. CASE Buys!Recompute
  <2>1. Buys!Recent \subseteq saved
    BY DEF Buys!Recent
  <2>2. board' \subseteq saved /\ (board' # {} => shares' \/ board' = board)
    BY <1>0, <1>7, <2>1 DEF Buys!Recompute, Buys!TypeOK
  <2>3. Buys!TypeOK'
    BY <1>0, <1>7, <2>2 DEF Buys!Recompute, Buys!Fault, Buys!TypeOK, Buys!BuysAssumption
  <2>4. Buys!NoneForgotten'
    BY <1>0, <1>7 DEF Buys!Recompute, Buys!NoneForgotten
  <2>5. BoardInv'
    BY <1>0, <1>7, <2>2 DEF Buys!Recompute, BoardInv
  <2> QED  BY <2>3, <2>4, <2>5 DEF BuysInv
<1>8. CASE Buys!Crash
  <2>1. Buys!TypeOK'
    <3>1. shares' \in BOOLEAN /\ booting' \in BOOLEAN
      BY <1>8 DEF Buys!Crash
    <3>2. sweepFaults' \in 0..MaxFaults /\ <<>> \in Seq(1..MaxDay) /\ lostBuys' \subseteq Purchases
      BY <1>0, <1>8 DEF Buys!Crash, Buys!Fault, Buys!TypeOK, Buys!BuysAssumption
    <3>3. /\ sweep' = "start" /\ days' = <<>> /\ refs' = {} /\ seen' = {} /\ batch' = {}
          /\ board' = {}
          /\ UNCHANGED <<date4, filed, secUp, alpacaUp, marked, saved>>
      BY <1>8 DEF Buys!Crash
    <3> QED  BY <1>0, <3>1, <3>2, <3>3 DEF Buys!TypeOK
  <2>2. Buys!NoneForgotten'
    BY <1>0, <1>8 DEF Buys!Crash, Buys!NoneForgotten
  <2> QED  BY <1>8, <2>1, <2>2 DEF Buys!Crash, BoardInv, BuysInv
<1>9. CASE (\E f \in Filings : Buys!Disseminate(f)) \/ Buys!Midnight \/ Buys!Outage
           \/ UNCHANGED Buys!buyVars
  <2>1. /\ date4' \in 1..MaxDay /\ filed \subseteq filed' /\ filed' \subseteq Filings
        /\ UNCHANGED <<marked, saved, sweep, booting, days, refs, seen, batch, shares, board, sweepFaults,
                      lostBuys>>
    BY <1>0, <1>9 DEF Buys!Disseminate, Buys!Midnight, Buys!Outage, Buys!buyVars, Buys!TypeOK,
      Buys!BuysAssumption
  <2>2. secUp' \in BOOLEAN /\ alpacaUp' \in BOOLEAN
    BY <1>0, <1>9 DEF Buys!Disseminate, Buys!Midnight, Buys!Outage, Buys!buyVars, Buys!TypeOK
  <2>3. Buys!TypeOK'
    BY <1>0, <2>1, <2>2 DEF Buys!TypeOK
  <2> QED  BY <1>0, <2>1, <2>3 DEF Buys!NoneForgotten, BoardInv, BuysInv
<1> QED
  BY <1>1, <1>2, <1>3, <1>4, <1>5, <1>6, <1>7, <1>8, <1>9 DEF Buys!Next, Buys!Ingestor

\* What a step does to a board that shows something.
LEMMA BuysStep ==
  ASSUME BuysInv, [Buys!Next]_(Buys!buyVars)
  PROVE  Buys!BoardIsKept
<1> SUFFICES ASSUME board # {}, board' = {} PROVE sweepFaults' # sweepFaults \/ Buys!Recent = {}
  BY DEF Buys!BoardIsKept
<1>1. sweepFaults \in Nat /\ shares
  BY DEF BuysInv, Buys!TypeOK, BoardInv
<1>2. CASE Buys!Recompute
  BY <1>1, <1>2 DEF Buys!Recompute
<1>3. CASE Buys!Crash
  BY <1>1, <1>3 DEF Buys!Crash, Buys!Fault
<1>4. Buys!Recompute \/ Buys!Crash
  BY DEF Buys!Next, Buys!Ingestor, Buys!Start, Buys!TickerFires, Buys!ListDay, Buys!Fetch,
    Buys!Mark, Buys!Save, Buys!Disseminate, Buys!Midnight, Buys!Outage, Buys!buyVars
<1> QED  BY <1>2, <1>3, <1>4

\* The ingestor of the purchases is well typed, ...
THEOREM BuysTypes == ASSUME Buys!BuysAssumption PROVE Buys!Spec => []Buys!TypeOK
<1>1. BuysInv => Buys!TypeOK
  BY DEF BuysInv
<1> QED  BY BuysInit, BuysNext, <1>1, PTL DEF Buys!Spec

\* ... and forgets none.
THEOREM PurchasesAreKept ==
  ASSUME Buys!BuysAssumption
  PROVE  Buys!Spec => [][Buys!NoneForgotten' /\ Buys!BoardIsKept]_(Buys!buyVars)
<1>1. BuysInv' => Buys!NoneForgotten'
  BY DEF BuysInv
<1> QED  BY BuysInit, BuysNext, BuysStep, <1>1, PTL DEF Buys!Spec

-----------------------------------------------------------------------------
(* The trades of Congress. *)

\* A report's place in its index tells it from every other, so the order is total, ...
LEMMA NewerIsTotal ==
  ASSUME Congress!DisclosureAssumption
  PROVE  \A x, y \in Rows : x # y => Congress!Newer(x, y) \/ Congress!Newer(y, x)
BY DEF Congress!DisclosureAssumption, Congress!Newer

LEMMA NewerIsAnOrder ==
  ASSUME Congress!DisclosureAssumption
  PROVE  /\ \A x \in Rows : ~Congress!Newer(x, x)
         /\ \A x, y, z \in Rows : Congress!Newer(x, y) /\ Congress!Newer(y, z) => Congress!Newer(x, z)
BY DEF Congress!DisclosureAssumption, Congress!Newer

\* Numbers have a least one, ...
LEMMA LeastOfNumbers == \A S \in SUBSET Nat : S # {} => \E m \in S : \A n \in S : m <= n
<1> SUFFICES ASSUME NEW S \in SUBSET Nat, S # {}
             PROVE  \E m \in S : \A n \in S : m <= n
  OBVIOUS
<1>1. \E x \in S : \A y \in S : <<y, x>> \notin OpToRel(<, Nat)
  BY NatLessThanWellFounded, WFMin
<1>2. PICK x \in S : \A y \in S : <<y, x>> \notin OpToRel(<, Nat)
  BY <1>1
<1>3. \A y \in S : ~(y < x)
  <2> SUFFICES ASSUME NEW y \in S, y < x PROVE FALSE
    OBVIOUS
  <2>1. <<y, x>> \in OpToRel(<, Nat)
    BY DEF OpToRel
  <2> QED  BY <2>1, <1>2
<1> QED  BY <1>3

\* ... and so any reports have a newest one: the one with the fewest newer.
LEMMA SomeNewest ==
  ASSUME Congress!DisclosureAssumption, NEW S \in SUBSET Rows, S # {}
  PROVE  \E x \in S : \A y \in S : ~Congress!Newer(y, x)
<1> DEFINE Above(x) == {y \in Rows : Congress!Newer(y, x)}
           Rank(x) == Cardinality(Above(x))
<1>1. IsFiniteSet(Rows)
  BY DEF Congress!DisclosureAssumption, Congress!IsFiniteSet, IsFiniteSet
<1>2. ASSUME NEW x \in Rows PROVE IsFiniteSet(Above(x)) /\ Rank(x) \in Nat
  <2>1. Above(x) \in SUBSET Rows
    OBVIOUS
  <2>2. IsFiniteSet(Above(x))
    BY <1>1, <2>1, FS_Subset
  <2> QED  BY <2>2, FS_CardinalityType
<1>3. \A x, y \in Rows : Congress!Newer(y, x) => Rank(y) < Rank(x)
  <2> SUFFICES ASSUME NEW x \in Rows, NEW y \in Rows, Congress!Newer(y, x)
               PROVE  Rank(y) < Rank(x)
    OBVIOUS
  <2>1. Above(y) \in SUBSET Above(x) /\ y \in Above(x) /\ y \notin Above(y)
    BY NewerIsAnOrder
  <2>2. Rank(y) <= Rank(x) /\ (Rank(x) = Rank(y) => Above(x) = Above(y))
    BY <1>2, <2>1, FS_Subset
  <2> HIDE DEF Above, Rank
  <2> QED  BY <1>2, <2>1, <2>2
<1> HIDE DEF Above, Rank
<1> DEFINE Ranks == {Rank(x) : x \in S}
<1>4. Ranks \subseteq Nat /\ Ranks # {}
  BY <1>2
<1>5. \E m \in Ranks : \A n \in Ranks : m <= n
  <2> HIDE DEF Ranks
  <2> QED  BY <1>4, LeastOfNumbers
<1>6. PICK x \in S : \A y \in S : Rank(x) <= Rank(y)
  BY <1>5
<1>7. \A y \in S : ~Congress!Newer(y, x)
  BY <1>2, <1>3, <1>6
<1> QED  BY <1>7

\* What is shown is of the newest row of each document, and between two sweeps it is all that
\* was read; what was tried and not read is excused; the page of a stock has what it should.
ShownInv == \A t \in snapshot.trades : t.from \in Congress!First(snapshot.filings)
AllInv == listing = None /\ extractor => snapshot.trades = Congress!aggregate(snapshot.filings)
TriedInv == \A d \in tried : d \in parsed \/ d \in dropped \/ d \in Paper \/ PdfOf[d] = Scan
IndexInv ==
  /\ snapshot.indexed \subseteq snapshot.trades
  /\ \A t \in snapshot.trades : Congress!Said(t).ticker \in Universe => t \in snapshot.indexed
  /\ gated /\ listing = None => \A t \in snapshot.indexed : Congress!Said(t).ticker \in Universe
PlainInv == ~extractor => snapshot.trades = {} /\ listing = None
CongressInv == Congress!TypeOK /\ ShownInv /\ AllInv /\ TriedInv /\ IndexInv /\ PlainInv

LEMMA AggregatedAreTrades ==
  ASSUME Congress!DisclosureAssumption, parsed \subseteq Congress!Readable
  PROVE  \A L \in SUBSET Rows : \A t \in Congress!aggregate(L) :
           t \in Congress!Trades /\ t.from \in Congress!First(L)
<1> SUFFICES ASSUME NEW L \in SUBSET Rows, NEW t \in Congress!aggregate(L)
             PROVE  t \in Congress!Trades /\ t.from \in Congress!First(L)
  OBVIOUS
<1>1. PICK x \in Congress!First(L) :
        x.doc \in parsed /\ \E i \in DOMAIN PdfOf[x.doc] : t = [from |-> x, n |-> i]
  BY DEF Congress!aggregate
<1>2. x \in Rows
  BY DEF Congress!First
<1>3. x.doc \in DOMAIN PdfOf /\ PdfOf[x.doc] # Scan
  BY <1>1 DEF Congress!Readable
<1>4. DOMAIN PdfOf[x.doc] \subseteq Nat
  BY <1>3 DEF Congress!DisclosureAssumption
<1> QED  BY <1>1, <1>2, <1>4 DEF Congress!Trades

LEMMA CongressInit == Congress!DisclosureAssumption /\ Congress!Init => CongressInv
<1> SUFFICES ASSUME Congress!DisclosureAssumption, Congress!Init PROVE CongressInv
  OBVIOUS
<1>1. /\ utcDay = 1 /\ clerkUp \in BOOLEAN /\ directory = FALSE /\ extractor \in BOOLEAN
      /\ outages = 0 /\ listing = None /\ unread = {} /\ credit = 0 /\ tried = {}
      /\ parsed = {} /\ dropped = {} /\ gated = FALSE /\ snapshot = Congress!Empty
  BY DEF Congress!Init
<1>2. snapshot.filings = {} /\ snapshot.trades = {} /\ snapshot.indexed = {}
  BY <1>1 DEF Congress!Empty
<1>3. Congress!TypeOK
  <2>1. clerkUp \in BOOLEAN /\ directory \in BOOLEAN /\ extractor \in BOOLEAN /\ gated \in BOOLEAN
    BY <1>1
  <2>2. utcDay \in 1..LastDay /\ outages \in 0..MaxOutages /\ credit \in 0..Budget
    BY <1>1 DEF Congress!DisclosureAssumption
  <2> QED  BY <1>1, <1>2, <2>1, <2>2 DEF Congress!TypeOK
<1>4. AllInv
  <2>1. Congress!aggregate({}) = {}
    BY DEF Congress!aggregate, Congress!First
  <2> QED  BY <1>2, <2>1 DEF AllInv
<1>5. ShownInv /\ TriedInv /\ IndexInv /\ PlainInv
  BY <1>1, <1>2 DEF ShownInv, TriedInv, IndexInv, PlainInv
<1> QED  BY <1>3, <1>4, <1>5 DEF CongressInv

\* The reports of an index are some the Clerk has published.
LEMMA NewestArePublished ==
  \A L \in SUBSET Congress!Published : Congress!Newest(L) \in SUBSET Congress!Published
BY DEF Congress!Newest

LEMMA CongressRefresh ==
  ASSUME Congress!DisclosureAssumption, CongressInv, Congress!Refresh
  PROVE  CongressInv'
<1> USE DEF Congress!outside, Congress!sweeping, Congress!simulating
<1>0. Congress!TypeOK /\ ShownInv /\ AllInv /\ TriedInv /\ IndexInv /\ PlainInv
  BY DEF CongressInv
<1>1. PICK L \in SUBSET Congress!Published :
        IF extractor
        THEN /\ listing' = Congress!Newest(L) /\ unread' = Congress!Newest(L) /\ credit' = Budget
             /\ UNCHANGED snapshot
        ELSE /\ snapshot' = Congress!Snapshot(Congress!Newest(L), snapshot.trades, gated \/ directory)
             /\ UNCHANGED <<listing, unread, credit>>
  <2>1. \A failing : Congress!Merged(failing) \in SUBSET Congress!Published
    BY DEF Congress!Merged, Congress!Index
  <2> QED  BY <2>1 DEF Congress!Refresh
<1>2. /\ listing = None /\ gated' = (gated \/ directory)
      /\ UNCHANGED <<utcDay, clerkUp, directory, extractor, outages, tried, parsed, dropped>>
  BY DEF Congress!Refresh
<1>3. Congress!Newest(L) \in SUBSET Congress!Published /\ Congress!Newest(L) # None
  <2>1. Congress!Newest(L) \in SUBSET Rows
    BY NewestArePublished DEF Congress!Published
  <2> QED  BY <2>1, NewestArePublished DEF Congress!DisclosureAssumption
<1>4. Congress!Published' = Congress!Published
  BY <1>2 DEF Congress!Published
<1>5. CASE extractor
  <2>1. listing' = Congress!Newest(L) /\ unread' = Congress!Newest(L) /\ credit' = Budget
        /\ snapshot' = snapshot
    BY <1>1, <1>5
  <2>2. Congress!TypeOK'
    BY <1>0, <1>2, <1>3, <1>4, <2>1 DEF Congress!TypeOK, Congress!DisclosureAssumption
  <2>3. ShownInv'
    BY <1>0, <2>1 DEF ShownInv, Congress!First
  <2>4. AllInv' /\ IndexInv' /\ PlainInv'
    BY <1>0, <1>2, <1>3, <1>5, <2>1 DEF AllInv, IndexInv, PlainInv, Congress!Said
  <2> QED  BY <1>0, <1>2, <2>2, <2>3, <2>4 DEF TriedInv, CongressInv
<1>6. CASE ~extractor
  <2>1. snapshot.trades = {}
    BY <1>0, <1>6 DEF PlainInv
  <2>2. /\ snapshot'.filings = Congress!Newest(L) /\ snapshot'.trades = {} /\ snapshot'.indexed = {}
        /\ UNCHANGED <<listing, unread, credit>>
    BY <1>1, <1>6, <2>1 DEF Congress!Snapshot
  <2>3. Congress!TypeOK'
    BY <1>0, <1>2, <1>3, <1>4, <2>2 DEF Congress!TypeOK
  <2> QED  BY <1>0, <1>2, <1>6, <2>2, <2>3 DEF ShownInv, AllInv, TriedInv, IndexInv, PlainInv, CongressInv
<1> QED  BY <1>5, <1>6

LEMMA CongressParse ==
  ASSUME Congress!DisclosureAssumption, CongressInv, NEW x \in unread, Congress!Parse(x)
  PROVE  CongressInv'
<1> USE DEF Congress!outside, Congress!sweeping, Congress!simulating
<1>0. Congress!TypeOK /\ ShownInv /\ AllInv /\ TriedInv /\ IndexInv /\ PlainInv
  BY DEF CongressInv
<1>1. /\ listing # None /\ unread' = unread \ {x} /\ tried' = tried \cup {x.doc}
      /\ UNCHANGED <<utcDay, clerkUp, directory, extractor, outages, listing, gated, snapshot>>
  BY DEF Congress!Parse
<1>2. /\ credit' \in 0..Budget
      /\ parsed' \subseteq (parsed \cup {x.doc}) \cap Congress!Readable /\ parsed \subseteq parsed'
      /\ dropped' \subseteq dropped \cup {x.doc} /\ dropped \subseteq dropped'
  BY <1>0 DEF Congress!Parse, Congress!TypeOK, Congress!DisclosureAssumption
<1>3. x.doc \in tried \/ x.doc \in Paper \/ x.doc \in parsed' \/ x.doc \in dropped' \/ PdfOf[x.doc] = Scan
  <2>1. x.doc \in DOMAIN PdfOf
    BY <1>0 DEF Congress!TypeOK, Congress!Published, Congress!DisclosureAssumption
  <2> QED  BY <2>1 DEF Congress!Parse, Congress!Readable
<1>4. Congress!Published' = Congress!Published
  BY <1>1 DEF Congress!Published
<1>5. Congress!TypeOK'
  <2>1. clerkUp' \in BOOLEAN /\ directory' \in BOOLEAN /\ extractor' \in BOOLEAN /\ gated' \in BOOLEAN
    BY <1>0, <1>1 DEF Congress!TypeOK
  <2>2. parsed' \subseteq tried' \cap Congress!Readable /\ dropped' \subseteq tried'
    BY <1>0, <1>1, <1>2 DEF Congress!TypeOK
  <2> QED  BY <1>0, <1>1, <1>2, <1>4, <2>1, <2>2 DEF Congress!TypeOK, Congress!Readable
<1>6. TriedInv'
  BY <1>0, <1>1, <1>2, <1>3 DEF TriedInv
<1>7. ShownInv' /\ IndexInv' /\ PlainInv' /\ AllInv'
  BY <1>0, <1>1 DEF ShownInv, Congress!First, IndexInv, Congress!Said, PlainInv, AllInv
<1> QED  BY <1>5, <1>6, <1>7 DEF CongressInv

LEMMA CongressSwap ==
  ASSUME Congress!DisclosureAssumption, CongressInv, Congress!Swap
  PROVE  CongressInv'
<1> USE DEF Congress!outside, Congress!sweeping, Congress!simulating
<1>0. Congress!TypeOK /\ ShownInv /\ AllInv /\ TriedInv /\ IndexInv /\ PlainInv
  BY DEF CongressInv
<1>1. /\ listing # None /\ listing' = None /\ unread' = {} /\ credit' = 0
      /\ UNCHANGED <<utcDay, clerkUp, directory, extractor, outages, tried, parsed, dropped, gated>>
  BY DEF Congress!Swap
<1>2. /\ snapshot'.filings = listing /\ snapshot'.trades = Congress!aggregate(listing)
      /\ snapshot'.indexed = {t \in Congress!aggregate(listing) :
           Congress!Said(t).ticker # None /\ (gated => Congress!Said(t).ticker \in Universe)}
  BY DEF Congress!Swap, Congress!Snapshot
<1>3. listing \in SUBSET Congress!Published /\ listing \in SUBSET Rows /\ extractor
  BY <1>0, <1>1 DEF Congress!TypeOK, Congress!Published, PlainInv
<1>4. Congress!Published' = Congress!Published
  BY <1>1 DEF Congress!Published
<1>5. \A t \in Congress!aggregate(listing) : t \in Congress!Trades /\ t.from \in Congress!First(listing)
  BY <1>0, <1>3, AggregatedAreTrades DEF Congress!TypeOK
<1>6. Congress!TypeOK'
  <2>1. clerkUp' \in BOOLEAN /\ directory' \in BOOLEAN /\ extractor' \in BOOLEAN /\ gated' \in BOOLEAN
    BY <1>0, <1>1 DEF Congress!TypeOK
  <2>2. 0 \in 0..Budget
    BY DEF Congress!DisclosureAssumption
  <2> QED  BY <1>0, <1>1, <1>2, <1>3, <1>4, <1>5, <2>1, <2>2 DEF Congress!TypeOK, Congress!Trades, Congress!Readable
<1>7. ShownInv'
  BY <1>2, <1>5 DEF ShownInv, Congress!First
<1>8. AllInv'
  <2>1. Congress!aggregate(listing) = Congress!aggregate(snapshot.filings)'
    BY <1>1, <1>2 DEF Congress!aggregate, Congress!First
  <2> QED  BY <1>2, <2>1 DEF AllInv
<1>9. IndexInv'
  BY <1>1, <1>2 DEF IndexInv, Congress!Said, Congress!DisclosureAssumption
<1> QED  BY <1>0, <1>1, <1>3, <1>6, <1>7, <1>8, <1>9 DEF TriedInv, PlainInv, CongressInv

LEMMA CongressNext ==
  ASSUME Congress!DisclosureAssumption, CongressInv, [Congress!Next]_(Congress!disclosureVars)
  PROVE  CongressInv'
<1> USE DEF Congress!outside, Congress!sweeping, Congress!simulating, Congress!cache
<1>0. Congress!TypeOK /\ ShownInv /\ AllInv /\ TriedInv /\ IndexInv /\ PlainInv
  BY DEF CongressInv
<1>1. CASE Congress!Restart
  <2>1. /\ directory' = FALSE /\ outages' = outages + 1 /\ outages < MaxOutages
        /\ listing' = None /\ unread' = {} /\ credit' = 0 /\ tried' = {} /\ parsed' = {}
        /\ dropped' = {} /\ gated' = FALSE /\ snapshot' = Congress!Empty
        /\ UNCHANGED <<utcDay, clerkUp, extractor>>
    BY <1>1 DEF Congress!Restart
  <2>2. snapshot'.filings = {} /\ snapshot'.trades = {} /\ snapshot'.indexed = {}
    BY <2>1 DEF Congress!Empty
  <2>3. Congress!TypeOK'
    <3>1. clerkUp' \in BOOLEAN /\ directory' \in BOOLEAN /\ extractor' \in BOOLEAN /\ gated' \in BOOLEAN
      BY <1>0, <2>1 DEF Congress!TypeOK
    <3>2. outages' \in 0..MaxOutages /\ 0 \in 0..Budget /\ utcDay' \in 1..LastDay
      BY <1>0, <2>1 DEF Congress!TypeOK, Congress!DisclosureAssumption
    <3> QED  BY <2>1, <2>2, <3>1, <3>2 DEF Congress!TypeOK
  <2>4. AllInv'
    <3>1. (Congress!aggregate(snapshot.filings) = {})'
      BY <2>2 DEF Congress!aggregate, Congress!First
    <3> QED  BY <2>2, <3>1 DEF AllInv
  <2> QED  BY <2>1, <2>2, <2>3, <2>4 DEF ShownInv, TriedInv, IndexInv, PlainInv, CongressInv
<1>2. CASE \/ \E slug \in Congress!Members : Congress!Ask(slug)
           \/ Congress!Simulate \/ Congress!Midnight \/ Congress!DirectoryLoads \/ Congress!Outage
           \/ UNCHANGED Congress!disclosureVars
  <2>1. UNCHANGED <<extractor, listing, unread, credit, tried, parsed, dropped, gated, snapshot>>
    BY <1>2 DEF Congress!Ask, Congress!Simulate, Congress!Midnight, Congress!DirectoryLoads,
      Congress!Outage, Congress!disclosureVars
  <2>2. /\ utcDay' \in 1..LastDay /\ utcDay' >= utcDay /\ outages' \in 0..MaxOutages
    BY <1>0, <1>2 DEF Congress!Ask, Congress!Simulate, Congress!Midnight, Congress!DirectoryLoads,
      Congress!Outage, Congress!disclosureVars, Congress!TypeOK, Congress!DisclosureAssumption
  <2>3. clerkUp' \in BOOLEAN /\ directory' \in BOOLEAN
    BY <1>0, <1>2 DEF Congress!Ask, Congress!Simulate, Congress!Midnight, Congress!DirectoryLoads,
      Congress!Outage, Congress!disclosureVars, Congress!TypeOK
  <2>4. Congress!Published \subseteq Congress!Published'
    <3>1. \A x \in Rows : x.filed \in Nat
      BY DEF Congress!DisclosureAssumption
    <3> QED  BY <1>0, <2>2, <3>1 DEF Congress!Published, Congress!TypeOK
  <2>5. Congress!TypeOK'
    BY <1>0, <2>1, <2>2, <2>3, <2>4 DEF Congress!TypeOK, Congress!Readable, Congress!Trades
  <2>6. ShownInv' /\ AllInv' /\ TriedInv' /\ IndexInv' /\ PlainInv'
    BY <1>0, <2>1 DEF ShownInv, AllInv, TriedInv, IndexInv, PlainInv, Congress!First, Congress!aggregate,
      Congress!Said
  <2> QED  BY <2>5, <2>6 DEF CongressInv
<1> QED
  BY <1>1, <1>2, CongressRefresh, CongressParse, CongressSwap DEF Congress!Next, Congress!Sweep

\* A document that was read has its trades shown.
LEMMA ReadIsShown ==
  ASSUME Congress!DisclosureAssumption, CongressInv, NEW x \in snapshot.filings,
         listing = None, extractor, x.doc \in parsed,
         \A y \in snapshot.filings : y.doc = x.doc => SlugOf[y.name] # None
  PROVE  \A i \in DOMAIN PdfOf[x.doc] : \E t \in Congress!Told(x) : t.n = i
<1>0. Congress!TypeOK /\ AllInv
  BY DEF CongressInv
<1> DEFINE S == {y \in snapshot.filings : y.doc = x.doc}
<1>1. S \in SUBSET Rows /\ S # {}
  BY <1>0 DEF Congress!TypeOK, Congress!Published
<1>2. PICK y \in S : \A z \in S : ~Congress!Newer(z, y)
  <2> HIDE DEF S
  <2> QED  BY <1>1, SomeNewest
<1>3. y \in Congress!First(snapshot.filings) /\ y.doc = x.doc
  BY <1>2 DEF Congress!First
<1>4. \A i \in DOMAIN PdfOf[x.doc] :
        [from |-> y, n |-> i] \in Congress!aggregate(snapshot.filings)
  BY <1>3 DEF Congress!aggregate, Congress!First
<1>5. snapshot.trades = Congress!aggregate(snapshot.filings)
  BY <1>0 DEF AllInv
<1>6. ASSUME NEW i \in DOMAIN PdfOf[x.doc] PROVE \E t \in Congress!Told(x) : t.n = i
  <2> DEFINE t == [from |-> y, n |-> i]
  <2>1. t.from = y /\ t.n = i /\ t \in snapshot.trades
    BY <1>4, <1>5
  <2>2. t \in Congress!Told(x)
    BY <1>3, <2>1 DEF Congress!Told
  <2> QED  BY <2>1, <2>2
<1> QED  BY <1>6

LEMMA CongressSound ==
  ASSUME Congress!DisclosureAssumption, CongressInv
  PROVE  Congress!TradesAreShown
<1>0. Congress!TypeOK /\ ShownInv /\ AllInv /\ TriedInv /\ IndexInv /\ PlainInv
  BY DEF CongressInv
<1>1. \A t \in snapshot.trades : t.from \in snapshot.filings
  BY <1>0 DEF ShownInv, Congress!First
<1>2. \A t, u \in snapshot.trades : t.from.doc = u.from.doc => t.from = u.from
  <2>1. snapshot.filings \subseteq Rows
    BY <1>0 DEF Congress!TypeOK, Congress!Published
  <2> QED  BY <1>0, <2>1, NewerIsTotal DEF ShownInv, Congress!First
<1>3. ASSUME NEW x \in snapshot.filings, x.doc \in tried, listing = None, extractor,
             PdfOf[x.doc] \notin {Scan, <<>>}, x.doc \notin Paper, x.doc \notin dropped,
             ~\E y \in snapshot.filings : y.doc = x.doc /\ SlugOf[y.name] = None
      PROVE  Congress!Told(x) # {} /\ \A i \in DOMAIN PdfOf[x.doc] : \E t \in Congress!Told(x) : t.n = i
  <2>1. x.doc \in parsed
    BY <1>0, <1>3 DEF TriedInv
  <2>2. \A i \in DOMAIN PdfOf[x.doc] : \E t \in Congress!Told(x) : t.n = i
    BY <1>3, <2>1, ReadIsShown
  <2>3. x.doc \in DOMAIN PdfOf
    BY <1>0, <2>1 DEF Congress!TypeOK, Congress!Readable
  <2>4. 1 \in DOMAIN PdfOf[x.doc]
    BY <1>3, <2>3, EmptySeq DEF Congress!DisclosureAssumption
  <2> QED  BY <2>2, <2>4
<1>4. \A k \in Universe : Congress!ByTicker(k) = {t \in snapshot.trades : Congress!Said(t).ticker = k}
  BY <1>0 DEF Congress!ByTicker, IndexInv
<1>5. gated /\ listing = None => \A t \in snapshot.indexed : Congress!Said(t).ticker \in Universe
  BY <1>0 DEF IndexInv
<1> QED  BY <1>1, <1>2, <1>3, <1>4, <1>5 DEF Congress!TradesAreShown

\* The disclosures are well typed, ...
THEOREM CongressTypes ==
  ASSUME Congress!DisclosureAssumption PROVE Congress!Spec => []Congress!TypeOK
<1>1. CongressInv => Congress!TypeOK
  BY DEF CongressInv
<1> QED  BY CongressInit, CongressNext, <1>1, PTL DEF Congress!Spec

\* ... and what a report that was read discloses is shown, once.
THEOREM DisclosuresAreShown ==
  ASSUME Congress!DisclosureAssumption PROVE Congress!Spec => []Congress!TradesAreShown
BY CongressInit, CongressNext, CongressSound, PTL DEF Congress!Spec
=============================================================================
