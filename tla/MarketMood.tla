----------------------------- MODULE MarketMood -----------------------------
(***************************************************************************)
(* The daily Fear & Greed reading and the caches it is made of: the short  *)
(* volume of the day's FINRA file (ShortVolumeIngestor, finrashvol.Cache), *)
(* the universe of prices, the hot list and Cboe's put/call ratio.  All    *)
(* are filled by goroutines of their own, so the first reading after a     *)
(* start finds them cold; the reading is remade every hour, and its day's  *)
(* score kept in a table.  One symbol of the file is followed, and a score *)
(* is the set of the components it was made of.  Days are trading days.    *)
(***************************************************************************)
EXTENDS Integers, Sequences, SequencesExt

CONSTANTS
  Lookback,    \* shortVolumeMaxFallback
  HistoryDays, \* of a symbol's short volume (historyDay)
  Warmed,      \* components from caches that start cold: "breadth", "heat"
  MaxDay,      \* bound: days
  MaxFaults    \* bound: statements that fail, restarts, files that go missing

VARIABLES
  today,
  published, \* days whose file FINRA has put out
  missing,   \* those of them its CDN says it does not have (404, 403)
  rows,      \* latest: the day the latest rows are of, 0: none
  asOf,
  history,   \* of the symbol: the days, oldest first
  warm,      \* those of Warmed whose cache has something
  pc,        \* idle, gathering, saving
  putCall,   \* Cboe answered this reading
  mood,      \* the latest reading, and its day (0: none since the start)
  points,    \* the in-memory history of the readings
  fearGreed, \* the table: by day
  moodFaults,
  wentBack,  \* history: an older file was installed after a newer one
  unsaved    \* history: days of a save or load that failed

moodVars == <<today, published, missing, rows, asOf, history, warm, pc, putCall, mood, points,
              fearGreed, moodFaults, wentBack, unsaved>>
finra == <<published, missing>>
shorts == <<rows, asOf, history, wentBack>>
readings == <<pc, putCall, mood, points, fearGreed, unsaved>>

Days == 1..MaxDay
Components == {"putCall", "short"} \cup Warmed
NoReading == {"none"} \* of a day without a score

Init ==
  /\ today = 1 /\ published = {} /\ missing = {}
  /\ rows = 0 /\ asOf = 0 /\ history = <<>> /\ wentBack = FALSE
  /\ warm = {}
  /\ pc = "idle" /\ putCall = FALSE /\ mood = [day |-> 0, of |-> {}] /\ points = <<>>
  /\ fearGreed = [d \in Days |-> NoReading] /\ unsaved = {}
  /\ moodFaults = 0

Fault == moodFaults < MaxFaults /\ moodFaults' = moodFaults + 1

-----------------------------------------------------------------------------
(* Short volume. *)

\* The days sweep asks for, and the one whose file it gets (0: none).
Candidates == {d \in Days : d <= today /\ d > today - Lookback}
Newest(days) == IF days = {} THEN 0 ELSE CHOOSE d \in days : \A e \in days : e <= d
Got == Newest(Candidates \cap (published \ missing))

\* Mutant: the curve keeps a day too many.
TrimmedLate(h) == IF Len(h) > HistoryDays + 1 THEN SubSeq(h, Len(h) - HistoryDays, Len(h)) ELSE h
Trimmed(h) == IF Len(h) > HistoryDays THEN SubSeq(h, Len(h) - HistoryDays + 1, Len(h)) ELSE h

\* Cache.Set: the points of the newest date make way for the day that comes in.
Set(d) ==
  LET newest == IF d > asOf THEN d ELSE asOf
      kept == SelectSeq(history, LAMBDA e : e # newest)
  IN  /\ rows' = d /\ asOf' = newest
      /\ history' = Trimmed(SortSeq(Append(kept, d), LAMBDA a, b : a < b))
      /\ wentBack' = (wentBack \/ d < asOf)

\* A file that is not there makes way for the day before; any other error ends the
\* sweep and changes nothing.
SweepShort ==
  /\ Got # 0 /\ Set(Got)
  /\ UNCHANGED <<today, finra, warm, readings, moodFaults>>

-----------------------------------------------------------------------------
(* The reading. *)

\* UniverseIngestor has swept; the scheduler has ranked the hot list.
Warm ==
  /\ \E c \in Warmed \ warm : warm' = warm \cup {c}
  /\ UNCHANGED <<today, finra, shorts, readings, moodFaults>>

\* gather: Cboe first, which answers or does not, then the caches.
Gather ==
  /\ pc = "idle" /\ pc' = "gathering" /\ putCall' \in BOOLEAN
  /\ UNCHANGED <<today, finra, shorts, warm, mood, points, fearGreed, unsaved, moodFaults>>

Present == warm \cup {c \in {"putCall"} : putCall} \cup {c \in {"short"} : rows # 0}

\* Mutant: a point is added for every reading of a day.
RecordAll(point) == points' = Append(points, point)

\* Cache.Set of the reading: a day has one point, its last.
Record(point) ==
  points' = IF points # <<>> /\ Last(points).day = point.day
            THEN [points EXCEPT ![Len(points)] = point] ELSE Append(points, point)

Compute ==
  /\ pc = "gathering" /\ pc' = "saving"
  /\ mood' = [day |-> today, of |-> Present]
  /\ Record([day |-> today, of |-> Present])
  /\ UNCHANGED <<today, finra, shorts, warm, putCall, fearGreed, unsaved, moodFaults>>

\* SaveFearGreed, whose error is only logged.
Save ==
  /\ pc = "saving" /\ pc' = "idle"
  /\ \/ fearGreed' = [fearGreed EXCEPT ![mood.day] = mood.of]
        /\ unsaved' = unsaved \ {mood.day} /\ UNCHANGED moodFaults
     \/ Fault /\ unsaved' = unsaved \cup {mood.day} /\ UNCHANGED fearGreed
  /\ UNCHANGED <<today, finra, shorts, warm, putCall, mood, points>>

\* What Seed is given: the days of the table, oldest first.
Stored ==
  LET days == SetToSortSeq({d \in Days : fearGreed[d] # NoReading}, <)
  IN  [i \in DOMAIN days |-> [day |-> days[i], of |-> fearGreed[days[i]]]]

\* The process restarts: cold caches, a dropped hot list, and the table's history,
\* if it can be read.
Restart ==
  /\ Fault
  /\ rows' = 0 /\ asOf' = 0 /\ history' = <<>> /\ wentBack' = FALSE
  /\ warm' = {}
  /\ pc' = "idle" /\ putCall' = FALSE /\ mood' = [day |-> 0, of |-> {}]
  /\ \/ points' = Stored /\ unsaved' = {}
     \/ points' = <<>> /\ unsaved' = 1..today
  /\ UNCHANGED <<today, finra, fearGreed>>

Reading == Gather \/ Compute \/ Save

-----------------------------------------------------------------------------
(* The world. *)

Publish(d) ==
  /\ d <= today /\ d \notin published
  /\ published' = published \cup {d}
  /\ UNCHANGED <<today, missing, shorts, warm, readings, moodFaults>>

\* The CDN refuses a file it has served, or serves it again.
GoMissing(d) ==
  /\ d \in published \ missing /\ Fault
  /\ missing' = missing \cup {d}
  /\ UNCHANGED <<today, published, shorts, warm, readings>>

ComeBack(d) ==
  /\ d \in missing /\ missing' = missing \ {d}
  /\ UNCHANGED <<today, published, shorts, warm, readings, moodFaults>>

Midnight ==
  /\ today < MaxDay /\ today' = today + 1
  /\ UNCHANGED <<finra, shorts, warm, readings, moodFaults>>

Next ==
  \/ SweepShort \/ Warm \/ Reading \/ Restart
  \/ \E d \in Days : Publish(d) \/ GoMissing(d) \/ ComeBack(d)
  \/ Midnight

\* The tickers fire, every call has a deadline, and the two caches get filled.
Fairness == WF_moodVars(SweepShort) /\ WF_moodVars(Warm) /\ WF_moodVars(Reading)

Spec == Init /\ [][Next]_moodVars /\ Fairness

-----------------------------------------------------------------------------
(* Properties. *)

TypeOK ==
  /\ today \in Days /\ published \subseteq Days /\ missing \subseteq published
  /\ rows \in 0..MaxDay /\ asOf \in rows..MaxDay
  /\ history \in Seq(Days) /\ Len(history) <= HistoryDays
  /\ pc \in {"idle", "gathering", "saving"}
  /\ mood.day \in 0..today /\ mood.of \subseteq Components
  /\ moodFaults \in 0..MaxFaults

\* The curve of a symbol has one point a day, the last of them of the day the rows
\* and the label are of - unless the file of an older day came after a newer one:
\* then the newest point is gone, and the older one is there twice.
OneShortPointADay ==
  wentBack \/ /\ \A i, j \in DOMAIN history : i < j => history[i] < history[j]
              /\ rows = asOf /\ (rows # 0 => Last(history) = rows)

\* The curve of the readings has one point a day, in order, and a restart brings
\* back what was shown: the table has the same, but for what it failed to keep.
OneReadingADay ==
  /\ \A i, j \in DOMAIN points : i < j => points[i].day < points[j].day
  /\ \A d \in Days \ unsaved :
       (pc = "saving" /\ d = mood.day) \/
         LET of == {points[i].of : i \in {j \in DOMAIN points : points[j].day = d}}
         IN  of = IF fearGreed[d] = NoReading THEN {} ELSE {fearGreed[d]}

\* "lets breadth appear within ~1h of a deploy": once Cboe answers and FINRA has a file, the day's
\* reading and its row come to be made of all components.
MoodRecovers ==
  (<>[]((pc = "gathering" => putCall) /\ missing = {} /\ Candidates \cap published # {})) =>
     /\ <>[](rows = Got /\ asOf = Got)
     /\ <>[](mood = [day |-> today, of |-> Components] /\ fearGreed[today] = Components)
=============================================================================
