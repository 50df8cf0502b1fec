------------------------------- MODULE Boards -------------------------------
(***************************************************************************)
(* The boards of the whole market that internal/ingest computes off the    *)
(* request path and keeps in memory only.  Each is rebuilt on a cadence by *)
(* a goroutine of its own, which walks over its sources (tickers, feeds,   *)
(* days or years), skips those that fail, and swaps the result in - or     *)
(* keeps the previous board, by a rule that differs from board to board.   *)
(* kind says which of them this behaviour is about.                        *)
(***************************************************************************)
EXTENDS Naturals, FiniteSets

CONSTANTS
  Sources,   \* what a scan walks over: tickers, batches of them, feeds, days, years
  Watched,   \* those that are there because of the users' watchlists
  Newest,    \* congress: the current year
  MaxChanges \* bound: changes in the world

ScansAssumption == Watched \subseteq Sources /\ Newest \in Sources /\ MaxChanges \in Nat

\* Scans of analyticTickers: signals and scorecard; dividends, earnings reactions
\* and material events; relative strength.
Tracked == {"signals", "dividends", "strength"}
\* sweeps: OptionsCache.scanUnusual and institutional; rails: guru and events;
\* calendar: IPOs, earnings, the yield curve and crypto, of one call each;
\* rates: the odds of a rate cut, by provider; congress and universe.
Kinds == Tracked \cup {"sweeps", "rails", "calendar", "rates", "congress", "universe"}
\* These blank the board when every source fails.
Blanking == {"signals", "rails"}

VARIABLES
  kind,
  world,  \* what each source has: a version, and whether it is worth showing
  down,   \* what does not answer: sources, the store's watchlists, the benchmark
  pc,     \* idle or walking
  todo,   \* sources to walk
  failed, \* sources that failed in this scan
  found,  \* next, pop, all: what the scan has so far (0: nothing)
  board,  \* what is served
  changes

worldVars == <<kind, world, down, changes>>
boardVars == <<kind, world, down, pc, todo, failed, found, board, changes>>

Empty == [s \in Sources |-> 0]
Worth == [s \in Sources |-> IF world[s].shown THEN world[s].version ELSE 0]

\* What it needs: the sources, the list of the tracked tickers, the benchmark.
Upstreams ==
  Sources \cup (IF kind \in Tracked THEN {"store"} ELSE {})
          \cup (IF kind = "strength" THEN {"SPY"} ELSE {})

Init ==
  /\ kind \in Kinds
  /\ world \in [Sources -> [version : {1}, shown : BOOLEAN]]
  /\ down \in SUBSET Upstreams
  /\ pc = "idle" /\ todo = {} /\ found = Empty /\ failed = {}
  /\ board = Empty /\ changes = 0

Answers(s) == s \notin down

\* The TickerSource leaves out what it cannot read (ingestTickers); the other
\* kinds have a fixed list.
ListedNow == IF kind \in Tracked /\ ~Answers("store") THEN Sources \ Watched ELSE Sources

\* The ticker fires.  Without SPY there is no relative strength.
StartScan ==
  /\ pc = "idle"
  /\ kind = "strength" => Answers("SPY")
  /\ pc' = "walking" /\ found' = Empty /\ failed' = {}
  /\ todo' = IF kind = "congress" THEN {Newest} ELSE ListedNow
  /\ UNCHANGED <<worldVars, board>>

\* FetchHousePTRs of the prior year, if this year's list is thin or failed.
PriorYear(s) ==
  /\ kind = "congress" /\ s = Newest
  /\ ~Answers(s) \/ Worth[s] = 0

\* One step of the loop: the source answers with what it has, or fails.
WalkSource(s) ==
  /\ pc = "walking" /\ s \in todo
  /\ todo' = IF PriorYear(s) THEN Sources \ {Newest} ELSE todo \ {s}
  /\ found' = [found EXCEPT ![s] = IF Answers(s) THEN Worth[s] ELSE 0]
  /\ failed' = IF Answers(s) THEN failed ELSE failed \cup {s}
  /\ UNCHANGED <<worldVars, pc, board>>

\* Mutant: the dividends, the strength, ... are swapped in whatever was found.
SwapsAlways == kind \in Kinds

\* A calendar is an error if its call failed; a universe sweep if a batch failed
\* and no other had a price.
SweptWithoutError == kind \in {"universe", "calendar"} /\ failed = {}

\* Is the new board swapped in?  (The lists of tickers are never empty.)
Swaps ==
  \/ kind \in Blanking \/ SweptWithoutError
  \/ kind # "calendar" /\ found # Empty

\* Each provider has an entry of its own, which a failure leaves alone.
RatesOf == [s \in Sources |-> IF s \in failed THEN board[s] ELSE found[s]]

EndScan ==
  /\ pc = "walking" /\ todo = {}
  /\ pc' = "idle"
  /\ board' = CASE kind = "rates" -> RatesOf [] kind # "rates" /\ Swaps -> found [] OTHER -> board
  /\ UNCHANGED <<worldVars, todo, failed, found>>

Scan == StartScan \/ (\E s \in Sources : WalkSource(s)) \/ EndScan

\* The process restarts: the boards were in memory only.
Restart ==
  /\ changes < MaxChanges /\ changes' = changes + 1
  /\ pc' = "idle" /\ todo' = {} /\ failed' = {} /\ found' = Empty
  /\ board' = Empty
  /\ UNCHANGED <<kind, world, down>>

\* A source has something else, or nothing worth showing any more.
WorldChanges(s) ==
  /\ changes < MaxChanges /\ changes' = changes + 1
  /\ \E b \in BOOLEAN : world' = [world EXCEPT ![s] = [version |-> @.version + 1, shown |-> b]]
  /\ UNCHANGED <<kind, down, pc, todo, failed, found, board>>

\* Something stops answering, or answers again.
Outage(x) ==
  /\ down' = IF x \in down THEN down \ {x} ELSE down \cup {x}
  /\ UNCHANGED <<kind, world, pc, todo, failed, found, board, changes>>

Next ==
  \/ Scan
  \/ Restart
  \/ \E s \in Sources : WorldChanges(s)
  \/ \E x \in Upstreams : Outage(x)

\* The tickers fire, and every call of a scan has a deadline.
Fairness == WF_boardVars(Scan)

Spec == Init /\ [][Next]_boardVars /\ Fairness

-----------------------------------------------------------------------------
(* Properties. *)

TypeOK ==
  /\ kind \in Kinds /\ pc \in {"idle", "walking"}
  /\ world \in [Sources -> [version : 1..(MaxChanges + 1), shown : BOOLEAN]]
  /\ down \subseteq Upstreams /\ todo \subseteq Sources
  /\ found \in [Sources -> 0..(MaxChanges + 1)] /\ board \in [Sources -> 0..(MaxChanges + 1)]
  /\ changes \in 0..MaxChanges /\ failed \subseteq Sources

\* These come to show nothing when there is nothing to show.
MayEmpty == {"universe", "calendar", "rates"}

\* "it keeps the previous board rather than blanking it": while the process runs,
\* a board goes blank only if it is one of those that an outage blanks, or if all
\* it showed has answered that there is nothing to show; and what it shows of a
\* source is never replaced by something older.
NeverBlanked ==
  /\ board # Empty /\ board' = Empty /\ changes' = changes =>
       \/ kind \in Blanking
       \/ kind \in MayEmpty /\ \A s \in Sources : board[s] # 0 => s \notin failed
  /\ \A s \in Sources : board[s] # 0 /\ board'[s] # 0 => board'[s] >= board[s]

\* What a board should come to show.  Congress needs the prior year only while
\* the current one is thin, and a board that keeps the last thing it showed goes
\* on showing it when there is nothing left to show.
Current ==
  \/ kind # "congress" /\ board = Worth
  \/ kind = "congress" /\ Worth[Newest] # 0 /\ board = [Worth EXCEPT ![CHOOSE s \in Sources : s # Newest] = 0]
  \/ kind = "congress" /\ Worth[Newest] = 0 /\ board = Worth
  \/ Worth = Empty /\ kind \notin Blanking \cup MayEmpty

\* Outages, shrunk lists and changes in the middle of a scan leave no trace: once
\* everything answers for good, the board comes to show what there is.
CatchesUp == (<>[](down = {})) => <>[]Current

BoardsCatchUp == [][NeverBlanked]_boardVars /\ (Fairness => CatchesUp)
=============================================================================
