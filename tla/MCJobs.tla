------------------------------- MODULE MCJobs -------------------------------
(***************************************************************************)
(* Small instances, for TLC, of the jobs that run beside the requests: the *)
(* gated generations (DailyGates), the alerts (Alerts), the briefing and   *)
(* its broadcast (Briefing), the boards of the market (Boards), that of    *)
(* the insider purchases (InsiderBuys) and the trades of Congress          *)
(* (Disclosures).  They share no state: a behaviour is one of the module   *)
(* in focus, and the variables of the others keep a value of their own     *)
(* initial state.                                                          *)
(***************************************************************************)
EXTENDS Alerts, Briefing, Integers, Sequences, FiniteSets

CONSTANTS Procs, t1, t2, f1, f2

VARIABLES
  focus,
  kind, today, cache, stored, inflight, dayDate, dayCount, pc, job, slot, asks, gateFaults,
  restarted, spent, made, wedged, stray, turnedBack,        \* DailyGates
  scan, world, down, step, toWalk, failed, found, served, changes, \* Boards
  date4, filed, secUp, alpacaUp, marked, saved, sweep, booting, days, refs, seen, batch,
  shares, board, sweepFaults, lostBuys,                     \* InsiderBuys
  utcDay, clerkUp, directory, extractor, listing, unread, credit, tried, parsed, dropped, gated,
  snapshot, request, kept, outages                          \* Disclosures

\* Both alerts watch one ticker: the evaluator looks it up once a cycle.
Watched == [a \in AlertIds |-> t1]

Gates == INSTANCE DailyGates WITH
  Tickers <- {t1, t2}, Cap <- 1, MaxDay <- 2, MaxAsks <- 3, MaxFaults <- 1,
  faults <- gateFaults

Scans == INSTANCE Boards WITH
  Sources <- {t1, t2}, Watched <- {t2}, Newest <- t1, MaxChanges <- 1,
  kind <- scan, pc <- step, todo <- toWalk, board <- served

\* Two Form 4s, one a day.
IndexOf == [f \in {f1, f2} |-> IF f = f1 THEN 1 ELSE 2]
Buys == INSTANCE InsiderBuys WITH
  Filings <- {f1, f2}, Purchases <- {f1, f2}, DayOf <- IndexOf, Backfill <- 1, Window <- 2,
  MaxDay <- 3, MaxFaults <- 1, today <- date4, stored <- saved, pc <- sweep,
  faults <- sweepFaults, lost <- lostBuys

\* Four documents of two members over a new year: one in both years' indexes, under two
\* names, one on paper, and two that trade in listed, unlisted and no tickers.
Report(d, m, y, i, on) == [doc |-> d, name |-> m, year |-> y, at |-> i, filed |-> on]
Reports ==
  {Report("d1", "P.", 1, 1, 2), Report("d1", "Q", 2, 2, 2), Report("d2", "P", 2, 1, 3),
   Report("d3", "Q", 1, 2, 2), Report("d4", "Q", 2, 3, 3)}
Slugs == [n \in {"P.", "P", "Q"} |-> IF n = "P." THEN "P" ELSE n]
Trade(k, w, d) == [ticker |-> k, type |-> w, day |-> d]
Pdfs ==
  [d1 |-> <<Trade("A", "purchase", 1), Trade("B", "purchase", 1)>>,
   d2 |-> <<Trade("A", "sale", 3), Trade("X", "purchase", 2), Trade("A", "purchase", 1),
            Trade(None, "purchase", 1)>>,
   d3 |-> None, d4 |-> <<Trade("B", "purchase", 3)>>]
Close(d, c) == [day |-> d, close |-> c]
Closes ==
  [A |-> <<Close(1, 6), Close(3, 10)>>, B |-> <<Close(2, 10), Close(3, 7)>>, X |-> <<Close(3, 5)>>,
   SPY |-> <<Close(1, 11), Close(3, 13)>>]
Congress == INSTANCE Disclosures WITH
  Rows <- Reports, PdfOf <- Pdfs, Scan <- None, Paper <- {"d3"}, SlugOf <- Slugs,
  Universe <- {"A", "B"}, Bars <- Closes, SPY <- "SPY", YearOf <- <<1, 2, 2>>, Thin <- 3,
  MaxRows <- 2, Budget <- 1, Week <- 1, LastDay <- 3, Gaps <- {{}, {"A"}}, MaxOutages <- 1,
  date <- utcDay

ASSUME JobsConstants ==
  /\ Gates!GatesAssumption /\ Scans!ScansAssumption /\ Buys!BuysAssumption
  /\ Congress!DisclosureAssumption

gatesVars == <<kind, today, cache, stored, inflight, dayDate, dayCount, pc, job, slot, asks,
               gateFaults, restarted, spent, made, wedged, stray, turnedBack>>
scanVars == <<scan, world, down, step, toWalk, failed, found, served, changes>>
buysVars == <<date4, filed, secUp, alpacaUp, marked, saved, sweep, booting, days, refs, seen,
              batch, shares, board, sweepFaults, lostBuys>>
congressVars == <<utcDay, clerkUp, directory, extractor, listing, unread, credit, tried, parsed,
                  dropped, gated, snapshot, request, kept, outages>>
MCInit ==
  /\ focus \in {"DailyGates", "Alerts", "Briefing", "Boards", "InsiderBuys", "Disclosures"}
  /\ Gates!Init /\ (focus # "DailyGates" => kind = "summary")
  /\ Init /\ (focus # "Alerts" => backend = "memory" /\ broken = {})
  /\ BriefInit /\ (focus # "Briefing" => ~morning)
  /\ Scans!Init /\ (focus # "Boards" => scan = "rails" /\ down = {} /\ served = Scans!Worth)
  /\ Buys!Init /\ (focus # "InsiderBuys" => secUp /\ alpacaUp)
  /\ Congress!Init /\ (focus # "Disclosures" => clerkUp /\ ~extractor)

MCNext ==
  \/ /\ focus = "DailyGates" /\ Gates!Next
     /\ UNCHANGED <<focus, alertVars, briefVars, scanVars, buysVars, congressVars>>
  \/ /\ focus = "Alerts" /\ Next
     /\ UNCHANGED <<focus, gatesVars, briefVars, scanVars, buysVars, congressVars>>
  \/ /\ focus = "Briefing" /\ BriefNext
     /\ UNCHANGED <<focus, gatesVars, alertVars, scanVars, buysVars, congressVars>>
  \/ /\ focus = "Boards" /\ Scans!Next
     /\ UNCHANGED <<focus, gatesVars, alertVars, briefVars, buysVars, congressVars>>
  \/ /\ focus = "InsiderBuys" /\ Buys!Next
     /\ UNCHANGED <<focus, gatesVars, alertVars, briefVars, scanVars, congressVars>>
  \/ /\ focus = "Disclosures" /\ Congress!Next
     /\ UNCHANGED <<focus, gatesVars, alertVars, briefVars, scanVars, buysVars>>

MCSpec ==
  MCInit /\ [][MCNext]_<<focus, gatesVars, alertVars, briefVars, scanVars, buysVars, congressVars>>

-----------------------------------------------------------------------------
(* The properties of the modules, under one name each, liveness under the  *)
(* fairness of its own module.                                             *)

\* Every module's state has its type.
TypesOK ==
  Gates!TypeOK /\ TypeOK /\ BriefTypeOK /\ Scans!TypeOK /\ Buys!TypeOK /\ Congress!TypeOK

\* The gated generations: one at a time for a key, within the day's budget, and every key that
\* is taken is given back.
GatesAreSound ==
  /\ Gates!GatesAreSingleFlight
  /\ [][Gates!BudgetKept']_gatesVars
  /\ focus = "DailyGates" /\ Gates!Fairness => Gates!GatesReopen

\* An alert whose price stays met fires in the end, though others of its cycle fail.
AlertsFire == focus = "Alerts" /\ Fairness => EventuallyFires

\* A scan never replaces a board with an emptier one for a failing source, and the board
\* catches up with the market; the reports of Congress are all read in the end.
BoardsCatchUp ==
  /\ [][Scans!NeverBlanked]_scanVars
  /\ focus = "Boards" /\ Scans!Fairness => Scans!CatchesUp
  /\ focus = "Disclosures" /\ Congress!Fairness => Congress!ReportsAreRead

\* No purchase is forgotten for a failing fetch or a restart, and each reaches the board; what
\* a report of Congress discloses is shown, once, and the simulation of following it adds up.
BuysAreKept ==
  /\ [][Buys!NoneForgotten' /\ Buys!BoardIsKept]_buysVars
  /\ focus = "InsiderBuys" /\ Buys!Fairness => Buys!Reached
  /\ [](Congress!TradesAreShown /\ Congress!SimulationAddsUp)

\* The day's briefing is made and broadcast in the end.
BriefingArrives == focus = "Briefing" /\ BriefFairness => BriefingDelivered
=============================================================================
