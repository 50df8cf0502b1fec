---------------------------- MODULE InsiderBuys -----------------------------
(***************************************************************************)
(* OpportunityIngestor (internal/ingest): one goroutine sweeps the SEC's   *)
(* daily Form 4 index for insider purchases, marks what it has fetched in  *)
(* memory and in the seen_form4 table, saves the purchases and recomputes  *)
(* the Opportunity board from the saved ones, the share counts and         *)
(* Alpaca's prices.  Both upstreams come and go, a statement of the store  *)
(* may fail, and the process may crash between any two steps.              *)
(***************************************************************************)
EXTENDS Integers, Sequences, FiniteSets

CONSTANTS
  Filings,   \* Form 4s, each of a company of its own
  Purchases, \* those that report open-market purchases
  DayOf,     \* [Filings -> 1..MaxDay], the index that lists each
  Backfill,  \* days swept at a start
  Window,    \* days of purchases on the board (30)
  MaxDay,    \* bound: days
  MaxFaults  \* bound: statements that fail, crashes

BuysAssumption ==
  /\ DayOf \in [Filings -> 1..MaxDay] /\ Purchases \subseteq Filings
  /\ Backfill \in Nat /\ MaxDay \in Nat \ {0} /\ MaxFaults \in Nat

VARIABLES
  today,
  filed,   \* filings the SEC has put in its indexes
  secUp, alpacaUp,
  marked,  \* seen_form4
  stored,  \* insider_buys
  pc,      \* start, list, fetch, save, compute or idle
  booting, \* the sweep of a start, with a board after each day
  days,    \* days still to sweep
  refs,    \* filings of this day still to fetch
  seen,    \* o.seen
  batch,   \* seenNow, and the purchases among it
  shares,  \* o.shares is there
  board,   \* companies on the board
  faults,
  lost     \* history: purchases whose save failed, or a crash prevented, after the mark

tables == <<marked, stored>>
outside == <<today, filed, secUp, alpacaUp>>
buyVars == <<outside, tables, pc, booting, days, refs, seen, batch, shares, board, faults, lost>>

Init ==
  /\ today = 1 /\ filed = {} /\ secUp \in BOOLEAN /\ alpacaUp \in BOOLEAN
  /\ marked = {} /\ stored = {}
  /\ pc = "start" /\ booting = TRUE /\ days = <<>> /\ refs = {} /\ seen = {} /\ batch = {}
  /\ shares = FALSE /\ board = {} /\ faults = 0 /\ lost = {}

\* A statement of the store fails.
Fault == faults < MaxFaults /\ faults' = faults + 1

FromTo(m, n) == [i \in 1..(n - m + 1) |-> m + i - 1]
Since(n) == IF n < 1 THEN 1 ELSE n

\* Run: loadSeen, whose window covers the backfill, and refreshShares.
Start ==
  /\ pc = "start" /\ pc' = "compute"
  /\ \/ seen' = marked /\ UNCHANGED faults
     \/ seen' = {} /\ Fault
  /\ shares' = secUp
  /\ booting' = TRUE /\ days' = FromTo(Since(today - Backfill), today)
  /\ UNCHANGED <<outside, tables, refs, batch, board, lost>>

\* The ticker fires: yesterday's index, then today's.
TickerFires ==
  /\ pc = "idle" /\ pc' = "list"
  /\ days' = FromTo(Since(today - 1), today)
  /\ UNCHANGED <<outside, tables, booting, refs, seen, batch, shares, board, faults, lost>>

\* After a day: the board when the process starts, else when all days are done.
AfterDay(rest) == IF booting \/ rest = <<>> THEN "compute" ELSE "list"

\* ingestDay: the index of the day, if there is one already, without what was seen.
ListDay ==
  /\ pc = "list" /\ days' = Tail(days)
  /\ LET listed == {f \in filed : DayOf[f] = Head(days)}
     IN  IF secUp /\ listed # {} THEN pc' = "fetch" /\ refs' = listed \ seen
         ELSE pc' = AfterDay(Tail(days)) /\ UNCHANGED refs
  /\ UNCHANGED <<outside, tables, booting, seen, batch, shares, board, faults, lost>>

\* Mutant: a filing is seen before it is fetched.
FetchSeenFirst(f) ==
  /\ pc = "fetch" /\ f \in refs /\ refs' = refs \ {f}
  /\ seen' = seen \cup {f}
  /\ batch' = IF secUp THEN batch \cup {f} ELSE batch
  /\ UNCHANGED <<outside, tables, pc, booting, days, shares, board, faults, lost>>

\* FetchForm4: one that fails is not marked, and fetched again in a later sweep.
Fetch(f) ==
  /\ pc = "fetch" /\ f \in refs /\ refs' = refs \ {f}
  /\ IF secUp THEN seen' = seen \cup {f} /\ batch' = batch \cup {f} ELSE UNCHANGED <<seen, batch>>
  /\ UNCHANGED <<outside, tables, pc, booting, days, shares, board, faults, lost>>

\* MarkForm4Seen, whose error is only logged.
Mark ==
  /\ pc = "fetch" /\ refs = {} /\ pc' = "save"
  /\ \/ marked' = marked \cup batch /\ UNCHANGED faults
     \/ batch # {} /\ Fault /\ UNCHANGED marked
  /\ UNCHANGED <<outside, stored, booting, days, refs, seen, batch, shares, board, lost>>

\* SaveInsiderBuys, one batch: all or none of it.
Save ==
  /\ pc = "save" /\ pc' = AfterDay(days) /\ batch' = {}
  /\ \/ stored' = stored \cup (batch \cap Purchases) /\ UNCHANGED <<faults, lost>>
     \/ /\ batch \cap Purchases # {} /\ Fault
        /\ lost' = lost \cup ((batch \cap Purchases) \ stored) /\ UNCHANGED stored
  /\ UNCHANGED <<outside, marked, booting, days, refs, seen, shares, board>>

Recent == {f \in stored : DayOf[f] > today - Window}

\* recompute.  A company is on the board if its price and share count are known:
\* refreshShares is tried again here as long as there is no count.
Recompute ==
  /\ pc = "compute" /\ pc' = IF days = <<>> THEN "idle" ELSE "list"
  /\ booting' = (booting /\ days # <<>>)
  /\ shares' = (shares \/ (~booting /\ secUp))
  /\ \/ Recent = {} /\ board' = {} /\ UNCHANGED faults
     \/ UNCHANGED board /\ Fault
     \/ /\ Recent # {} /\ alpacaUp /\ UNCHANGED faults
        /\ board' = IF shares' THEN Recent ELSE {}
     \* An error, no price at all, or the prices of some.
     \/ /\ Recent # {} /\ ~alpacaUp /\ UNCHANGED faults
        /\ \/ UNCHANGED board
           \/ \E priced \in SUBSET Recent :
                priced # {} /\ board' = IF shares' THEN priced ELSE {}
  /\ UNCHANGED <<outside, tables, days, refs, seen, batch, lost>>

Ingestor == Start \/ TickerFires \/ ListDay \/ (\E f \in Filings : Fetch(f)) \/ Mark \/ Save \/ Recompute

\* The process crashes and starts again: only the tables survive.
Crash ==
  /\ Fault
  /\ pc' = "start" /\ booting' = TRUE /\ days' = <<>> /\ refs' = {} /\ seen' = {} /\ batch' = {}
  /\ shares' = FALSE /\ board' = {}
  /\ lost' = lost \cup ((batch \cap marked \cap Purchases) \ stored)
  /\ UNCHANGED <<outside, tables>>

\* The SEC puts a filing in the index of its day, perhaps late.
Disseminate(f) ==
  /\ f \notin filed /\ DayOf[f] <= today
  /\ filed' = filed \cup {f}
  /\ UNCHANGED <<today, secUp, alpacaUp, tables, pc, booting, days, refs, seen, batch, shares, board, faults, lost>>

Midnight ==
  /\ today < MaxDay /\ today' = today + 1
  /\ UNCHANGED <<filed, secUp, alpacaUp, tables, pc, booting, days, refs, seen, batch, shares, board, faults, lost>>

Outage ==
  /\ \/ secUp' = ~secUp /\ UNCHANGED alpacaUp
     \/ alpacaUp' = ~alpacaUp /\ UNCHANGED secUp
  /\ UNCHANGED <<today, filed, tables, pc, booting, days, refs, seen, batch, shares, board, faults, lost>>

Next ==
  \/ Ingestor \/ Crash
  \/ \E f \in Filings : Disseminate(f)
  \/ Midnight \/ Outage

\* The ticker fires and every call has a deadline.
Fairness == WF_buyVars(Ingestor)

Spec == Init /\ [][Next]_buyVars /\ Fairness

-----------------------------------------------------------------------------
(* Properties. *)

TypeOK ==
  /\ today \in 1..MaxDay /\ filed \subseteq Filings /\ secUp \in BOOLEAN /\ alpacaUp \in BOOLEAN
  /\ marked \subseteq filed /\ stored \subseteq filed \cap Purchases
  /\ pc \in {"start", "list", "fetch", "save", "compute", "idle"} /\ booting \in BOOLEAN
  /\ days \in Seq(1..MaxDay) /\ refs \subseteq filed /\ seen \subseteq filed /\ batch \subseteq seen
  /\ shares \in BOOLEAN /\ board \subseteq stored
  /\ faults \in 0..MaxFaults /\ lost \subseteq Purchases

\* A filing that will not be fetched again is saved, about to be, or lost to a
\* save that failed or a crash in the one place where it can be.
NoneForgotten == (seen \cup marked) \cap Purchases \subseteq stored \cup batch \cup lost

\* "Keep the last-good board": it goes empty only with the process, or when no
\* purchase is recent.
BoardIsKept == board # {} /\ board' = {} => faults' # faults \/ Recent = {}

\* Once the SEC answers for good, every purchase is saved or lost, unless its day
\* went by with no answer; and once Alpaca does too, the board has all the recent.
Reached ==
  /\ (<>[]secUp) => <>[](\A f \in filed \cap Purchases :
                           f \in stored \cup lost \/ DayOf[f] < today - 1)
  /\ (<>[](secUp /\ alpacaUp)) => <>[](board = Recent)

BuysAreKept == [][NoneForgotten' /\ BoardIsKept]_buyVars /\ (Fairness => Reached)
=============================================================================
