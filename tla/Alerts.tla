------------------------------- MODULE Alerts -------------------------------
(***************************************************************************)
(* Users' one-shot alerts: the handlers that create, delete and re-arm     *)
(* them, the table, and the evaluator of internal/ingest (alerts.go) that  *)
(* lists the armed ones every two minutes, looks each up and stamps those  *)
(* whose condition holds.                                                  *)
(*                                                                         *)
(* A condition is a Boolean of the ticker (a price level, a signal, a      *)
(* filing newer than the alert).  The evaluator looks a ticker up once a   *)
(* cycle and remembers the answer.                                         *)
(***************************************************************************)
EXTENDS Naturals

CONSTANTS
  AlertIds,
  Tickers,
  TickerOf,   \* [AlertIds -> Tickers]
  None,
  MaxArmings, \* bound: how often one alert is armed
  MaxFaults   \* bound: store calls that fail, broken rows aside

VARIABLES
  backend,  \* memory or postgres
  broken,   \* alerts whose update fails every time
  row,      \* none, armed (active, triggered_at null), fired or gone
  holds,    \* the condition of each ticker
  cycle,    \* the evaluator is in a cycle
  todo,     \* alerts listed in this cycle and not looked at yet
  known,    \* what this cycle found per ticker: nothing yet, or the condition
  hot,      \* the alert it is about to stamp
  armings, stamps,  \* history, per alert
  faults

tableVars == <<row, armings, stamps>>
evalVars == <<cycle, todo, known, hot>>
alertVars == <<backend, broken, holds, tableVars, evalVars, faults>>

Init ==
  /\ backend \in {"memory", "postgres"}
  /\ broken \in SUBSET AlertIds
  /\ row = [a \in AlertIds |-> "none"]
  /\ holds = [t \in Tickers |-> FALSE]
  /\ cycle = FALSE /\ todo = {} /\ hot = None
  /\ known = [t \in Tickers |-> None]
  /\ armings = [a \in AlertIds |-> 0] /\ stamps = [a \in AlertIds |-> 0]
  /\ faults = 0

\* The market moves, a filing comes in.
Change(t) ==
  /\ holds' = [holds EXCEPT ![t] = ~@]
  /\ UNCHANGED <<backend, broken, tableVars, evalVars, faults>>

-----------------------------------------------------------------------------
(* The user. *)

\* postAlert makes a new id every time.
Post(a) ==
  /\ row[a] = "none"
  /\ row' = [row EXCEPT ![a] = "armed"]
  /\ armings' = [armings EXCEPT ![a] = 1]
  /\ UNCHANGED <<backend, broken, holds, stamps, evalVars, faults>>

Delete(a) ==
  /\ row[a] \in {"armed", "fired"}
  /\ row' = [row EXCEPT ![a] = "gone"]
  /\ UNCHANGED <<backend, broken, holds, armings, stamps, evalVars, faults>>

\* reactivateAlert clears the trigger; on an armed alert it changes nothing.
Reactivate(a) ==
  /\ row[a] = "fired" /\ armings[a] < MaxArmings
  /\ row' = [row EXCEPT ![a] = "armed"]
  /\ armings' = [armings EXCEPT ![a] = @ + 1]
  /\ UNCHANGED <<backend, broken, holds, stamps, evalVars, faults>>

-----------------------------------------------------------------------------
(* The evaluator. *)

\* Mutant: the list does not ask for triggered_at (active stays true for ever).
ListedUntriggered == {a \in AlertIds : row[a] \in {"armed", "fired"}}

Listed == {a \in AlertIds : row[a] = "armed"}

StartCycle ==
  /\ ~cycle
  /\ cycle' = TRUE
  /\ \/ todo' = Listed /\ UNCHANGED faults
     \/ faults < MaxFaults /\ faults' = faults + 1 /\ todo' = {}
  /\ known' = [t \in Tickers |-> None]
  /\ UNCHANGED <<backend, broken, holds, tableVars, hot>>

\* The ticker is looked up, once a cycle; a failed read counts as "no".
Look(a) ==
  /\ cycle /\ hot = None /\ a \in todo
  /\ todo' = todo \ {a}
  /\ LET t == TickerOf[a]
     IN  /\ \/ known[t] # None /\ UNCHANGED <<known, faults>>
            \/ known[t] = None /\ known' = [known EXCEPT ![t] = holds[t]] /\ UNCHANGED faults
            \/ /\ known[t] = None /\ faults < MaxFaults
               /\ faults' = faults + 1 /\ known' = [known EXCEPT ![t] = FALSE]
         /\ hot' = IF known'[t] THEN a ELSE None
  /\ UNCHANGED <<backend, broken, holds, tableVars, cycle>>

\* Mutant: a failed update ends the cycle.
MarkFailsAndReturns ==
  /\ hot # None
  /\ hot \in broken
  /\ hot' = None /\ todo' = {}
  /\ UNCHANGED <<backend, broken, holds, tableVars, cycle, known, faults>>

\* The update fails: the alert stays armed for the next cycle.
MarkFails ==
  /\ hot # None
  /\ IF hot \in broken THEN UNCHANGED faults
                       ELSE faults < MaxFaults /\ faults' = faults + 1
  /\ hot' = None
  /\ UNCHANGED <<backend, broken, holds, tableVars, cycle, todo, known>>

\* MarkAlertTriggered: Postgres stamps only a row that has no trigger yet, the
\* memory store any row it finds.
Mark ==
  /\ hot # None /\ hot \notin broken
  /\ IF row[hot] = "armed" \/ (backend = "memory" /\ row[hot] = "fired")
     THEN /\ row' = [row EXCEPT ![hot] = "fired"]
          /\ stamps' = [stamps EXCEPT ![hot] = IF @ > MaxArmings THEN @ ELSE @ + 1]
     ELSE UNCHANGED <<row, stamps>>
  /\ hot' = None
  /\ UNCHANGED <<backend, broken, holds, armings, cycle, todo, known, faults>>

EndCycle ==
  /\ cycle /\ todo = {} /\ hot = None
  /\ cycle' = FALSE
  /\ UNCHANGED <<backend, broken, holds, tableVars, todo, known, hot, faults>>

Evaluator == StartCycle \/ (\E a \in AlertIds : Look(a)) \/ MarkFails \/ Mark \/ EndCycle

Next ==
  \/ Evaluator
  \/ \E a \in AlertIds : Post(a) \/ Delete(a) \/ Reactivate(a)
  \/ \E t \in Tickers : Change(t)

\* The ticker of Run keeps firing.
Fairness == WF_alertVars(Evaluator)

Spec == Init /\ [][Next]_alertVars /\ Fairness

-----------------------------------------------------------------------------
(* Properties. *)

TypeOK ==
  /\ backend \in {"memory", "postgres"} /\ broken \subseteq AlertIds
  /\ row \in [AlertIds -> {"none", "armed", "fired", "gone"}]
  /\ holds \in [Tickers -> BOOLEAN] /\ cycle \in BOOLEAN /\ todo \subseteq AlertIds
  /\ known \in [Tickers -> BOOLEAN \cup {None}] /\ hot \in AlertIds \cup {None}
  /\ armings \in [AlertIds -> 0..MaxArmings] /\ stamps \in [AlertIds -> Nat]
  /\ faults \in 0..MaxFaults

\* An alert is one-shot: it is stamped at most once for each time it is armed,
\* whatever the user does between the listing and the stamp, on both stores.
OneShot == \A a \in AlertIds : stamps[a] <= armings[a]

\* An armed alert whose condition stays true fires, even if the update of
\* another one fails in every cycle.
EventuallyFires ==
  \A a \in AlertIds :
    a \notin broken => []<>~(row[a] = "armed" /\ holds[TickerOf[a]])
=============================================================================
