---------------------------- MODULE SingleFlight ----------------------------
(***************************************************************************)
(* What the report cache of Tickwind promises ("exactly ONE bg gen per     *)
(* (ticker, ET-month, lang)"): a process takes a key nobody else works on, *)
(* gives it back, and only a restart takes the keys of all of them away.   *)
(***************************************************************************)
CONSTANTS
  Procs,  \* requests, each with the goroutine it may spawn
  Keys,   \* cache keys
  None    \* no key

VARIABLE flight  \* the key each process is working on

Init == flight = [p \in Procs |-> None]

Take(p, k) ==
  /\ flight[p] = None
  /\ \A q \in Procs : flight[q] # k
  /\ flight' = [flight EXCEPT ![p] = k]

Release(p) ==
  /\ flight[p] # None
  /\ flight' = [flight EXCEPT ![p] = None]

Restart == flight' = [p \in Procs |-> None]

Next ==
  \/ \E p \in Procs, k \in Keys : Take(p, k)
  \/ \E p \in Procs : Release(p)
  \/ Restart

Spec == Init /\ [][Next]_flight
=============================================================================
