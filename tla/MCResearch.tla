----------------------------- MODULE MCResearch -----------------------------
(***************************************************************************)
(* Small instances of Research for TLC: one user whose free quota is one   *)
(* report a month, two processes, days of one month.                       *)
(***************************************************************************)
EXTENDS Research, TLC

OneEach == [u \in Users |-> 1]
Symmetric == Permutations(Procs)
OneMonth == [d \in Days |-> 0]
=============================================================================
