--------------------------- MODULE MCEntitlement ---------------------------
(* Small instances of Entitlement for TLC. *)
EXTENDS Entitlement, TLC

CONSTANTS s1, s2

\* s1's period ends first: the reconciler's tie break has something to break.
MCPeriodEnd == (s1 :> 1) @@ (s2 :> 2)

\* Users, customers and requests are interchangeable (subscriptions are not:
\* their periods differ).
Symmetric == Permutations(Users) \cup Permutations(Customers) \cup Permutations(Workers)
=============================================================================
