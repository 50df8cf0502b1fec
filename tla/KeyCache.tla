------------------------------ MODULE KeyCache ------------------------------
(***************************************************************************)
(* The signing keys of internal/auth (Verifier): requests whose token      *)
(* names a key look it up in a cache under a mutex and, when the key is    *)
(* unknown and the cache is older than a minute, fetch the whole key set   *)
(* outside the mutex and look again.  The issuer rotates its key.          *)
(*                                                                         *)
(* Keys are numbered in the order of their rotation.                       *)
(***************************************************************************)
EXTENDS Naturals

CONSTANTS
  Requests,  \* requests in flight, each of a client that tries again
  MaxKey,    \* bound: rotations
  MaxFaults  \* bound: fetches that fail

KeysAssumption == MaxKey \in Nat \ {0} /\ MaxFaults \in Nat

Kids == 1..MaxKey

VARIABLES
  current,   \* the key the issuer signs with, the only one it publishes
  keys,      \* Verifier.keys
  stale,     \* more than a minute since fetchedAt
  pc, kid,   \* each request: where it is, the key its token names
  answer,    \* the key set its fetch returned
  faults,
  refused    \* history: it was just refused

keyVars == <<current, keys, stale, pc, kid, answer, faults, refused>>

Init ==
  /\ current = 1 /\ keys = {} /\ stale = TRUE
  /\ pc = [r \in Requests |-> "idle"] /\ kid = [r \in Requests |-> 0]
  /\ answer = [r \in Requests |-> {}]
  /\ faults = 0
  /\ refused = [r \in Requests |-> FALSE]

Rotate ==
  /\ current < MaxKey /\ current' = current + 1
  /\ UNCHANGED <<keys, stale, pc, kid, answer, faults, refused>>

\* A minute without a fetch.
Expire ==
  /\ ~stale /\ stale' = TRUE
  /\ UNCHANGED <<current, keys, pc, kid, answer, faults, refused>>

\* A request comes with a token of the current key (it may be retired before
\* the token is verified).
Arrive(r) ==
  /\ pc[r] = "idle"
  /\ pc' = [pc EXCEPT ![r] = "look"] /\ kid' = [kid EXCEPT ![r] = current]
  /\ UNCHANGED <<current, keys, stale, answer, faults, refused>>

Finish(r, ok) ==
  /\ pc' = [pc EXCEPT ![r] = "idle"] /\ refused' = [refused EXCEPT ![r] = ~ok]

Look(r) ==
  /\ pc[r] = "look"
  /\ IF kid[r] \in keys \/ ~stale
     THEN Finish(r, kid[r] \in keys)
     ELSE pc' = [pc EXCEPT ![r] = "fetch"] /\ UNCHANGED refused
  /\ UNCHANGED <<current, keys, stale, kid, answer, faults>>

\* The issuer answers the GET, or it fails.
Fetch(r) ==
  /\ pc[r] = "fetch"
  /\ \/ /\ answer' = [answer EXCEPT ![r] = {current}]
        /\ pc' = [pc EXCEPT ![r] = "store"] /\ UNCHANGED <<faults, refused>>
     \/ /\ faults < MaxFaults /\ faults' = faults + 1
        /\ Finish(r, FALSE) /\ UNCHANGED answer
  /\ UNCHANGED <<current, keys, stale, kid>>

\* The key set is replaced whole, by whichever fetch comes last.
Store(r) ==
  /\ pc[r] = "store"
  /\ keys' = answer[r] /\ stale' = FALSE
  /\ answer' = [answer EXCEPT ![r] = {}]
  /\ pc' = [pc EXCEPT ![r] = "again"]
  /\ UNCHANGED <<current, kid, faults, refused>>

LookAgain(r) ==
  /\ pc[r] = "again" /\ Finish(r, kid[r] \in keys)
  /\ UNCHANGED <<current, keys, stale, kid, answer, faults>>

Serve(r) == Arrive(r) \/ Look(r) \/ Fetch(r) \/ Store(r) \/ LookAgain(r)

Next == Rotate \/ Expire \/ \E r \in Requests : Serve(r)

\* Clients keep asking, their requests are served, and minutes pass.
Fairness ==
  /\ \A r \in Requests : WF_keyVars(Serve(r))
  /\ WF_keyVars(Expire)

Spec == Init /\ [][Next]_keyVars /\ Fairness

-----------------------------------------------------------------------------
(* Properties. *)

TypeOK ==
  /\ current \in Kids /\ keys \subseteq Kids /\ stale \in BOOLEAN
  /\ pc \in [Requests -> {"idle", "look", "fetch", "store", "again"}]
  /\ kid \in [Requests -> 0..MaxKey] /\ answer \in [Requests -> SUBSET Kids]
  /\ faults \in 0..MaxFaults
  /\ refused \in [Requests -> BOOLEAN]

\* Signed-in users are not locked out by a rotation: whatever fetches fail or
\* are answered late with the keys of before, a client that keeps trying with a
\* token of the key in use is accepted in the end, and from then on.
KeysCatchUp == \A r \in Requests : <>[](pc[r] = "idle" => ~refused[r])
=============================================================================
