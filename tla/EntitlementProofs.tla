-------------------------- MODULE EntitlementProofs --------------------------
(***************************************************************************)
(* Theorems of Entitlement, for every number of users, customers,          *)
(* subscriptions, concurrent requests, events and faults.                  *)
(***************************************************************************)
EXTENDS Entitlement, FiniteSetTheorems, TLAPS

(***************************************************************************)
(* The inductive invariant.  A row is safe to write, whoever writes it and *)
(* however stale it is, because what makes it safe (who opened a checkout, *)
(* which events Stripe has emitted) never becomes false again.             *)
(***************************************************************************)

\* Customer c was opened by a checkout of user u.
Owns(u, c) == \E s \in Subs : stripe[s] # "none" /\ session[s] = [user |-> u, cust |-> c]

\* Stripe has reported subscription s active.
Paid(s) == \E e \in sent : e.sub = s /\ e.status = "active"

\* Row r may stand as the row of user u.
Sound(r, u) ==
  /\ r.tier = TierOf(r, FALSE)
  /\ r.cust # None => Owns(u, r.cust)
  /\ r.tier = "pro" => /\ r.sub # None
                       /\ stripe[r.sub] # "none"
                       /\ UserOf(r.sub) = u
                       /\ Paid(r.sub)

\* A checkout that was opened has a user and a customer; no customer belongs
\* to two users; a subscription that is active has been reported so.
StripeInv ==
  /\ \A s \in Subs : stripe[s] # "none" => UserOf(s) \in Users /\ CustOf(s) \in Customers
  /\ \A s \in Subs : stripe[s] = "none" => session[s] = NoSession
  /\ \A s, t \in Subs : CustOf(s) = CustOf(t) /\ CustOf(s) # None => UserOf(s) = UserOf(t)
  /\ \A s \in Subs : stripe[s] = "active" => Paid(s)
  /\ \A e \in sent : stripe[e.sub] # "none"

WorkerInv(w) ==
  /\ worker[w].pc # "idle" => worker[w].ev \in sent
  /\ worker[w].pc \in {"repull", "upsert"} =>
       /\ worker[w].user \in Users
       /\ worker[w].row.cust # None
       /\ Sound(worker[w].row, worker[w].user)
       /\ worker[w].ev.type = "checkout" => worker[w].user = UserOf(worker[w].ev.sub)
  /\ worker[w].pc = "mark" /\ worker[w].ev.type = "checkout" =>
       row[UserOf(worker[w].ev.sub)].cust # None
  /\ worker[w].pc = "repull" => worker[w].ev.type = "checkout"

\* What the reconciler holds, in r: a listing of the customer's own
\* subscription, a row to write for its user, rows to revoke.
ListingInv(b, c) ==
  /\ b.sub \in Subs
  /\ b.status \in Live
  /\ CustOf(b.sub) = c
  /\ stripe[b.sub] # "none"
  /\ b.status = "active" => Paid(b.sub)

RecHolds(r) ==
  /\ \A c \in Customers : r.best[c] # NotListed => ListingInv(r.best[c], c)
  /\ r.pc = "write" => r.user \in Users /\ r.row.cust # None /\ Sound(r.row, r.user)
  /\ \A u \in Users : r.pro[u] # NoRow => r.pro[u].cust # None /\ Sound(r.pro[u], u)

RecInv == RecHolds(rec)

RowInv == \A u \in Users : Sound(row[u], u)

IInv ==
  /\ TypeOK
  /\ StripeInv
  /\ RowInv
  /\ \A w \in Workers : WorkerInv(w)
  /\ RecInv
  /\ ledger \subseteq sent
  /\ RecordedCheckoutIsBound

-----------------------------------------------------------------------------
(* Types. *)

LEMMA NoRowType == NoRow \in Row
BY DEF NoRow, Row, Tiers

LEMMA ApplyType ==
  ASSUME NEW r \in Row, NEW s \in Subs, NEW status \in Live
  PROVE  ApplyStripeSub(r, s, status) \in Row
BY DEF Row, ApplyStripeSub, SubTier, Tiers

LEMMA ApplyEventType ==
  ASSUME NEW r \in Row, NEW e \in Event
  PROVE  ApplyEvent(r, e) \in Row
BY DEF Row, Event, ApplyEvent, ApplyStripeSub, SubTier, Tiers, Live

LEMMA IdleTypes == IdleWorker \in WorkerState /\ IdleRec \in RecState
BY NoRowType DEF WorkerState, IdleRec, RecState, Listing, NotListed, Unlisted

\* Every step keeps every variable in its type.
LEMMA TypeStep == IInv /\ [Next]_vars => TypeOK'
<1> SUFFICES ASSUME IInv, [Next]_vars PROVE TypeOK'
  OBVIOUS
<1>0. TypeOK
  BY DEF IInv
<1> USE <1>0 DEF TypeOK
<1>1. ASSUME NEW u \in Users, NEW c \in Customers, NEW s \in Subs, OpenCheckout(u, c, s)
      PROVE  TypeOK'
  <2>1. faults' \in 0..MaxFaults
    BY <1>1, BoundsType DEF OpenCheckout
  <2> QED  BY <1>1, <2>1 DEF OpenCheckout, Session, Unlisted
<1>2. ASSUME NEW s \in Subs, Pay(s) PROVE TypeOK'
  <2> DEFINE e == Emit(1, "checkout", s, "active")
             f == Emit(2, "updated", s, "active")
  <2>1. Cardinality(sent) \in Nat
    BY FS_CardinalityType
  <2>2. e \in Event /\ f \in Event
    BY <2>1 DEF Emit, Event, EventTypes, Live
  <2>3. sent' = sent \cup {e, f}
    BY <1>2 DEF Pay
  <2>4. IsFiniteSet(sent')
    <3>1. sent' = (sent \cup {e}) \cup {f}
      BY <2>3
    <3> QED
      BY <3>1, FS_AddElement
  <2>5. sent' \subseteq Event
    BY <2>2, <2>3
  <2> QED
    BY <1>2, <2>4, <2>5 DEF Pay, Live
<1>3. ASSUME NEW s \in Subs, NEW status \in Live, Change(s, status) PROVE TypeOK'
  <2> DEFINE e == Emit(1, IF status = "canceled" THEN "deleted" ELSE "updated", s, status)
  <2>1. Cardinality(sent) \in Nat
    BY FS_CardinalityType
  <2>2. e \in Event
    BY <2>1 DEF Emit, Event, EventTypes
  <2>3. sent' = sent \cup {e}
    BY <1>3 DEF Change
  <2>4. IsFiniteSet(sent')
    BY <2>3, FS_AddElement
  <2> QED
    BY <1>3, <2>2, <2>3, <2>4 DEF Change
<1>4. ASSUME NEW s \in Subs, AgeOut(s) PROVE TypeOK'
  BY <1>4 DEF AgeOut, Unlisted
<1>5. ASSUME NEW w \in Workers, NEW e \in sent, Receive(w, e) PROVE TypeOK'
  BY <1>5, NoRowType DEF Receive, env, WorkerState, IdleWorker
<1>6. ASSUME NEW w \in Workers, LookupUser(w) PROVE TypeOK'
  <2>1. worker[w].ev \in Event /\ worker[w] \in WorkerState \ {IdleWorker}
    BY <1>6 DEF LookupUser, WorkerState, IdleWorker
  <2>2. UserOf(worker[w].ev.sub) \in Users /\ CustOf(worker[w].ev.sub) \in Customers
    BY <1>6, <2>1 DEF LookupUser, IInv, WorkerInv, StripeInv, Event
  <2>3. [row[UserOf(worker[w].ev.sub)] EXCEPT !.cust = CustOf(worker[w].ev.sub)] \in Row
    BY <2>2 DEF Row
  <2>4. worker'[w] \in WorkerState
    BY <1>6, <2>1, <2>2, <2>3 DEF LookupUser, WorkerState
  <2>5. worker' \in [Workers -> WorkerState]
    BY <1>6, <2>4 DEF LookupUser
  <2> QED
    BY <1>6, <2>5 DEF LookupUser, env
<1>7. ASSUME NEW w \in Workers, Repull(w) PROVE TypeOK'
  <2>1. worker[w] \in WorkerState \ {IdleWorker}
    BY <1>7 DEF Repull, IdleWorker
  <2>2. ApplyStripeSub(worker[w].row, worker[w].ev.sub, stripe[worker[w].ev.sub]) \in Row
    BY <1>7, <2>1, ApplyType DEF Repull, WorkerState, Event
  <2>3. worker'[w] \in WorkerState
    BY <1>7, <2>1, <2>2 DEF Repull, WorkerState
  <2> QED
    BY <1>7, <2>3 DEF Repull, env
<1>8. ASSUME NEW w \in Workers, RepullFails(w) PROVE TypeOK'
  BY <1>8 DEF RepullFails, Goto, env, WorkerState, IdleWorker
<1>9. ASSUME NEW w \in Workers, NEW u \in Users, LookupCustomer(w, u) PROVE TypeOK'
  <2>1. worker[w] \in WorkerState \ {IdleWorker}
    BY <1>9 DEF LookupCustomer, IdleWorker
  <2>2. ApplyEvent(row[u], worker[w].ev) \in Row
    BY <2>1, ApplyEventType DEF WorkerState
  <2>3. worker'[w] \in WorkerState
    BY <1>9, <2>1, <2>2 DEF LookupCustomer, WorkerState
  <2> QED
    BY <1>9, <2>3 DEF LookupCustomer, env
<1>10. ASSUME NEW w \in Workers, Unbound(w) PROVE TypeOK'
  BY <1>10 DEF Unbound, Goto, env, WorkerState, IdleWorker
<1>11. ASSUME NEW w \in Workers, Upsert(w) PROVE TypeOK'
  <2>1. worker[w] \in WorkerState \ {IdleWorker}
    BY <1>11 DEF Upsert, IdleWorker
  <2>2. worker'[w] \in WorkerState
    BY <1>11, <2>1, NoRowType DEF Upsert, WorkerState
  <2>3. row' \in [Users -> Row]
    BY <1>11, <2>1 DEF Upsert, WorkerState
  <2> QED
    BY <1>11, <2>2, <2>3 DEF Upsert, env
<1>12. ASSUME NEW w \in Workers, Mark(w) PROVE TypeOK'
  <2>1. worker[w] \in WorkerState \ {IdleWorker}
    BY <1>12 DEF Mark, IdleWorker
  <2>2. worker[w].ev \in Event
    BY <2>1 DEF WorkerState
  <2> QED
    BY <1>12, <2>2, IdleTypes DEF Mark, Done, env
<1>13. ASSUME NEW w \in Workers, StoreFails(w) PROVE TypeOK'
  BY <1>13, IdleTypes, BoundsType DEF StoreFails, Done, env
<1>14. CASE RecList
  <2>1. PICK best \in [Customers -> {NotListed} \cup {Listed(s) : s \in Subs}] :
          rec' = [IdleRec EXCEPT !.pc = "forward", !.best = best,
                                !.keys = {c \in Customers : best[c] # NotListed}]
    BY <1>14 DEF RecList
  <2>2. \A s \in Subs : Listed(s) \in Listing
    BY DEF Listed, Listing
  <2>3. best \in [Customers -> Listing]
    BY <2>2 DEF NotListed, Listing, Unlisted
  <2>4. rec' \in RecState
    BY <2>1, <2>3, NoRowType DEF RecState, IdleRec
  <2> QED
    BY <1>14, <2>4 DEF RecList, env
<1>15. ASSUME NEW c \in Customers, NEW u \in Users, RecDrifted(c, u) PROVE TypeOK'
  <2>1. Target(row[u], c) \in Row
    BY <1>15, ApplyType DEF RecDrifted, IInv, RecInv, RecHolds, ListingInv, Target
  <2>2. rec' \in RecState
    BY <1>15, <2>1 DEF RecDrifted, RecState, Listing, NotListed, Unlisted
  <2> QED
    BY <1>15, <2>2 DEF RecDrifted, env
<1>16. ASSUME NEW c \in Customers, RecKept(c) PROVE TypeOK'
  BY <1>16 DEF RecKept, RecState, Listing, NotListed, Unlisted, env
<1>17. CASE RecWrite
  <2>1. rec' \in RecState
    BY <1>17, NoRowType DEF RecWrite, RecState
  <2>2. rec.row \in Row
    BY DEF RecState
  <2> QED
    BY <1>17, <2>1, <2>2 DEF RecWrite, env
<1>18. CASE RecListPro
  BY <1>18, NoRowType, IdleTypes DEF RecListPro, RecState, env
<1>19. ASSUME NEW u \in Users, RecRevoke(u) PROVE TypeOK'
  <2>1. rec.pro[u] \in Row
    BY DEF RecState
  <2>2. Revoked(rec.pro[u]) \in Row
    BY <2>1 DEF Revoked, Row, Tiers, Live
  <2>3. rec' \in RecState
    BY <1>19, NoRowType DEF RecRevoke, RecState
  <2> QED
    BY <1>19, <2>2, <2>3 DEF RecRevoke, env
<1>20. CASE RecDone
  BY <1>20, IdleTypes DEF RecDone, env
<1>21. CASE RecFails
  <2>1. rec' \in RecState
    <3>1. ASSUME NEW c \in Customers, rec' = [rec EXCEPT !.best[c] = NotListed]
          PROVE  rec' \in RecState
      BY <3>1 DEF RecState, Listing, NotListed, Unlisted
    <3>2. CASE rec' = [rec EXCEPT !.pc = "forward", !.user = None, !.row = NoRow]
      BY <3>2, NoRowType DEF RecState
    <3>3. ASSUME NEW u \in Users, rec' = [rec EXCEPT !.pro[u] = NoRow]
          PROVE  rec' \in RecState
      BY <3>3, NoRowType DEF RecState
    <3> QED
      BY <1>21, <3>1, <3>2, <3>3, IdleTypes DEF RecFails
  <2>2. faults' \in 0..MaxFaults
    BY <1>21, BoundsType DEF RecFails
  <2> QED
    BY <1>21, <2>1, <2>2 DEF RecFails, env
<1>22. CASE UNCHANGED vars
  BY <1>22 DEF vars
<1> QED
  BY <1>1, <1>2, <1>3, <1>4, <1>5, <1>6, <1>7, <1>8, <1>9, <1>10, <1>11, <1>12, <1>13,
     <1>14, <1>15, <1>16, <1>17, <1>18, <1>19, <1>20, <1>21, <1>22
     DEF Next, StripeNext, WebhookNext, WorkerStep, RecStep

-----------------------------------------------------------------------------
(* What never goes away. *)

Grows ==
  /\ sent \subseteq sent'
  /\ \A s \in Subs : stripe[s] # "none" => stripe'[s] # "none" /\ session'[s] = session[s]

LEMMA NextGrows == TypeOK /\ [Next]_vars => Grows
<1> SUFFICES ASSUME TypeOK, [Next]_vars PROVE Grows
  OBVIOUS
<1> USE DEF TypeOK, Grows
<1>1. ASSUME NEW u \in Users, NEW c \in Customers, NEW s \in Subs, OpenCheckout(u, c, s)
      PROVE  Grows
  BY <1>1 DEF OpenCheckout
<1>2. ASSUME NEW s \in Subs, Pay(s) PROVE Grows
  BY <1>2 DEF Pay
<1>3. ASSUME NEW s \in Subs, NEW status \in Live, Change(s, status) PROVE Grows
  BY <1>3 DEF Change, Live
<1>4. ASSUME NEW s \in Subs, AgeOut(s) PROVE Grows
  BY <1>4 DEF AgeOut
<1>5. CASE UNCHANGED env
  BY <1>5 DEF env
<1>6. WebhookNext \/ RecStep \/ RecFails \/ UNCHANGED vars => UNCHANGED env
  BY DEF WebhookNext, WorkerStep, Receive, LookupUser, Repull, RepullFails, LookupCustomer,
         Unbound, Upsert, Mark, StoreFails, RecStep, RecList, RecDrifted, RecKept, RecWrite,
         RecListPro, RecRevoke, RecDone, RecFails, vars, env
<1> QED
  BY <1>1, <1>2, <1>3, <1>4, <1>5, <1>6 DEF Next, StripeNext

\* A row that may stand as user u's may stand as it ever after.
LEMMA SoundStays ==
  ASSUME TypeOK, Grows, NEW r \in Row, NEW u \in Users, Sound(r, u)
  PROVE  Sound(r, u)'
<1>1. r.cust # None => Owns(u, r.cust)'
  BY DEF Grows, Sound, Owns
<1>2. ASSUME r.tier = "pro"
      PROVE  /\ r.sub # None
             /\ stripe'[r.sub] # "none"
             /\ UserOf(r.sub)' = u
             /\ Paid(r.sub)'
  BY <1>2 DEF Grows, Sound, UserOf, Paid, Row
<1> QED
  BY <1>1, <1>2 DEF Sound

\* Every row the code builds from a sound row is sound.
LEMMA ApplySound ==
  ASSUME NEW r \in Row, NEW u \in Users, NEW s \in Subs, NEW status \in Live, Sound(r, u),
         stripe[s] # "none", UserOf(s) = u, status = "active" => Paid(s)
  PROVE  Sound(ApplyStripeSub(r, s, status), u)
BY NoneIsFresh DEF Sound, ApplyStripeSub, SubTier, TierOf, Row

LEMMA NoRowSound == ASSUME NEW u \in Users PROVE Sound(NoRow, u)
BY DEF Sound, NoRow, TierOf

\* A customer a user owns is opened by no other user's checkout.
LEMMA OwnerIsUnique ==
  ASSUME StripeInv, NEW u \in Users, NEW s \in Subs, Owns(u, CustOf(s)), CustOf(s) # None
  PROVE  UserOf(s) = u
BY DEF StripeInv, Owns, CustOf, UserOf

-----------------------------------------------------------------------------
(* The invariant is inductive: one lemma per conjunct. *)

\* Which variables each part of the program leaves alone.
LEMMA Frames ==
  /\ StripeNext => UNCHANGED <<row, ledger, worker, rec>>
  /\ WebhookNext => UNCHANGED <<env, rec>>
  /\ RecStep \/ RecFails => UNCHANGED <<env, ledger, worker>>
  /\ UNCHANGED vars => UNCHANGED <<env, row, ledger, worker, rec>>
BY DEF StripeNext, OpenCheckout, Pay, Change, AgeOut, WebhookNext, WorkerStep, Receive,
       LookupUser, Repull, RepullFails, LookupCustomer, Unbound, Upsert, Mark, StoreFails,
       RecStep, RecList, RecDrifted, RecKept, RecWrite, RecListPro, RecRevoke, RecDone,
       RecFails, vars, env

LEMMA StripeInvStep == IInv /\ [Next]_vars => StripeInv'
<1> SUFFICES ASSUME IInv, [Next]_vars PROVE StripeInv'
  OBVIOUS
<1> USE DEF IInv, TypeOK
<1>1. ASSUME NEW u \in Users, NEW c \in Customers, NEW s \in Subs, OpenCheckout(u, c, s)
      PROVE  StripeInv'
  <2>1. /\ stripe' = [stripe EXCEPT ![s] = "open"]
        /\ session' = [session EXCEPT ![s] = [user |-> u, cust |-> c]]
        /\ sent' = sent
        /\ stripe[s] = "none"
    BY <1>1 DEF OpenCheckout
  <2>2. \A t \in Subs : CustOf(t) = c => UserOf(t) = u
    <3>1. CASE \A t \in Subs : CustOf(t) # c
      BY <3>1
    <3>2. CASE c = row[u].cust
      <4>1. c = row[u].cust /\ c # None
        BY <3>2, NoneIsFresh
      <4>2. Owns(u, c)
        BY <4>1 DEF RowInv, Sound
      <4> QED
        BY <4>1, <4>2, OwnerIsUnique
    <3> QED
      BY <1>1, <3>1, <3>2 DEF OpenCheckout
  <2>3. \A t \in Subs : t # s => session'[t] = session[t] /\ stripe'[t] = stripe[t]
    BY <2>1
  <2>4. session'[s] = [user |-> u, cust |-> c] /\ stripe'[s] = "open"
    BY <2>1
  <2>5. \A t, v \in Subs : CustOf(t)' = CustOf(v)' /\ CustOf(t)' # None => UserOf(t)' = UserOf(v)'
    BY <2>2, <2>3, <2>4 DEF StripeInv, CustOf, UserOf
  <2> QED
    BY <2>1, <2>3, <2>4, <2>5 DEF StripeInv, CustOf, UserOf, Paid
<1>2. ASSUME NEW s \in Subs, Pay(s) PROVE StripeInv'
  <2>1. Emit(1, "checkout", s, "active") \in sent' /\ sent \subseteq sent'
    BY <1>2 DEF Pay
  <2>2. Paid(s)'
    BY <2>1 DEF Paid, Emit
  <2>3. \A e \in sent' : e \in sent \/ e.sub = s
    BY <1>2 DEF Pay, Emit
  <2>4. \A t \in Subs : Paid(t) => Paid(t)'
    BY <2>1 DEF Paid
  <2>5. session' = session /\ stripe' = [stripe EXCEPT ![s] = "active"] /\ stripe[s] = "open"
    BY <1>2 DEF Pay
  <2> QED
    BY <2>2, <2>3, <2>4, <2>5 DEF StripeInv, CustOf, UserOf, Event
<1>3. ASSUME NEW s \in Subs, NEW status \in Live, Change(s, status) PROVE StripeInv'
  <2> DEFINE e == Emit(1, IF status = "canceled" THEN "deleted" ELSE "updated", s, status)
  <2>1. sent' = sent \cup {e} /\ e.sub = s /\ e.status = status
    BY <1>3 DEF Change, Emit
  <2>2. status = "active" => Paid(s)'
    BY <2>1 DEF Paid
  <2>3. \A t \in Subs : Paid(t) => Paid(t)'
    BY <2>1 DEF Paid
  <2>4. session' = session /\ stripe' = [stripe EXCEPT ![s] = status] /\ stripe[s] # "none"
    BY <1>3 DEF Change
  <2> HIDE DEF e
  <2> QED
    BY <2>1, <2>2, <2>3, <2>4 DEF StripeInv, CustOf, UserOf, Event, Live
<1>4. ASSUME NEW s \in Subs, AgeOut(s) PROVE StripeInv'
  BY <1>4 DEF AgeOut, StripeInv, CustOf, UserOf, Paid, Event
<1>5. CASE UNCHANGED env
  BY <1>5 DEF env, StripeInv, CustOf, UserOf, Paid
<1> QED
  BY <1>1, <1>2, <1>3, <1>4, <1>5, Frames DEF Next, StripeNext

\* What any step leaves in the row of u was sound when it was read, has a
\* customer if the row had one, and so is sound still.
LEMMA RowWrites ==
  ASSUME IInv, [Next]_vars, NEW u \in Users, NEW r, r = row'[u]
  PROVE  /\ r \in Row
         /\ Sound(r, u)
         /\ row[u].cust # None => r.cust # None
<1>0. TypeOK /\ RowInv /\ RecInv
  BY DEF IInv
<1>1. CASE row' = row
  BY <1>0, <1>1 DEF TypeOK, RowInv
<1>2. ASSUME NEW w \in Workers, Upsert(w), row'[u] # row[u]
      PROVE  r = worker[w].row /\ worker[w].user = u /\ worker[w].pc = "upsert"
  BY <1>0, <1>2 DEF Upsert, TypeOK
<1>3. ASSUME NEW w \in Workers, Upsert(w) PROVE r \in Row /\ Sound(r, u) /\ (row[u].cust # None => r.cust # None)
  <2>1. CASE row'[u] = row[u]
    BY <1>0, <2>1 DEF TypeOK, RowInv
  <2>2. CASE row'[u] # row[u]
    <3>1. r = worker[w].row /\ worker[w].user = u /\ worker[w].pc = "upsert"
      BY <1>2, <1>3, <2>2
    <3>2. worker[w] \in WorkerState /\ WorkerInv(w)
      BY <1>0 DEF TypeOK, IInv
    <3> QED
      BY <3>1, <3>2, NoRowType DEF WorkerInv, WorkerState, IdleWorker
  <2> QED
    BY <2>1, <2>2
<1>4. CASE RecWrite
  <2>1. rec.row \in Row /\ Sound(rec.row, rec.user) /\ rec.row.cust # None
    BY <1>0, <1>4 DEF RecWrite, RecInv, RecHolds, TypeOK, RecState
  <2>2. (r = rec.row /\ rec.user = u) \/ r = row[u]
    BY <1>0, <1>4 DEF RecWrite, TypeOK
  <2> QED
    BY <1>0, <2>1, <2>2 DEF TypeOK, RowInv
<1>5. ASSUME NEW v \in Users, RecRevoke(v) PROVE r \in Row /\ Sound(r, u) /\ (row[u].cust # None => r.cust # None)
  <2>1. rec.pro[v] \in Row /\ Sound(rec.pro[v], v) /\ rec.pro[v].cust # None
    BY <1>0, <1>5 DEF RecRevoke, RecInv, RecHolds, TypeOK, RecState
  <2>2. (r = Revoked(rec.pro[v]) /\ u = v) \/ r = row[u]
    BY <1>0, <1>5 DEF RecRevoke, TypeOK
  <2>3. CASE r = Revoked(rec.pro[v]) /\ u = v
    BY <2>1, <2>3 DEF Revoked, Sound, TierOf, Row, Live, Tiers
  <2> QED
    BY <1>0, <2>2, <2>3 DEF TypeOK, RowInv
<1>6. row' = row \/ (\E w \in Workers : Upsert(w)) \/ RecWrite \/ \E v \in Users : RecRevoke(v)
  BY DEF Next, StripeNext, OpenCheckout, Pay, Change, AgeOut, WebhookNext, WorkerStep, Receive,
         LookupUser, Repull, RepullFails, LookupCustomer, Unbound, Mark, StoreFails,
         RecStep, RecList, RecDrifted, RecKept, RecListPro, RecDone, RecFails, vars
<1> QED
  BY <1>1, <1>3, <1>4, <1>5, <1>6

LEMMA RowInvStep == IInv /\ [Next]_vars => RowInv'
<1> SUFFICES ASSUME IInv, [Next]_vars, NEW u \in Users PROVE Sound(row[u], u)'
  BY DEF RowInv
<1>1. PICK r : r = row'[u]
  OBVIOUS
<1>2. r \in Row /\ Sound(r, u)
  BY <1>1, RowWrites
<1>3. Sound(r, u)'
  BY <1>2, SoundStays, NextGrows DEF IInv
<1> QED
  BY <1>1, <1>3 DEF Sound, TierOf, Owns, Paid, UserOf

\* What a request that does not move had, it still has.
LEMMA WorkerWaits ==
  ASSUME IInv, [Next]_vars, NEW w \in Workers, worker'[w] = worker[w]
  PROVE  WorkerInv(w)'
<1>0. TypeOK /\ StripeInv /\ Grows /\ WorkerInv(w)
  BY NextGrows DEF IInv
<1>1. PICK k : k = worker[w]
  OBVIOUS
<1>2. k \in WorkerState /\ k.row \in Row
  BY <1>0, <1>1, NoRowType DEF TypeOK, WorkerState, IdleWorker
<1>3. k.pc # "idle" =>
        /\ k.ev \in sent'
        /\ UserOf(k.ev.sub)' = UserOf(k.ev.sub)
        /\ UserOf(k.ev.sub) \in Users
  BY <1>0, <1>1 DEF WorkerInv, StripeInv, Grows, UserOf, TypeOK, Event
<1>4. k.pc \in {"repull", "upsert"} => Sound(k.row, k.user)'
  <2>1. k.pc \in {"repull", "upsert"} => k.user \in Users /\ Sound(k.row, k.user)
    BY <1>0, <1>1 DEF WorkerInv
  <2> QED
    BY <1>0, <1>2, <2>1, SoundStays
<1>5. k.pc = "mark" /\ k.ev.type = "checkout" => row'[UserOf(k.ev.sub)].cust # None
  BY <1>0, <1>1, <1>3, RowWrites DEF WorkerInv
<1>6. WorkerInv(w) /\ worker'[w] = k
  BY <1>0, <1>1
<1> QED
  BY <1>1, <1>3, <1>4, <1>5, <1>6 DEF WorkerInv, Sound, Owns, Paid, UserOf, TierOf

LEMMA WorkerInvStep == ASSUME IInv, [Next]_vars, NEW w \in Workers PROVE WorkerInv(w)'
<1>0. TypeOK /\ StripeInv /\ RowInv /\ WorkerInv(w)
  BY DEF IInv
<1> DEFINE k == worker[w]
<1>k. k \in WorkerState /\ (k.pc # "idle" => k.ev \in Event /\ k.ev \in sent)
  BY <1>0 DEF TypeOK, WorkerState, IdleWorker, WorkerInv
<1>s. k.pc # "idle" => /\ k.ev.sub \in Subs
                       /\ stripe[k.ev.sub] # "none"
                       /\ UserOf(k.ev.sub) \in Users
                       /\ CustOf(k.ev.sub) \in Customers
  BY <1>0, <1>k DEF StripeInv, Event
<1>1. CASE worker'[w] = worker[w]
  BY <1>1, WorkerWaits
<1>2. ASSUME NEW e \in sent, Receive(w, e) PROVE WorkerInv(w)'
  BY <1>0, <1>2 DEF Receive, TypeOK, env, WorkerInv, IdleWorker
<1>3. CASE LookupUser(w)
  <2> DEFINE u == UserOf(k.ev.sub)
             r == [row[u] EXCEPT !.cust = CustOf(k.ev.sub)]
  <2>1. /\ UNCHANGED <<env, row>>
        /\ k.pc = "lookup" /\ k.ev.type = "checkout"
        /\ worker'[w] = [k EXCEPT !.pc = "repull", !.user = u, !.row = r]
    BY <1>0, <1>3 DEF LookupUser, TypeOK
  <2>2. u \in Users /\ CustOf(k.ev.sub) \in Customers /\ row[u] \in Row
    BY <1>0, <1>s, <2>1 DEF TypeOK
  <2>3. Owns(u, CustOf(k.ev.sub))
    BY <1>0, <1>s, <2>1 DEF Owns, TypeOK, Session, UserOf, CustOf
  <2>4. Sound(r, u) /\ r.cust # None
    BY <1>0, <2>2, <2>3, NoneIsFresh DEF RowInv, Sound, Row, TierOf
  <2>5. worker'[w].pc = "repull" /\ worker'[w].ev = k.ev /\ worker'[w].user = u /\ worker'[w].row = r
    BY <1>k, <2>1 DEF WorkerState, IdleWorker
  <2> HIDE DEF r, k
  <2> QED
    BY <1>k, <2>1, <2>2, <2>4, <2>5
       DEF WorkerInv, Sound, Owns, Paid, UserOf, CustOf, env, TierOf, k
<1>4. CASE Repull(w)
  <2> DEFINE s == k.ev.sub
             r == ApplyStripeSub(k.row, s, stripe[s])
  <2>1. /\ UNCHANGED <<env, row>>
        /\ k.pc = "repull" /\ stripe[s] \in Live
        /\ worker'[w] = [k EXCEPT !.pc = "upsert", !.row = r]
    BY <1>0, <1>4 DEF Repull, TypeOK
  <2>2. /\ k.row \in Row /\ k.user \in Users /\ Sound(k.row, k.user) /\ k.row.cust # None
        /\ k.ev.type = "checkout" /\ UserOf(s) = k.user
    BY <1>0, <1>k, <2>1 DEF WorkerInv, WorkerState, IdleWorker
  <2>3. Sound(r, k.user)
    BY <1>0, <1>s, <2>1, <2>2, ApplySound DEF StripeInv
  <2>4. r.cust # None
    BY <2>2 DEF ApplyStripeSub, Row
  <2>5. worker'[w].pc = "upsert" /\ worker'[w].ev = k.ev /\ worker'[w].user = k.user /\ worker'[w].row = r
    BY <1>k, <2>1 DEF WorkerState, IdleWorker
  <2> HIDE DEF r, k
  <2> QED
    BY <1>k, <2>1, <2>2, <2>3, <2>4, <2>5
       DEF WorkerInv, Sound, Owns, Paid, UserOf, CustOf, env, TierOf, k
<1>5. CASE RepullFails(w)
  <2>1. /\ UNCHANGED <<env, row>>
        /\ k.pc = "repull"
        /\ worker'[w] = [k EXCEPT !.pc = "upsert"]
    BY <1>0, <1>5 DEF RepullFails, Goto, TypeOK
  <2>2. worker'[w].pc = "upsert" /\ worker'[w].ev = k.ev /\ worker'[w].user = k.user /\ worker'[w].row = k.row
    BY <1>k, <2>1 DEF WorkerState, IdleWorker
  <2> QED
    BY <1>0, <1>k, <2>1, <2>2 DEF WorkerInv, Sound, Owns, Paid, UserOf, CustOf, env, TierOf
<1>6. ASSUME NEW u \in Users, LookupCustomer(w, u) PROVE WorkerInv(w)'
  <2> DEFINE r == ApplyEvent(row[u], k.ev)
  <2>1. /\ UNCHANGED <<env, row>>
        /\ k.pc = "lookup" /\ k.ev.type # "checkout" /\ row[u].cust = CustOf(k.ev.sub)
        /\ worker'[w] = [k EXCEPT !.pc = "upsert", !.user = u, !.row = r]
    BY <1>0, <1>6 DEF LookupCustomer, TypeOK
  <2>2. row[u] \in Row /\ Sound(row[u], u) /\ row[u].cust # None
    BY <1>0, <1>s, <2>1, NoneIsFresh DEF TypeOK, RowInv
  <2>3. UserOf(k.ev.sub) = u
    BY <1>0, <1>s, <2>1, <2>2, OwnerIsUnique DEF Sound
  <2>4. k.ev.status = "active" => Paid(k.ev.sub)
    BY <1>k, <2>1 DEF Paid
  <2>5. Sound(ApplyStripeSub(row[u], k.ev.sub, k.ev.status), u)
    BY <1>k, <1>s, <2>1, <2>2, <2>3, <2>4, ApplySound DEF Event
  <2>6. Sound(r, u) /\ r.cust # None
    <3>1. ApplyStripeSub(row[u], k.ev.sub, k.ev.status) \in Row
      BY <1>k, <2>1, <2>2, ApplyType DEF Event
    <3>2. CASE k.ev.type = "deleted"
      BY <2>2, <2>5, <3>1, <3>2 DEF ApplyEvent, ApplyStripeSub, Sound, TierOf, Row
    <3>3. CASE k.ev.type # "deleted"
      BY <2>2, <2>5, <3>1, <3>3 DEF ApplyEvent, ApplyStripeSub, Row
    <3> QED
      BY <3>2, <3>3
  <2>7. worker'[w].pc = "upsert" /\ worker'[w].ev = k.ev /\ worker'[w].user = u /\ worker'[w].row = r
    BY <1>k, <2>1 DEF WorkerState, IdleWorker
  <2> HIDE DEF r, k
  <2> QED
    BY <1>k, <2>1, <2>6, <2>7 DEF WorkerInv, Sound, Owns, Paid, UserOf, CustOf, env, TierOf, k
<1>7. CASE Unbound(w)
  BY <1>0, <1>k, <1>7 DEF Unbound, Goto, TypeOK, WorkerInv, env, WorkerState, IdleWorker
<1>8. CASE Upsert(w)
  <2>1. /\ UNCHANGED env
        /\ k.pc = "upsert"
        /\ row' = [row EXCEPT ![k.user] = k.row]
        /\ worker'[w].pc = "mark" /\ worker'[w].ev = k.ev
    BY <1>0, <1>k, <1>8 DEF Upsert, TypeOK, WorkerState, IdleWorker
  <2>2. k.user \in Users /\ k.row.cust # None /\ (k.ev.type = "checkout" => k.user = UserOf(k.ev.sub))
    BY <1>0, <2>1 DEF WorkerInv
  <2>3. row'[k.user] = k.row
    BY <1>0, <2>1, <2>2 DEF TypeOK
  <2> QED
    BY <1>k, <2>1, <2>2, <2>3 DEF WorkerInv, UserOf, env
<1>9. CASE Mark(w) \/ StoreFails(w)
  BY <1>0, <1>9 DEF Mark, StoreFails, Done, TypeOK, WorkerInv, IdleWorker
<1>10. ASSUME NEW v \in Workers, v # w,
              \/ \E e \in sent : Receive(v, e)
              \/ WorkerStep(v)
              \/ StoreFails(v)
       PROVE  worker'[w] = worker[w]
  BY <1>0, <1>10 DEF TypeOK, Receive, WorkerStep, LookupUser, Repull, RepullFails,
       LookupCustomer, Unbound, Upsert, Mark, StoreFails, Goto, Done
<1>11. StripeNext \/ RecStep \/ RecFails \/ UNCHANGED vars => worker' = worker
  BY Frames
<1> QED
  BY <1>1, <1>2, <1>3, <1>4, <1>5, <1>6, <1>7, <1>8, <1>9, <1>10, <1>11
     DEF Next, WebhookNext, WorkerStep

\* What the reconciler holds does not expire.
LEMMA HoldsStays ==
  ASSUME TypeOK, Grows, NEW r \in RecState, RecHolds(r)
  PROVE  RecHolds(r)'
<1>1. ASSUME NEW c \in Customers, r.best[c] # NotListed PROVE ListingInv(r.best[c], c)'
  BY <1>1 DEF RecHolds, ListingInv, Grows, CustOf, Paid
<1>2. ASSUME r.pc = "write" PROVE r.user \in Users /\ r.row.cust # None /\ Sound(r.row, r.user)'
  <2>1. r.row \in Row /\ r.user \in Users /\ Sound(r.row, r.user) /\ r.row.cust # None
    BY <1>2 DEF RecHolds, RecState
  <2> QED
    BY <2>1, SoundStays
<1>3. ASSUME NEW u \in Users, r.pro[u] # NoRow PROVE r.pro[u].cust # None /\ Sound(r.pro[u], u)'
  <2>1. r.pro[u] \in Row /\ Sound(r.pro[u], u) /\ r.pro[u].cust # None
    BY <1>3 DEF RecHolds, RecState
  <2> QED
    BY <2>1, SoundStays
<1> QED
  BY <1>1, <1>2, <1>3 DEF RecHolds

LEMMA IdleHolds == RecHolds(IdleRec)
BY DEF RecHolds, IdleRec

LEMMA RecInvStep == IInv /\ [Next]_vars => RecInv'
<1> SUFFICES ASSUME IInv, [Next]_vars PROVE RecInv'
  OBVIOUS
<1>0. TypeOK /\ StripeInv /\ RowInv /\ RecInv /\ rec \in RecState
  BY DEF IInv, TypeOK
<1> USE DEF RecInv
<1>1. RecHolds(rec')
  <2>1. CASE rec' = rec \/ rec' = IdleRec
    BY <1>0, <2>1, IdleHolds
  <2>2. CASE RecList
    <3>1. PICK best \in [Customers -> {NotListed} \cup {Listed(s) : s \in Subs}] :
            /\ \A c \in Customers :
                 IF Best(c) = {} THEN best[c] = NotListed
                                 ELSE best[c] \in {Listed(s) : s \in Best(c)}
            /\ rec' = [IdleRec EXCEPT !.pc = "forward", !.best = best,
                                     !.keys = {c \in Customers : best[c] # NotListed}]
      BY <2>2 DEF RecList
    <3>2. ASSUME NEW c \in Customers, best[c] # NotListed PROVE ListingInv(best[c], c)
      <4>1. PICK s \in Best(c) : best[c] = Listed(s)
        BY <3>1, <3>2
      <4>2. s \in Subs /\ CustOf(s) = c /\ stripe[s] \in Live
        BY DEF Best
      <4> QED
        BY <1>0, <4>1, <4>2 DEF ListingInv, Listed, StripeInv, Live
    <3>3. rec'.best = best /\ rec'.pc = "forward" /\ \A u \in Users : rec'.pro[u] = NoRow
      BY <3>1 DEF IdleRec
    <3> QED
      BY <3>2, <3>3 DEF RecHolds
  <2>3. ASSUME NEW c \in Customers, NEW u \in Users, RecDrifted(c, u) PROVE RecHolds(rec')
    <3>1. ListingInv(rec.best[c], c) /\ row[u].cust = c
      BY <1>0, <2>3 DEF RecDrifted, RecHolds
    <3>2. row[u] \in Row /\ Sound(row[u], u) /\ c # None
      BY <1>0, NoneIsFresh DEF TypeOK, RowInv
    <3>3. UserOf(rec.best[c].sub) = u
      BY <1>0, <3>1, <3>2, OwnerIsUnique DEF ListingInv, Sound
    <3>4. Sound(Target(row[u], c), u)
      BY <3>1, <3>2, <3>3, ApplySound DEF ListingInv, Target
    <3>5. Target(row[u], c).cust = c
      BY <3>1, <3>2 DEF Target, ApplyStripeSub, Row
    <3>6. /\ rec'.pc = "write" /\ rec'.user = u /\ rec'.row = Target(row[u], c)
          /\ rec'.pro = rec.pro
          /\ \A d \in Customers : rec'.best[d] \in {rec.best[d], NotListed}
      BY <1>0, <2>3 DEF RecDrifted, RecState
    <3> QED
      BY <1>0, <3>2, <3>4, <3>5, <3>6 DEF RecHolds
  <2>4. ASSUME NEW c \in Customers, rec.pc = "forward", rec' = [rec EXCEPT !.best[c] = NotListed]
        PROVE  RecHolds(rec')
    <3>1. /\ rec'.pc = "forward" /\ rec'.pro = rec.pro
          /\ \A d \in Customers : rec'.best[d] \in {rec.best[d], NotListed}
      BY <1>0, <2>4 DEF RecState
    <3> QED
      BY <1>0, <3>1 DEF RecHolds
  <2>5. CASE rec' = [rec EXCEPT !.pc = "forward", !.user = None, !.row = NoRow]
    <3>1. rec'.pc = "forward" /\ rec'.pro = rec.pro /\ rec'.best = rec.best
      BY <1>0, <2>5 DEF RecState
    <3> QED
      BY <1>0, <3>1 DEF RecHolds
  <2>6. CASE RecListPro
    <3>1. /\ rec'.pc = "reverse"
          /\ \A c \in Customers : rec'.best[c] = NotListed
          /\ \A u \in Users : rec'.pro[u] = NoRow \/ (rec'.pro[u] = row[u] /\ row[u].cust # None)
      BY <2>6 DEF RecListPro, IdleRec
    <3> QED
      BY <1>0, <3>1 DEF RecHolds, RowInv
  <2>7. ASSUME NEW u \in Users, rec.pro[u] # NoRow, rec' = [rec EXCEPT !.pro[u] = NoRow]
        PROVE  RecHolds(rec')
    <3>1. /\ rec'.pc = rec.pc /\ rec'.best = rec.best /\ rec'.user = rec.user /\ rec'.row = rec.row
          /\ \A v \in Users : rec'.pro[v] \in {rec.pro[v], NoRow}
      BY <1>0, <2>7 DEF RecState
    <3> QED
      BY <1>0, <3>1 DEF RecHolds
  <2>8. RecStep \/ RecFails =>
          \/ rec' = rec \/ rec' = IdleRec
          \/ RecList \/ RecListPro
          \/ \E c \in Customers, u \in Users : RecDrifted(c, u)
          \/ \E c \in Customers : rec.pc = "forward" /\ rec' = [rec EXCEPT !.best[c] = NotListed]
          \/ rec' = [rec EXCEPT !.pc = "forward", !.user = None, !.row = NoRow]
          \/ \E u \in Users : rec.pro[u] # NoRow /\ rec' = [rec EXCEPT !.pro[u] = NoRow]
    BY DEF RecStep, RecFails, RecKept, RecWrite, RecRevoke, RecDone
  <2> QED
    BY <2>1, <2>2, <2>3, <2>4, <2>5, <2>6, <2>7, <2>8, Frames DEF Next
<1>2. PICK r : r = rec'
  OBVIOUS
<1>3. r \in RecState /\ RecHolds(r)
  BY <1>1, <1>2, TypeStep DEF TypeOK
<1>4. RecHolds(r)'
  BY <1>0, <1>3, HoldsStays, NextGrows
<1> QED
  BY <1>2, <1>4 DEF RecHolds, ListingInv, Sound, Owns, Paid, UserOf, CustOf, TierOf

LEMMA LedgerStep == IInv /\ [Next]_vars => (ledger \subseteq sent)' /\ RecordedCheckoutIsBound'
<1> SUFFICES ASSUME IInv, [Next]_vars
             PROVE  /\ ledger' \subseteq sent'
                    /\ \A e \in sent' : e.type = "checkout" /\ e \in ledger' =>
                         row'[UserOf(e.sub)'].cust # None
  BY DEF RecordedCheckoutIsBound
<1>0. TypeOK /\ StripeInv /\ Grows /\ RecordedCheckoutIsBound /\ ledger \subseteq sent
  BY NextGrows DEF IInv
<1>1. \/ ledger' = ledger
      \/ \E w \in Workers : /\ worker[w].pc = "mark" /\ worker[w].ev \in sent
                            /\ ledger' = ledger \cup {worker[w].ev}
  <2>1. \A w \in Workers : Mark(w) => worker[w].ev \in sent
    BY DEF Mark, IInv, WorkerInv
  <2> QED
    BY <2>1, Frames DEF Next, WebhookNext, WorkerStep, Receive, LookupUser, Repull, RepullFails,
         LookupCustomer, Unbound, Upsert, Mark, StoreFails
<1>2. ASSUME NEW e \in ledger' PROVE e \in sent /\ (e.type = "checkout" => row[UserOf(e.sub)].cust # None)
  BY <1>0, <1>1 DEF RecordedCheckoutIsBound, IInv, WorkerInv
<1>3. ASSUME NEW e \in sent
      PROVE  e.sub \in Subs /\ UserOf(e.sub) \in Users /\ UserOf(e.sub)' = UserOf(e.sub)
  BY <1>0 DEF StripeInv, TypeOK, Event, Grows, UserOf
<1>4. \A u \in Users : row[u].cust # None => row'[u].cust # None
  BY RowWrites
<1> QED
  BY <1>0, <1>2, <1>3, <1>4 DEF Grows

THEOREM Inductive == Spec => []IInv
<1>1. Init => IInv
  <2> SUFFICES ASSUME Init PROVE IInv
    OBVIOUS
  <2>1. TypeOK
    BY NoRowType, IdleTypes, BoundsType, FS_EmptySet
       DEF Init, TypeOK, Session, NoSession, Unlisted, WorkerState
  <2>2. StripeInv
    BY DEF Init, StripeInv, CustOf, NoSession
  <2>3. RowInv
    BY NoRowSound DEF Init, RowInv
  <2>4. \A w \in Workers : WorkerInv(w)
    BY DEF Init, WorkerInv, IdleWorker
  <2>5. RecInv
    BY IdleHolds DEF Init, RecInv
  <2> QED
    BY <2>1, <2>2, <2>3, <2>4, <2>5 DEF Init, IInv, RecordedCheckoutIsBound
<1>2. IInv /\ [Next]_vars => IInv'
  BY TypeStep, StripeInvStep, RowInvStep, WorkerInvStep, RecInvStep, LedgerStep DEF IInv
<1> QED
  BY <1>1, <1>2, PTL DEF Spec

-----------------------------------------------------------------------------
(* What the runs check on small instances, for all of them. *)

\* Every variable keeps its type.
THEOREM TypeCorrect == Spec => []TypeOK
BY Inductive, PTL DEF IInv

\* The stored tier is the one tierOf derives, whoever wrote the row last.
THEOREM TierCorrect == Spec => []TierMatchesStatus
<1>1. IInv => TierMatchesStatus
  BY DEF IInv, RowInv, Sound, TierMatchesStatus
<1> QED
  BY <1>1, Inductive, PTL

\* No event order, stale write or reconciler run makes a user Pro who never
\* had an active subscription.
THEOREM ProCorrect == Spec => []ProIsPaidFor
<1>1. IInv => ProIsPaidFor
  BY DEF IInv, RowInv, Sound, Paid, ProIsPaidFor
<1> QED
  BY <1>1, Inductive, PTL

\* A checkout recorded in the ledger has bound its user, for good.
THEOREM LedgerCorrect == Spec => []RecordedCheckoutIsBound
BY Inductive, PTL DEF IInv
=============================================================================
