---------------------------- MODULE Entitlement ----------------------------
(***************************************************************************)
(* The Pro entitlement of Tickwind: the subscriptions table, the Stripe    *)
(* webhook that writes it and the reconciler that repairs it               *)
(* (internal/api/billing.go, internal/api/reconcile.go).                   *)
(*                                                                         *)
(* Stripe is the environment: it owns the subscriptions, delivers events   *)
(* at least once and in any order, and may give up on one.  A webhook      *)
(* request is a worker; the reconciler is one goroutine.  Every action is  *)
(* the code between two calls that leave the process (the store, Stripe),  *)
(* so everything the program can interleave does.                          *)
(***************************************************************************)
EXTENDS Naturals, FiniteSets

CONSTANTS
  Users,      \* Supabase user ids (client_reference_id)
  Customers,  \* Stripe customer ids (cus_...)
  Subs,       \* Stripe subscription ids, one per checkout session
  Workers,    \* webhook requests in flight at once
  None,       \* no user, customer or subscription
  PeriodEnd,  \* [Subs -> Nat]: current_period_end, the reconciler's tie break
  MaxEvents,  \* bound: events Stripe emits
  MaxFaults   \* bound: store and Stripe calls that fail

ASSUME NoneIsFresh == None \notin Users \cup Customers \cup Subs
ASSUME PeriodEndType == PeriodEnd \in [Subs -> Nat]
ASSUME BoundsType == MaxEvents \in Nat /\ MaxFaults \in Nat

VARIABLES
  stripe,   \* Stripe: the status of each subscription
  session,  \* Stripe: the user and customer of the checkout of each subscription
  sent,     \* Stripe: the events emitted so far
  row,      \* store: subscriptions, keyed by user id
  ledger,   \* store: the events whose id is recorded as processed
  worker,   \* webhook requests
  rec,      \* the reconciler goroutine
  faults    \* calls that have failed so far

env == <<stripe, session, sent>>
vars == <<stripe, session, sent, row, ledger, worker, rec, faults>>

-----------------------------------------------------------------------------
(* Data. *)

\* What Stripe reports of a subscription that exists; "none" before it is
\* paid for and "gone" once it has aged out of the account are never listed.
Live == {"active", "past_due", "canceled"}
Unlisted == {"none", "open", "gone"}
Tiers == {"pro", "free"}

\* store.Subscription, without its key.  A row with no customer is absent.
Row == [cust : Customers \cup {None}, sub : Subs \cup {None},
        status : Live \cup {"none"}, tier : Tiers]
NoRow == [cust |-> None, sub |-> None, status |-> "none", tier |-> "free"]

Session == [user : Users \cup {None}, cust : Customers \cup {None}]
NoSession == [user |-> None, cust |-> None]

\* billing.Event with its object: for a subscription event the snapshot of
\* the subscription at the time Stripe created the event.
EventTypes == {"checkout", "updated", "deleted"}
Event == [id : Nat, type : EventTypes, sub : Subs, status : Live]

CustOf(s) == session[s].cust
UserOf(s) == session[s].user

\* Mutant: the status itself is stored as the tier.
SubTierIsStatus(status) == IF status = "active" THEN "pro" ELSE status

\* subTier of billing.go: the stored tier.
SubTier(status) == IF status = "active" THEN "pro" ELSE "free"

\* tierOf of api.go: what the gates of the API derive from the row, where
\* inGrace says the clock is before current_period_end + 72h.
TierOf(r, inGrace) ==
  IF r.status = "active" \/ (r.status = "past_due" /\ inGrace)
  THEN "pro" ELSE "free"

\* applyStripeSub
ApplyStripeSub(r, s, status) ==
  [r EXCEPT !.sub = s, !.status = status, !.tier = SubTier(status)]

\* What a subscription.* handler writes: the snapshot, except that a deletion
\* is canceled and free whatever the snapshot says.
ApplyEvent(r, e) ==
  IF e.type = "deleted"
  THEN [ApplyStripeSub(r, e.sub, e.status) EXCEPT !.status = "canceled", !.tier = "free"]
  ELSE ApplyStripeSub(r, e.sub, e.status)

\* ListProSubscriptions
GrantsPro(r) == r.tier = "pro" \/ r.status \in {"active", "past_due"}

StatusRank(status) ==
  CASE status = "active" -> 2 [] status = "past_due" -> 1 [] OTHER -> 0

\* Mutant: the tie break on the period end is all there is.
MoreAuthoritativeByPeriod(a, b) == PeriodEnd[a] > PeriodEnd[b]

\* moreAuthoritative: a outranks b as its customer's representative.
MoreAuthoritative(a, b) ==
  \/ StatusRank(stripe[a]) > StatusRank(stripe[b])
  \/ StatusRank(stripe[a]) = StatusRank(stripe[b]) /\ PeriodEnd[a] > PeriodEnd[b]

\* The subscriptions that may represent customer c: ties stay where the
\* listing order, which is Stripe's, puts them.
Best(c) ==
  LET listed == {s \in Subs : CustOf(s) = c /\ stripe[s] \in Live}
  IN  {s \in listed : \A t \in listed : ~MoreAuthoritative(t, s)}

-----------------------------------------------------------------------------
(* Processes. *)

IdleWorker == [pc |-> "idle", ev |-> None, user |-> None, row |-> NoRow]
WorkerState == {IdleWorker} \cup
  [pc : {"lookup", "repull", "upsert", "mark"}, ev : Event,
   user : Users \cup {None}, row : Row]

\* What ListSubscriptions reported of one subscription.
Listing == [sub : Subs \cup {None}, status : Live \cup Unlisted]
NotListed == [sub |-> None, status |-> "none"]

\* The map `best` of reconcileSubscriptions is kept as its keys and, of the
\* customers the forward pass has still to visit, the values; user and row are
\* the pending upsert; pro holds the rows ListProSubscriptions returned that
\* the reverse pass has still to write.
RecState == [pc : {"idle", "forward", "write", "reverse"},
             keys : SUBSET Customers, best : [Customers -> Listing],
             user : Users \cup {None}, row : Row, pro : [Users -> Row]]
IdleRec == [pc |-> "idle", keys |-> {}, best |-> [c \in Customers |-> NotListed],
            user |-> None, row |-> NoRow, pro |-> [u \in Users |-> NoRow]]

Init ==
  /\ stripe = [s \in Subs |-> "none"]
  /\ session = [s \in Subs |-> NoSession]
  /\ sent = {}
  /\ row = [u \in Users |-> NoRow]
  /\ ledger = {}
  /\ worker = [w \in Workers |-> IdleWorker]
  /\ rec = IdleRec
  /\ faults = 0

-----------------------------------------------------------------------------
(* Stripe and the user. *)

\* The n-th event of the step.
Emit(n, type, s, status) ==
  [id |-> Cardinality(sent) + n, type |-> type, sub |-> s, status |-> status]

\* billingCheckout: the session carries the user and the customer of the
\* user's row, or a customer Stripe creates for it when the row has none or
\* cannot be read.
OpenCheckout(u, c, s) ==
  /\ stripe[s] = "none"
  /\ \/ /\ c = row[u].cust
        /\ UNCHANGED faults
     \/ /\ \A t \in Subs : CustOf(t) # c
        /\ \/ row[u].cust = None /\ UNCHANGED faults
           \/ row[u].cust # None /\ faults < MaxFaults /\ faults' = faults + 1
  /\ stripe' = [stripe EXCEPT ![s] = "open"]
  /\ session' = [session EXCEPT ![s] = [user |-> u, cust |-> c]]
  /\ UNCHANGED <<sent, row, ledger, worker, rec>>

\* The user pays: the subscription starts, and checkout.session.completed and
\* customer.subscription.created are emitted.
Pay(s) ==
  /\ stripe[s] = "open"
  /\ Cardinality(sent) + 2 <= MaxEvents
  /\ stripe' = [stripe EXCEPT ![s] = "active"]
  /\ sent' = sent \cup {Emit(1, "checkout", s, "active"), Emit(2, "updated", s, "active")}
  /\ UNCHANGED <<session, row, ledger, worker, rec, faults>>

\* A renewal fails or recovers, or the subscription ends.
Change(s, status) ==
  /\ stripe[s] \in {"active", "past_due"}
  /\ status # stripe[s]
  /\ Cardinality(sent) < MaxEvents
  /\ stripe' = [stripe EXCEPT ![s] = status]
  /\ sent' = sent \cup
       {Emit(1, IF status = "canceled" THEN "deleted" ELSE "updated", s, status)}
  /\ UNCHANGED <<session, row, ledger, worker, rec, faults>>

\* A canceled subscription ages out of the account.
AgeOut(s) ==
  /\ stripe[s] = "canceled"
  /\ stripe' = [stripe EXCEPT ![s] = "gone"]
  /\ UNCHANGED <<session, sent, row, ledger, worker, rec, faults>>

StripeNext ==
  \/ \E u \in Users, c \in Customers, s \in Subs : OpenCheckout(u, c, s)
  \/ \E s \in Subs : Pay(s)
  \/ \E s \in Subs, status \in Live : Change(s, status)
  \/ \E s \in Subs : AgeOut(s)

-----------------------------------------------------------------------------
(* stripeWebhook. *)

Goto(w, pc) == worker' = [worker EXCEPT ![w].pc = pc]
Done(w) == worker' = [worker EXCEPT ![w] = IdleWorker]

\* Mutant: record first, then process.
ReceiveRecordingFirst(w, e) ==
  /\ worker[w].pc = "idle"
  /\ e \notin ledger
  /\ worker' = [worker EXCEPT ![w] = [IdleWorker EXCEPT !.pc = "lookup", !.ev = e]]
  /\ ledger' = ledger \cup {e}
  /\ UNCHANGED <<env, row, rec, faults>>

\* A delivery whose StripeEventSeen precheck finds nothing.  Any event may be
\* delivered again at any time, also while another delivery of it is being
\* processed; one already recorded is answered 200 and changes nothing.
Receive(w, e) ==
  /\ worker[w].pc = "idle"
  /\ e \notin ledger
  /\ worker' = [worker EXCEPT ![w] = [IdleWorker EXCEPT !.pc = "lookup", !.ev = e]]
  /\ UNCHANGED <<env, row, ledger, rec, faults>>

\* checkout.session.completed: GetSubscription(client_reference_id), bind.
LookupUser(w) ==
  LET e == worker[w].ev
      u == UserOf(e.sub)
  IN  /\ worker[w].pc = "lookup"
      /\ e.type = "checkout"
      /\ worker' = [worker EXCEPT ![w].pc = "repull", ![w].user = u,
                                  ![w].row = [row[u] EXCEPT !.cust = CustOf(e.sub)]]
      /\ UNCHANGED <<env, row, ledger, rec, faults>>

\* Best-effort recovery: apply the subscription as Stripe holds it now.
Repull(w) ==
  LET s == worker[w].ev.sub
  IN  /\ worker[w].pc = "repull"
      /\ stripe[s] \in Live
      /\ worker' = [worker EXCEPT ![w].pc = "upsert",
                                  ![w].row = ApplyStripeSub(@, s, stripe[s])]
      /\ UNCHANGED <<env, row, ledger, rec, faults>>

\* The re-pull fails, or Stripe no longer has the subscription: bind only.
RepullFails(w) ==
  /\ worker[w].pc = "repull"
  /\ Goto(w, "upsert")
  /\ UNCHANGED <<env, row, ledger, rec, faults>>

\* Mutant: the lookup by customer returns the row of any bound user.
LookupAnyCustomer(w, u) ==
  LET e == worker[w].ev
  IN  /\ worker[w].pc = "lookup"
      /\ e.type # "checkout"
      /\ row[u].cust # None
      /\ worker' = [worker EXCEPT ![w].pc = "upsert", ![w].user = u,
                                  ![w].row = ApplyEvent(row[u], e)]
      /\ UNCHANGED <<env, row, ledger, rec, faults>>

\* customer.subscription.*: GetSubscriptionByCustomer finds a bound user.
LookupCustomer(w, u) ==
  LET e == worker[w].ev
  IN  /\ worker[w].pc = "lookup"
      /\ e.type # "checkout"
      /\ row[u].cust = CustOf(e.sub)
      /\ worker' = [worker EXCEPT ![w].pc = "upsert", ![w].user = u,
                                  ![w].row = ApplyEvent(row[u], e)]
      /\ UNCHANGED <<env, row, ledger, rec, faults>>

\* No user is bound to the customer: the event is dropped and acknowledged.
Unbound(w) ==
  LET e == worker[w].ev
  IN  /\ worker[w].pc = "lookup"
      /\ e.type # "checkout"
      /\ \A u \in Users : row[u].cust # CustOf(e.sub)
      /\ Goto(w, "mark")
      /\ UNCHANGED <<env, row, ledger, rec, faults>>

\* UpsertSubscription writes the whole row; the last writer wins.
Upsert(w) ==
  /\ worker[w].pc = "upsert"
  /\ row' = [row EXCEPT ![worker[w].user] = worker[w].row]
  /\ worker' = [worker EXCEPT ![w].pc = "mark", ![w].user = None, ![w].row = NoRow]
  /\ UNCHANGED <<env, ledger, rec, faults>>

\* MarkStripeEventSeen, then 200.
Mark(w) ==
  /\ worker[w].pc = "mark"
  /\ ledger' = ledger \cup {worker[w].ev}
  /\ Done(w)
  /\ UNCHANGED <<env, row, rec, faults>>

\* A store call fails (or the process dies): 5xx, and Stripe delivers again.
StoreFails(w) ==
  /\ worker[w].pc \in {"lookup", "upsert", "mark"}
  /\ faults < MaxFaults
  /\ faults' = faults + 1
  /\ Done(w)
  /\ UNCHANGED <<env, row, ledger, rec>>

WorkerStep(w) ==
  \/ LookupUser(w)
  \/ Repull(w)
  \/ RepullFails(w)
  \/ \E u \in Users : LookupCustomer(w, u)
  \/ Unbound(w)
  \/ Upsert(w)
  \/ Mark(w)

WebhookNext ==
  \/ \E w \in Workers, e \in sent : Receive(w, e)
  \/ \E w \in Workers : WorkerStep(w) \/ StoreFails(w)

-----------------------------------------------------------------------------
(* reconcileSubscriptions. *)

Listed(s) == [sub |-> s, status |-> stripe[s]]

\* ListSubscriptions returned every subscription; one is chosen per customer.
RecList ==
  /\ rec.pc = "idle"
  /\ \E best \in [Customers -> {NotListed} \cup {Listed(s) : s \in Subs}] :
       /\ \A c \in Customers :
            IF Best(c) = {} THEN best[c] = NotListed
                            ELSE best[c] \in {Listed(s) : s \in Best(c)}
       /\ rec' = [IdleRec EXCEPT !.pc = "forward", !.best = best,
                                 !.keys = {c \in Customers : best[c] # NotListed}]
  /\ UNCHANGED <<env, row, ledger, worker, faults>>

\* The row the forward pass wants for customer c where it finds r.
Target(r, c) == ApplyStripeSub(r, rec.best[c].sub, rec.best[c].status)

\* Forward pass: the row of customer c drifted from the listing.
RecDrifted(c, u) ==
  /\ rec.pc = "forward"
  /\ rec.best[c] # NotListed
  /\ row[u].cust = c
  /\ Target(row[u], c) # row[u]
  /\ rec' = [rec EXCEPT !.pc = "write", !.best[c] = NotListed,
                        !.user = u, !.row = Target(row[u], c)]
  /\ UNCHANGED <<env, row, ledger, worker, faults>>

\* Forward pass: no user is bound to customer c, or its row has not drifted.
RecKept(c) ==
  /\ rec.pc = "forward"
  /\ rec.best[c] # NotListed
  /\ \A u \in Users : row[u].cust = c => Target(row[u], c) = row[u]
  /\ rec' = [rec EXCEPT !.best[c] = NotListed]
  /\ UNCHANGED <<env, row, ledger, worker, faults>>

RecWrite ==
  /\ rec.pc = "write"
  /\ row' = [row EXCEPT ![rec.user] = rec.row]
  /\ rec' = [rec EXCEPT !.pc = "forward", !.user = None, !.row = NoRow]
  /\ UNCHANGED <<env, ledger, worker, faults>>

ForwardDone == rec.pc = "forward" /\ \A c \in Customers : rec.best[c] = NotListed

\* Reverse pass: ListProSubscriptions, read after the forward pass; the rows
\* with no customer and those of a listed customer are passed over.
RecListPro ==
  /\ ForwardDone
  /\ rec' = [IdleRec EXCEPT !.pc = "reverse", !.pro = [u \in Users |->
       IF GrantsPro(row[u]) /\ row[u].cust \notin rec.keys \cup {None}
       THEN row[u] ELSE NoRow]]
  /\ UNCHANGED <<env, row, ledger, worker, faults>>

\* Mutant: the stored tier is left behind.
RevokedStatusOnly(r) == [r EXCEPT !.status = "canceled"]

\* What the reverse pass writes over a row.
Revoked(r) == [r EXCEPT !.status = "canceled", !.tier = "free"]

RecRevoke(u) ==
  /\ rec.pc = "reverse"
  /\ rec.pro[u] # NoRow
  /\ row' = [row EXCEPT ![u] = Revoked(rec.pro[u])]
  /\ rec' = [rec EXCEPT !.pro[u] = NoRow]
  /\ UNCHANGED <<env, ledger, worker, faults>>

RecDone ==
  /\ rec.pc = "reverse"
  /\ \A u \in Users : rec.pro[u] = NoRow
  /\ rec' = IdleRec
  /\ UNCHANGED <<env, row, ledger, worker, faults>>

\* A lookup or an upsert fails and the customer or the row is skipped; a list
\* that fails ends the run.
RecFails ==
  /\ faults < MaxFaults
  /\ faults' = faults + 1
  /\ \/ \E c \in Customers : /\ rec.pc = "forward"
                             /\ rec.best[c] # NotListed
                             /\ rec' = [rec EXCEPT !.best[c] = NotListed]
     \/ /\ rec.pc = "write"
        /\ rec' = [rec EXCEPT !.pc = "forward", !.user = None, !.row = NoRow]
     \/ \E u \in Users : /\ rec.pro[u] # NoRow
                         /\ rec' = [rec EXCEPT !.pro[u] = NoRow]
     \/ ForwardDone /\ rec' = IdleRec
  /\ UNCHANGED <<env, row, ledger, worker>>

RecStep ==
  \/ RecList
  \/ \E c \in Customers, u \in Users : RecDrifted(c, u)
  \/ \E c \in Customers : RecKept(c)
  \/ RecWrite
  \/ RecListPro
  \/ \E u \in Users : RecRevoke(u)
  \/ RecDone

-----------------------------------------------------------------------------
Next == StripeNext \/ WebhookNext \/ RecStep \/ RecFails

\* A request that was received runs to its end, and the reconciler's timer
\* keeps firing.  Nothing is assumed of Stripe: it may never deliver an event.
Fairness ==
  /\ \A w \in Workers : WF_vars(WorkerStep(w))
  /\ WF_vars(RecStep)

Spec == Init /\ [][Next]_vars
FairSpec == Spec /\ Fairness

-----------------------------------------------------------------------------
(* Properties. *)

\* Every variable keeps its shape: in particular a stored row is always one
\* the API's gates can read.
TypeOK ==
  /\ stripe \in [Subs -> Live \cup Unlisted]
  /\ session \in [Subs -> Session]
  /\ sent \subseteq Event /\ IsFiniteSet(sent)
  /\ row \in [Users -> Row]
  /\ ledger \subseteq Event
  /\ worker \in [Workers -> WorkerState]
  /\ rec \in RecState
  /\ faults \in 0..MaxFaults

\* The tier the three writers store (applyStripeSub, the deletion override,
\* the reverse pass) is the one tierOf derives from the status of the same
\* row outside the renewal grace: the gates that read one and the list that
\* reads the other never disagree on who is Pro.
TierMatchesStatus ==
  \A u \in Users : row[u].tier = TierOf(row[u], FALSE)

\* Nobody is Pro for free, whatever the order of events, the stale rows that
\* are written back and the runs of the reconciler: a Pro row names a
\* subscription of its own user's checkout that Stripe has reported active.
ProIsPaidFor ==
  \A u \in Users : row[u].tier = "pro" =>
    /\ row[u].sub # None
    /\ UserOf(row[u].sub) = u
    /\ \E e \in sent : e.sub = row[u].sub /\ e.status = "active"

\* Process, then record (stripeWebhook): an event in the ledger is never
\* processed again, so a checkout may be recorded only once its user has a
\* row with a customer.  A store failure between the two loses nothing, and
\* no later whole-row write of anyone undoes the binding.
RecordedCheckoutIsBound ==
  \A e \in sent : e.type = "checkout" /\ e \in ledger =>
    row[UserOf(e.sub)].cust # None

\* Stripe holds an active subscription of the customer the row is bound to.
Paying(u) == \E s \in Subs : CustOf(s) = row[u].cust /\ stripe[s] = "active"

\* The reconciler repairs what lost, late and reordered events did: once
\* Stripe is quiet and calls stop failing, every bound user is and stays Pro
\* exactly while the customer has an active subscription.
EntitlementConverges ==
  <>[](\A u \in Users : row[u].cust # None => (row[u].tier = "pro" <=> Paying(u)))

\* "Re-applying the same event converges to the same row", and an event that is
\* recorded is not replayed "OUT OF ORDER against newer state" (stripeWebhook): a
\* request whose subscription event another delivery has already recorded does not
\* overwrite the state a newer recorded event of that subscription reported.
IsIn(r, e) == r = ApplyEvent(r, e)
DuplicateUndoesNothing ==
  [][\A w \in Workers, newer \in ledger :
       Upsert(w) =>
         LET e == worker[w].ev
             u == worker[w].user
         IN  /\ e \in ledger /\ e.sub = newer.sub /\ e.id < newer.id
             /\ "checkout" \notin {e.type, newer.type}
             /\ IsIn(row[u], newer)
             => IsIn(row'[u], newer)]_vars

\* "An absent customer genuinely has no subscription" (reconcile.go): the
\* reverse pass revokes only users who are not paying.
RevokedIsNotPaying ==
  [][\A u \in Users : RecRevoke(u) => ~Paying(u)]_vars
=============================================================================
