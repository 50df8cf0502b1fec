----------------------------- MODULE ChatProofs -----------------------------
(***************************************************************************)
(* Proofs about the turns of the chat (Chat), for any requests, limits,    *)
(* costs and bounds: the quotas and the daily backstop, which are only     *)
(* looked at when a turn begins, overshoot by no more than the turns in    *)
(* flight, and a conversation that is deleted stays empty but for the      *)
(* turns that were in it.                                                  *)
(*                                                                         *)
(* What a turn will cost is not known when it is admitted, so the          *)
(* invariant charges every admitted turn the most a turn may cost.         *)
(*                                                                         *)
(* And about what an answer ships (ChatTools), whatever tools the LLM      *)
(* calls and however the symbol directory changes under the turn, for any  *)
(* tickers, funds and bounds.                                              *)
(***************************************************************************)
EXTENDS Chat, ChatTools, SequenceTheorems, FiniteSetTheorems, WellFoundedInduction, TLAPS

Steps == {"out", "creating", "gate", "backstop", "asking", "question", "answer", "charging",
          "counting"}

\* Turns that have passed the gate of a bucket, and are still to be charged to it.
Owing(b) ==
  {p \in Procs : bucket[p] = b
                 /\ pc[p] \in {"backstop", "asking", "question", "answer", "charging"}}

\* Turns that have passed the backstop, and are still to be counted.
Uncounted ==
  {p \in Procs : pc[p] \in {"asking", "question", "answer", "charging", "counting"}}

\* A turn that has been answered has a cost.
CostInv ==
  \A p \in Procs : pc[p] \in {"question", "answer", "charging"} => cost[p] \in Costs

Covered(b) ==
  used[b] + Cardinality(Owing(b)) * MaxCost
    <= Limits[b] - 1 + (Cardinality(Procs) + faults) * MaxCost
QuotaInv == \A b \in Tiers : Covered(b)

BackstopInv == dayCount + Cardinality(Uncounted) <= DayCap - 1 + Cardinality(Procs)

\* A turn is in a conversation that exists, or that was deleted under it.
TurnInv ==
  \A p \in Procs : pc[p] \notin {"out", "creating"} =>
    /\ at[p] \in Convs /\ conv[at[p]] # "none"
    /\ conv[at[p]] = "deleted" => at[p] \in late

\* A conversation is empty before it is made, and once it is deleted under no turn.
EmptyInv ==
  \A c \in Convs : conv[c] = "none" \/ (conv[c] = "deleted" /\ c \notin late) => msgs[c] = 0

\* While no two first turns have raced, the one that creates the conversation
\* is alone, and there is none yet.
Creating == {p \in Procs : pc[p] = "creating"}
OneThread ==
  /\ \A c, d \in Open : c = d
  /\ Creating # {} => Open = {}
  /\ \A p, q \in Creating : p = q

ThreadInv ==
  /\ backend = "memory" => Creating = {} /\ ~raced
  /\ ~raced => OneThread

IInv == ChatTypeOK /\ CostInv /\ QuotaInv /\ BackstopInv /\ TurnInv /\ EmptyInv /\ ThreadInv

-----------------------------------------------------------------------------
(* Lemmas. *)

LEMMA MaxCostType ==
  ASSUME ChatAssumption
  PROVE  MaxCost \in Nat /\ \A m \in Costs : m \in Nat /\ m <= MaxCost
BY DEF ChatAssumption, MaxCost

LEMMA OldestIsIn ==
  ASSUME ChatAssumption, NEW S \in SUBSET Convs, S # {}
  PROVE  Oldest(S) \in S
<1>1. S \in SUBSET Nat
  BY DEF Convs, ChatAssumption
<1>2. PICK m \in S : \A n \in S : ~(<<n, m>> \in OpToRel(<, Nat))
  BY <1>1, NatLessThanWellFounded, WFMin
<1>3. \A n \in S : n < m <=> <<n, m>> \in OpToRel(<, Nat)
  BY <1>1 DEF OpToRel
<1>4. \A n \in S : n \in Nat /\ m \in Nat /\ ~(n < m)
  BY <1>1, <1>2, <1>3
<1>5. \A n \in S : m <= n
  BY <1>4
<1> QED  BY <1>5 DEF Oldest

\* The turns of a set are no more than the requests.
LEMMA TurnsCount ==
  ASSUME ChatAssumption, NEW S \in SUBSET Procs
  PROVE  /\ IsFiniteSet(S) /\ Cardinality(S) \in Nat /\ Cardinality(Procs) \in Nat
         /\ Cardinality(S) <= Cardinality(Procs)
         /\ \A T \in SUBSET S : Cardinality(T) <= Cardinality(S)
         /\ \A p \in S : Cardinality(S \ {p}) = Cardinality(S) - 1
         /\ \A p : p \notin S => Cardinality(S \cup {p}) = Cardinality(S) + 1
<1>1. IsFiniteSet(Procs)
  BY DEF ChatAssumption
<1>2. IsFiniteSet(S)
  BY <1>1, FS_Subset
<1> QED  BY <1>1, <1>2, FS_Subset, FS_CardinalityType, FS_AddElement, FS_RemoveElement

LEMMA Products ==
  /\ \A m, n \in Nat : m * n \in Nat /\ (m + 1) * n = m * n + n
  /\ \A k, m, n \in Nat : k <= m => k * n <= m * n
  /\ \A k, m, n \in Nat : k + m \in Nat /\ m <= m + k /\ m <= k + m /\ (m <= n => k + m <= k + n)
  /\ \A k, m, n \in Nat : m <= k => m <= k + n
OBVIOUS

\* A quota, over a step that charges nobody to it and admits nobody.
LEMMA QuotaKept ==
  ASSUME ChatAssumption, ChatTypeOK, NEW b \in Tiers, Covered(b), used'[b] = used[b],
         faults' \in Nat, faults <= faults', Owing(b)' \subseteq Owing(b)
  PROVE  Covered(b)'
<1> DEFINE n == Cardinality(Owing(b))
           m == Cardinality(Owing(b)')
           k == Cardinality(Procs)
<1>1. Owing(b) \in SUBSET Procs /\ Owing(b)' \in SUBSET Owing(b)
  BY DEF Owing
<1>2. n \in Nat /\ m \in Nat /\ k \in Nat /\ m <= n
  BY <1>1, TurnsCount
<1>3. used[b] + n * MaxCost <= Limits[b] - 1 + (k + faults) * MaxCost
  BY DEF Covered
<1>4. /\ used[b] \in Nat /\ Limits[b] \in Nat \ {0} /\ MaxCost \in Nat
      /\ faults \in Nat
  BY MaxCostType DEF ChatTypeOK, ChatAssumption
<1> HIDE DEF n, m, k
<1>5. k + faults \in Nat /\ k + faults' \in Nat /\ k + faults <= k + faults'
  BY <1>2, <1>4, Products, Zenon
<1>6. /\ m * MaxCost <= n * MaxCost /\ m * MaxCost \in Nat /\ n * MaxCost \in Nat
      /\ (k + faults) * MaxCost <= (k + faults') * MaxCost
      /\ (k + faults) * MaxCost \in Nat /\ (k + faults') * MaxCost \in Nat
  BY <1>2, <1>4, <1>5, Products
<1>7. used[b] + m * MaxCost <= Limits[b] - 1 + (k + faults') * MaxCost
  BY <1>3, <1>4, <1>6
<1> QED  BY <1>7 DEF n, m, k, Covered

\* The backstop, over a step that counts nobody and lets nobody through.
LEMMA BackstopKept ==
  ASSUME ChatAssumption, ChatTypeOK, BackstopInv, dayCount' \in Nat, dayCount' <= dayCount,
         Uncounted' \subseteq Uncounted
  PROVE  BackstopInv'
<1>1. Uncounted \in SUBSET Procs /\ Uncounted' \in SUBSET Uncounted
  BY DEF Uncounted
<1>2. /\ Cardinality(Uncounted) \in Nat /\ Cardinality(Uncounted') \in Nat
      /\ Cardinality(Uncounted') <= Cardinality(Uncounted) /\ Cardinality(Procs) \in Nat
  BY <1>1, TurnsCount
<1>3. DayCap \in Nat \ {0} /\ dayCount \in Nat
  BY DEF ChatAssumption, ChatTypeOK
<1> QED  BY <1>2, <1>3 DEF BackstopInv

-----------------------------------------------------------------------------
(* The state is well typed. *)

LEMMA NextTypes ==
  ASSUME ChatAssumption, ChatTypeOK, CostInv, TurnInv, ChatNext
  PROVE  ChatTypeOK'
<1> USE DEF ChatTypeOK, Goto, Return, convVars, meterVars, procVars
<1>0. \A m, n \in Nat : m + n \in Nat /\ m + 1 \in Nat
  OBVIOUS
<1>a. ASSUME Fault PROVE faults' \in 0..MaxFaults
  BY <1>a DEF Fault, ChatAssumption
<1>b. ASSUME turns < MaxTurns PROVE turns + 1 \in 0..MaxTurns
  BY <1>b DEF ChatAssumption
<1>c. \A c \in Convs : c \in 0..MaxConvs
  BY DEF Convs, ChatAssumption
<1>d. Open \in SUBSET Convs /\ Unused \in SUBSET Convs
  BY DEF Open, Unused
<1>1. ASSUME NEW p \in Procs, FindConversation(p) PROVE ChatTypeOK'
  <2>1. Oldest(Open) \in Convs
    BY <1>1, <1>d, OldestIsIn DEF FindConversation
  <2> QED  BY <1>1, <1>b, <1>c, <2>1 DEF FindConversation, Enter
<1>2. ASSUME NEW p \in Procs, MissConversation(p) PROVE ChatTypeOK'
  <2>1. Oldest(Unused) \in Convs
    BY <1>2, <1>d, OldestIsIn DEF MissConversation
  <2>2. raced' \in BOOLEAN
    BY <1>2 DEF MissConversation
  <2> QED  BY <1>2, <1>b, <1>c, <2>1, <2>2 DEF MissConversation, Enter
<1>3. ASSUME NEW p \in Procs, CreateConversation(p) PROVE ChatTypeOK'
  <2>1. Oldest(Unused) \in Convs
    BY <1>3, <1>d, OldestIsIn DEF CreateConversation
  <2> QED  BY <1>3, <1>c, <2>1 DEF CreateConversation, Enter
<1>4. ASSUME NEW p \in Procs, NameConversation(p) PROVE ChatTypeOK'
  BY <1>4, <1>b, <1>c, <1>d DEF NameConversation, Enter
<1>5. ASSUME NEW p \in Procs, Gate(p) PROVE ChatTypeOK'
  BY <1>5, <1>a DEF Gate
<1>6. ASSUME NEW p \in Procs, Backstop(p) PROVE ChatTypeOK'
  BY <1>6, <1>a DEF Backstop, ChatAssumption
<1>7. ASSUME NEW p \in Procs, Answered(p) PROVE ChatTypeOK'
  BY <1>7 DEF Answered, ChatAssumption
<1>8. ASSUME NEW p \in Procs, NotAnswered(p) PROVE ChatTypeOK'
  BY <1>8 DEF NotAnswered
<1>9. ASSUME NEW p \in Procs, AppendAnswer(p) PROVE ChatTypeOK'
  BY <1>9, <1>a, <1>0 DEF AppendAnswer, Store, Miss
<1>10. ASSUME NEW p \in Procs, Charge(p) PROVE ChatTypeOK'
  BY <1>10, <1>a, <1>0 DEF Charge, Store, Miss
<1>11. ASSUME NEW p \in Procs, Count(p) PROVE ChatTypeOK'
  BY <1>11, <1>0 DEF Count
<1>12. ASSUME NEW p \in Procs, Leave(p) PROVE ChatTypeOK'
  BY <1>12, <1>a DEF Leave
<1>13. ASSUME NEW c \in Convs, DeleteConversation(c) PROVE ChatTypeOK'
  BY <1>13, <1>a DEF DeleteConversation
<1>14. ASSUME NEW c \in Convs, ClearMessages(c) PROVE ChatTypeOK'
  BY <1>14, <1>a DEF ClearMessages
<1>15. ASSUME ChangeTier PROVE ChatTypeOK'
  BY <1>15, <1>a DEF ChangeTier
<1>16. ASSUME Midnight PROVE ChatTypeOK'
  BY <1>16 DEF Midnight, ChatAssumption
<1> QED
  BY <1>1, <1>2, <1>3, <1>4, <1>5, <1>6, <1>7, <1>8, <1>9, <1>10, <1>11, <1>12, <1>13, <1>14,
     <1>15, <1>16 DEF ChatNext

-----------------------------------------------------------------------------
(* The rest of the invariant, step by step. *)

LEMMA InitInv ==
  ASSUME ChatAssumption, ChatInit
  PROVE  IInv
<1>1. ChatTypeOK
  <2>1. /\ backend \in {"memory", "postgres"} /\ tier \in Tiers /\ today \in 1..MaxDay
        /\ late \subseteq Convs /\ left \subseteq Procs
    BY DEF ChatInit, ChatAssumption
  <2>6. raced \in BOOLEAN
    BY DEF ChatInit
  <2>2. /\ used \in [Tiers -> Nat] /\ dayDate \in 0..MaxDay /\ dayCount \in Nat
        /\ turns \in 0..MaxTurns /\ faults \in 0..MaxFaults
    BY DEF ChatInit, ChatAssumption
  <2>3. /\ conv \in [Convs -> {"none", "open", "deleted"}] /\ msgs \in [Convs -> Nat]
    BY DEF ChatInit
  <2>4. /\ pc \in [Procs -> {"out", "creating", "gate", "backstop", "asking", "question", "answer",
                       "charging", "counting"}]
        /\ cost \in [Procs -> Nat]
    BY DEF ChatInit
  <2>5. at \in [Procs -> 0..MaxConvs] /\ bucket \in [Procs -> Tiers]
    BY DEF ChatInit, ChatAssumption, Tiers
  <2> QED  BY <2>1, <2>2, <2>3, <2>4, <2>5, <2>6 DEF ChatTypeOK
<1>2. Owing("pro") = {} /\ Owing("free") = {} /\ Uncounted = {} /\ Creating = {} /\ Open = {}
  BY DEF ChatInit, Owing, Uncounted, Creating, Open
<1>3. CostInv /\ TurnInv /\ EmptyInv
  BY DEF ChatInit, CostInv, TurnInv, EmptyInv
<1>4. Cardinality({}) = 0 /\ Cardinality(Procs) \in Nat /\ MaxCost \in Nat
  BY FS_EmptySet, FS_CardinalityType, MaxCostType DEF ChatAssumption
<1>5. QuotaInv
  <2>1. \A b \in Tiers : used[b] = 0 /\ Cardinality(Owing(b)) = 0 /\ Limits[b] \in Nat \ {0}
    BY <1>2, <1>4 DEF ChatInit, Tiers, ChatAssumption
  <2>2. faults = 0
    BY DEF ChatInit
  <2>3. 0 * MaxCost = 0 /\ (Cardinality(Procs) + faults) * MaxCost \in Nat
    BY <1>4, <2>2
  <2>4. \A b \in Tiers :
          Limits[b] - 1 \in Nat /\ 0 + 0 <= Limits[b] - 1 + (Cardinality(Procs) + faults) * MaxCost
    BY <2>1, <2>3
  <2> QED  BY <2>1, <2>3, <2>4 DEF QuotaInv, Covered
<1>6. BackstopInv
  BY <1>2, <1>4 DEF ChatInit, BackstopInv, ChatAssumption
<1>7. ThreadInv
  BY <1>2 DEF ThreadInv, OneThread, ChatInit
<1> QED  BY <1>1, <1>3, <1>5, <1>6, <1>7 DEF IInv

\* A request enters a conversation that is open once it has.
LEMMA EnterInv ==
  ASSUME ChatTypeOK, TurnInv, NEW p \in Procs, NEW c \in Convs, Enter(p, c), UNCHANGED late,
         conv' \in [Convs -> {"none", "open", "deleted"}], conv'[c] = "open",
         \A d \in Convs : d # c => conv'[d] = conv[d],
         conv[c] # "deleted"
  PROVE  TurnInv'
BY DEF TurnInv, Enter, Goto, ChatTypeOK

\* A turn goes on, in the same conversation, or ends.
LEMMA GoOnInv ==
  ASSUME ChatTypeOK, TurnInv, UNCHANGED <<conv, late, at>>,
         \A p \in Procs : pc[p] \in {"out", "creating"} => pc'[p] \in {"out", "creating"}
  PROVE  TurnInv'
BY DEF TurnInv

LEMMA NextCost ==
  ASSUME ChatAssumption, ChatTypeOK, CostInv, ChatNext
  PROVE  CostInv'
<1> SUFFICES ASSUME NEW q \in Procs, pc'[q] \in {"question", "answer", "charging"}
             PROVE  cost'[q] \in Costs
  BY DEF CostInv
<1>1. pc[q] \in {"question", "answer", "charging"} => cost[q] \in Costs
  BY DEF CostInv
<1>2. ASSUME NEW p \in Procs, Answered(p) PROVE cost'[q] \in Costs
  BY <1>1, <1>2 DEF Answered, Goto, ChatTypeOK
<1>3. ASSUME NEW p \in Procs, Count(p) PROVE cost'[q] \in Costs
  BY <1>1, <1>3 DEF Count, Return, Goto, ChatTypeOK
<1>4. ASSUME NEW p \in Procs, AppendAnswer(p) PROVE cost'[q] \in Costs
  BY <1>1, <1>4 DEF AppendAnswer, Goto, ChatTypeOK
<1>5. ASSUME NEW p \in Procs,
             \/ FindConversation(p) \/ MissConversation(p) \/ CreateConversation(p)
             \/ NameConversation(p) \/ Gate(p) \/ Backstop(p) \/ NotAnswered(p) \/ Charge(p)
             \/ Leave(p)
      PROVE cost'[q] \in Costs
  BY <1>1, <1>5 DEF FindConversation, MissConversation, CreateConversation, NameConversation, Gate,
     Backstop, NotAnswered, Charge, Leave, Enter, Return, Goto, ChatTypeOK, procVars
<1>6. ASSUME \/ \E c \in Convs : DeleteConversation(c) \/ ClearMessages(c)
             \/ ChangeTier \/ Midnight
      PROVE cost'[q] \in Costs
  BY <1>1, <1>6 DEF DeleteConversation, ClearMessages, ChangeTier, Midnight, procVars
<1> QED  BY <1>2, <1>3, <1>4, <1>5, <1>6 DEF ChatNext

LEMMA FaultsGrow ==
  ASSUME ChatAssumption, ChatTypeOK, ChatNext
  PROVE  faults' \in Nat /\ faults <= faults'
<1>1. faults \in Nat
  BY DEF ChatTypeOK
<1>2. ASSUME Fault PROVE faults' \in Nat /\ faults <= faults'
  BY <1>1, <1>2 DEF Fault
<1>3. ASSUME UNCHANGED faults PROVE faults' \in Nat /\ faults <= faults'
  BY <1>1, <1>3
<1>4. Fault \/ UNCHANGED faults
  BY DEF ChatNext, FindConversation, MissConversation, CreateConversation, NameConversation, Gate,
     Backstop, Answered, NotAnswered, AppendAnswer, Charge, Count, Leave, DeleteConversation,
     ClearMessages, ChangeTier, Midnight, Store, Miss
<1> QED  BY <1>2, <1>3, <1>4

LEMMA NextQuota ==
  ASSUME ChatAssumption, ChatTypeOK, ChatTypeOK', CostInv, QuotaInv, ChatNext, NEW b \in Tiers
  PROVE  Covered(b)'
<1>1. Covered(b) /\ faults' \in Nat /\ faults <= faults'
  BY FaultsGrow DEF QuotaInv
<1>2. ASSUME used'[b] = used[b], Owing(b)' \subseteq Owing(b) PROVE Covered(b)'
  BY <1>1, <1>2, QuotaKept
<1>3. ASSUME NEW p \in Procs, Gate(p) PROVE Covered(b)'
  <2> DEFINE n == Cardinality(Owing(b))
             m == Cardinality(Owing(b)')
             k == Cardinality(Procs)
             L == Limits[b]
             M == MaxCost
             u == used[b]
  <2>1. /\ u \in Nat /\ used'[b] = u /\ L \in Nat \ {0} /\ M \in Nat /\ faults \in Nat
    BY <1>3, MaxCostType DEF Gate, ChatTypeOK, ChatAssumption, meterVars
  <2>2. Owing(b) \in SUBSET Procs /\ Owing(b)' \in SUBSET Procs /\ p \notin Owing(b)
    BY <1>3 DEF Owing, Gate
  <2>3. /\ Owing(b)' \subseteq Owing(b) \cup {p}
        /\ b # tier \/ pc'[p] = "out" => Owing(b)' \subseteq Owing(b)
    BY <1>3 DEF Gate, Return, Goto, Owing, ChatTypeOK
  <2>4. n \in Nat /\ m \in Nat /\ k \in Nat /\ m <= k /\ m <= n + 1
    <3>1. Owing(b)' \in SUBSET (Owing(b) \cup {p}) /\ Owing(b) \cup {p} \in SUBSET Procs
      BY <2>2, <2>3
    <3> HIDE DEF Owing
    <3>2. Cardinality(Owing(b) \cup {p}) = n + 1
      BY <2>2, TurnsCount
    <3>3. Cardinality(Owing(b)') <= Cardinality(Owing(b) \cup {p})
      BY <3>1, TurnsCount
    <3> QED  BY <2>2, <3>2, <3>3, TurnsCount
  <2>5. CASE b # tier \/ pc'[p] = "out"
    BY <1>2, <2>1, <2>3, <2>5
  <2>6. CASE b = tier /\ WithinQuota(tier)
    <3>1. u <= L - 1
      BY <2>1, <2>6 DEF WithinQuota, ChatTypeOK
    <3> HIDE DEF n, m, k, L, M, u
    <3>2. k \in Nat /\ k + faults' \in Nat /\ m <= k + faults'
      BY <1>1, <2>4, Products, Zenon
    <3>3. m * M <= (k + faults') * M /\ m * M \in Nat /\ (k + faults') * M \in Nat
      BY <2>1, <2>4, <3>2, Products
    <3>4. u + m * M <= L - 1 + (k + faults') * M
      BY <2>1, <3>1, <3>3
    <3> QED  BY <2>1, <3>4 DEF n, m, k, L, M, u, Covered
  <2>7. CASE b = tier /\ faults' = faults + 1
    <3>1. u + n * M <= L - 1 + (k + faults) * M
      BY <1>1 DEF Covered
    <3> HIDE DEF n, m, k, L, M, u
    <3>2. k + faults \in Nat /\ n + 1 \in Nat /\ k + faults' = (k + faults) + 1
      BY <2>1, <2>4, <2>7
    <3>3. /\ m * M <= (n + 1) * M /\ (n + 1) * M = n * M + M
          /\ (k + faults') * M = (k + faults) * M + M
          /\ m * M \in Nat /\ n * M \in Nat /\ (k + faults) * M \in Nat
      BY <2>1, <2>4, <3>2, Products
    <3>4. u + m * M <= L - 1 + (k + faults') * M
      BY <2>1, <3>1, <3>3
    <3> QED  BY <2>1, <3>4 DEF n, m, k, L, M, u, Covered
  <2>8. \/ b # tier \/ pc'[p] = "out" \/ WithinQuota(tier) \/ faults' = faults + 1
    BY <1>3 DEF Gate, Fault, Return, Goto, ChatTypeOK
  <2> QED  BY <2>5, <2>6, <2>7, <2>8
<1>4. ASSUME NEW p \in Procs, Charge(p) PROVE Covered(b)'
  <2> DEFINE n == Cardinality(Owing(b))
             m == Cardinality(Owing(b)')
             k == Cardinality(Procs)
             L == Limits[b]
             M == MaxCost
             u == used[b]
             c == cost[p]
  <2>1. Owing(b)' = Owing(b) \ {p} /\ Owing(b) \in SUBSET Procs
    BY <1>4 DEF Charge, Goto, Owing, ChatTypeOK
  <2>2. CASE b # bucket[p] \/ UNCHANGED used
    <3>1. used'[b] = used[b]
      BY <1>4, <2>2 DEF Charge, ChatTypeOK
    <3> QED  BY <1>2, <2>1, <3>1
  <2>3. CASE b = bucket[p] /\ used' = [used EXCEPT ![bucket[p]] = @ + cost[p]]
    <3>1. /\ c \in Nat /\ c <= M /\ M \in Nat /\ u \in Nat /\ L \in Nat \ {0} /\ faults \in Nat
      BY <1>4, MaxCostType DEF Charge, CostInv, ChatTypeOK, ChatAssumption
    <3>2. used'[b] = u + c /\ p \in Owing(b)
      BY <1>4, <2>3 DEF ChatTypeOK, Charge, Owing
    <3>3. n \in Nat /\ m \in Nat /\ k \in Nat /\ m = n - 1
      BY <2>1, <3>2, TurnsCount
    <3>4. u + n * M <= L - 1 + (k + faults) * M
      BY <1>1 DEF Covered
    <3> HIDE DEF n, m, k, L, M, u, c
    <3>5. k + faults \in Nat /\ k + faults' \in Nat /\ k + faults <= k + faults'
      BY <1>1, <3>1, <3>3, Products, Zenon
    <3>6. n = m + 1
      BY <3>3
    <3>7. /\ n * M = m * M + M /\ m * M \in Nat
          /\ (k + faults) * M <= (k + faults') * M
          /\ (k + faults) * M \in Nat /\ (k + faults') * M \in Nat
      BY <3>1, <3>3, <3>5, <3>6, Products
    <3>8. (u + c) + m * M <= L - 1 + (k + faults') * M
      BY <3>1, <3>4, <3>7
    <3> QED  BY <3>2, <3>8 DEF n, m, k, L, M, u, c, Covered
  <2> QED  BY <1>4, <2>2, <2>3 DEF Charge
<1>5. ASSUME NEW p \in Procs,
             \/ FindConversation(p) \/ MissConversation(p) \/ CreateConversation(p)
             \/ NameConversation(p) \/ Backstop(p) \/ Answered(p)
      PROVE  Covered(b)'
  <2>1. used'[b] = used[b] /\ Owing(b)' \subseteq Owing(b)
    BY <1>5 DEF FindConversation, MissConversation, CreateConversation, NameConversation, Backstop,
       Answered, Enter, Return, Goto, Owing, ChatTypeOK, meterVars
  <2> QED  BY <1>2, <2>1
<1>6. ASSUME NEW p \in Procs, NotAnswered(p) \/ AppendAnswer(p) \/ Count(p) \/ Leave(p)
      PROVE  Covered(b)'
  <2>1. used'[b] = used[b] /\ Owing(b)' \subseteq Owing(b)
    BY <1>6 DEF NotAnswered, AppendAnswer, Count, Leave, Return, Goto, Owing, ChatTypeOK, meterVars
  <2> QED  BY <1>2, <2>1
<1>7. ASSUME \/ \E c \in Convs : DeleteConversation(c) \/ ClearMessages(c)
             \/ ChangeTier \/ Midnight
      PROVE  Covered(b)'
  <2>1. used'[b] = used[b] /\ Owing(b)' \subseteq Owing(b)
    BY <1>7 DEF DeleteConversation, ClearMessages, ChangeTier, Midnight, Owing, meterVars, procVars
  <2> QED  BY <1>2, <2>1
<1> QED  BY <1>3, <1>4, <1>5, <1>6, <1>7 DEF ChatNext

LEMMA NextBackstop ==
  ASSUME ChatAssumption, ChatTypeOK, ChatTypeOK', BackstopInv, ChatNext
  PROVE  BackstopInv'
<1>0. dayCount \in Nat /\ DayCap \in Nat \ {0} /\ dayCount' \in Nat
  BY DEF ChatTypeOK, ChatAssumption
<1>1. ASSUME dayCount' <= dayCount, Uncounted' \subseteq Uncounted PROVE BackstopInv'
  BY <1>0, <1>1, BackstopKept
<1>2. ASSUME NEW p \in Procs, Backstop(p) PROVE BackstopInv'
  <2>1. dayCount' <= dayCount
    BY <1>0, <1>2 DEF Backstop
  <2>2. CASE dayCount' < DayCap
    <3>1. Uncounted' \in SUBSET Procs
      BY DEF Uncounted
    <3>2. /\ Cardinality(Uncounted') \in Nat /\ Cardinality(Procs) \in Nat
          /\ Cardinality(Uncounted') <= Cardinality(Procs)
      BY <3>1, TurnsCount
    <3> QED  BY <1>0, <2>2, <3>2 DEF BackstopInv
  <2>3. CASE Return(p)
    <3>1. Uncounted' \subseteq Uncounted
      BY <2>3 DEF Return, Goto, Uncounted, ChatTypeOK
    <3> QED  BY <1>1, <2>1, <3>1
  <2> QED  BY <1>2, <2>2, <2>3 DEF Backstop
<1>3. ASSUME NEW p \in Procs, Count(p) PROVE BackstopInv'
  <2>1. Uncounted' = Uncounted \ {p} /\ p \in Uncounted /\ Uncounted \in SUBSET Procs
        /\ dayCount' = dayCount + 1
    BY <1>3 DEF Count, Return, Goto, Uncounted, ChatTypeOK
  <2>2. /\ Cardinality(Uncounted') = Cardinality(Uncounted) - 1
        /\ Cardinality(Uncounted) \in Nat /\ Cardinality(Procs) \in Nat
    BY <2>1, TurnsCount
  <2> QED  BY <1>0, <2>1, <2>2 DEF BackstopInv
<1>4. ASSUME NEW p \in Procs,
             \/ FindConversation(p) \/ MissConversation(p) \/ CreateConversation(p)
             \/ NameConversation(p) \/ Gate(p)
      PROVE  BackstopInv'
  <2>1. dayCount' = dayCount /\ Uncounted' \subseteq Uncounted
    BY <1>4 DEF FindConversation, MissConversation, CreateConversation, NameConversation, Gate,
       Enter, Return, Goto, Uncounted, ChatTypeOK, meterVars
  <2> QED  BY <1>0, <1>1, <2>1
<1>5. ASSUME NEW p \in Procs, Answered(p) \/ NotAnswered(p) \/ AppendAnswer(p) \/ Charge(p) \/ Leave(p)
      PROVE  BackstopInv'
  <2>1. dayCount' = dayCount /\ Uncounted' \subseteq Uncounted
    BY <1>5 DEF Answered, NotAnswered, AppendAnswer, Charge, Leave, Return, Goto, Uncounted, ChatTypeOK,
       meterVars
  <2> QED  BY <1>0, <1>1, <2>1
<1>6. ASSUME \/ \E c \in Convs : DeleteConversation(c) \/ ClearMessages(c)
             \/ ChangeTier \/ Midnight
      PROVE  BackstopInv'
  <2>1. dayCount' = dayCount /\ Uncounted' \subseteq Uncounted
    BY <1>6 DEF DeleteConversation, ClearMessages, ChangeTier, Midnight, Uncounted, meterVars,
       procVars
  <2> QED  BY <1>0, <1>1, <2>1
<1> QED  BY <1>2, <1>3, <1>4, <1>5, <1>6 DEF ChatNext

\* A turn is in a conversation that is there, or that it saw deleted.
LEMMA NextTurn ==
  ASSUME ChatAssumption, ChatTypeOK, ChatTypeOK', TurnInv, ChatNext
  PROVE  TurnInv'
<1>0. Open \in SUBSET Convs /\ Unused \in SUBSET Convs
  BY DEF Open, Unused
<1>1. ASSUME NEW p \in Procs, FindConversation(p) PROVE TurnInv'
  <2>1. Oldest(Open) \in Open
    BY <1>0, <1>1, OldestIsIn DEF FindConversation
  <2> DEFINE c == Oldest(Open)
  <2>2. c \in Convs /\ conv[c] = "open" /\ Enter(p, c) /\ UNCHANGED <<conv, late>>
    BY <1>1, <2>1 DEF FindConversation, Open, convVars
  <2> HIDE DEF c
  <2> QED  BY <2>2, EnterInv DEF ChatTypeOK
<1>2. ASSUME NEW p \in Procs, MissConversation(p) PROVE TurnInv'
  <2>1. CASE backend = "memory"
    <3>1. Oldest(Unused) \in Unused
      BY <1>0, <1>2, OldestIsIn DEF MissConversation
    <3> DEFINE c == Oldest(Unused)
    <3>2. /\ c \in Convs /\ conv[c] = "none" /\ Enter(p, c) /\ UNCHANGED late
          /\ conv' = [conv EXCEPT ![c] = "open"]
      BY <1>2, <2>1, <3>1 DEF MissConversation, Unused
    <3> HIDE DEF c
    <3> QED  BY <3>2, EnterInv DEF ChatTypeOK
  <2>2. CASE backend # "memory"
    <3>1. UNCHANGED <<conv, late, at>> /\ pc' = [pc EXCEPT ![p] = "creating"]
      BY <1>2, <2>2 DEF MissConversation, Goto
    <3> QED  BY <3>1, GoOnInv DEF ChatTypeOK
  <2> QED  BY <2>1, <2>2
<1>3. ASSUME NEW p \in Procs, CreateConversation(p) PROVE TurnInv'
  <2>1. Oldest(Unused) \in Unused
    BY <1>0, <1>3, OldestIsIn DEF CreateConversation
  <2> DEFINE c == Oldest(Unused)
  <2>2. /\ c \in Convs /\ conv[c] = "none" /\ Enter(p, c) /\ UNCHANGED late
        /\ conv' = [conv EXCEPT ![c] = "open"]
    BY <1>3, <2>1 DEF CreateConversation, Unused
  <2> HIDE DEF c
  <2> QED  BY <2>2, EnterInv DEF ChatTypeOK
<1>4. ASSUME NEW p \in Procs, NameConversation(p) PROVE TurnInv'
  <2>1. PICK c \in Open : Enter(p, c)
    BY <1>4 DEF NameConversation
  <2>2. c \in Convs /\ conv[c] = "open" /\ UNCHANGED <<conv, late>>
    BY <1>4 DEF NameConversation, Open, convVars
  <2> QED  BY <2>1, <2>2, EnterInv DEF ChatTypeOK
<1>5. ASSUME NEW p \in Procs,
             \/ Gate(p) \/ Backstop(p) \/ Answered(p) \/ NotAnswered(p) \/ AppendAnswer(p) \/ Charge(p)
             \/ Count(p) \/ Leave(p)
      PROVE  TurnInv'
  <2>1. UNCHANGED <<conv, late, at>>
    BY <1>5 DEF Gate, Backstop, Answered, NotAnswered, AppendAnswer, Charge, Count, Leave, convVars
  <2>2. \A q \in Procs : pc[q] \in {"out", "creating"} => pc'[q] \in {"out", "creating"}
    BY <1>5 DEF Gate, Backstop, Answered, NotAnswered, AppendAnswer, Charge, Count, Leave, Return, Goto,
       ChatTypeOK
  <2> QED  BY <2>1, <2>2, GoOnInv
<1>6. ASSUME NEW c \in Convs, DeleteConversation(c) PROVE TurnInv'
  <2>1. /\ conv[c] = "open" /\ conv' = [conv EXCEPT ![c] = "deleted"] /\ UNCHANGED <<pc, at>>
        /\ late \subseteq late'
    BY <1>6 DEF DeleteConversation, procVars
  <2>2. \A p \in Procs : pc[p] # "out" /\ at[p] = c => c \in late'
    BY <1>6 DEF DeleteConversation
  <2> QED  BY <2>1, <2>2 DEF TurnInv, ChatTypeOK
<1>7. ASSUME ChangeTier \/ Midnight \/ \E c \in Convs : ClearMessages(c)
      PROVE  TurnInv'
  BY <1>7 DEF ClearMessages, ChangeTier, Midnight, TurnInv, convVars, procVars
<1> QED  BY <1>1, <1>2, <1>3, <1>4, <1>5, <1>6, <1>7 DEF ChatNext

LEMMA NextEmpty ==
  ASSUME ChatAssumption, ChatTypeOK, ChatTypeOK', TurnInv, EmptyInv, ChatNext
  PROVE  EmptyInv'
<1> SUFFICES ASSUME NEW c \in Convs,
                    conv'[c] = "none" \/ (conv'[c] = "deleted" /\ c \notin late')
             PROVE  msgs'[c] = 0
  BY DEF EmptyInv
<1>0. conv[c] = "none" \/ (conv[c] = "deleted" /\ c \notin late) => msgs[c] = 0
  BY DEF EmptyInv
<1>1. ASSUME NEW p \in Procs,
             \/ FindConversation(p) \/ MissConversation(p) \/ CreateConversation(p)
             \/ NameConversation(p)
      PROVE  msgs'[c] = 0
  <2>1. /\ UNCHANGED <<msgs, late>>
        /\ conv' = conv \/ conv' = [conv EXCEPT ![Oldest(Unused)] = "open"]
    BY <1>1 DEF FindConversation, MissConversation, CreateConversation, NameConversation, convVars
  <2>2. conv'[c] = conv[c]
    BY <2>1 DEF ChatTypeOK
  <2> QED  BY <1>0, <2>1, <2>2
<1>2. ASSUME NEW p \in Procs, AppendAnswer(p) PROVE msgs'[c] = 0
  <2>1. /\ UNCHANGED <<conv, late>> /\ pc[p] \notin {"out", "creating"}
        /\ msgs' = msgs \/ msgs' = [msgs EXCEPT ![at[p]] = @ + 1]
    BY <1>2 DEF AppendAnswer
  <2>2. at[p] # c
    BY <2>1 DEF TurnInv
  <2> QED  BY <1>0, <2>1, <2>2 DEF ChatTypeOK
<1>3. ASSUME NEW p \in Procs,
             \/ Gate(p) \/ Backstop(p) \/ Answered(p) \/ NotAnswered(p) \/ Charge(p) \/ Count(p)
             \/ Leave(p)
      PROVE  msgs'[c] = 0
  BY <1>0, <1>3 DEF Gate, Backstop, Answered, NotAnswered, Charge, Count, Leave, convVars
<1>4. ASSUME NEW d \in Convs, DeleteConversation(d) PROVE msgs'[c] = 0
  BY <1>0, <1>4 DEF DeleteConversation, ChatTypeOK
<1>5. ASSUME NEW d \in Convs, ClearMessages(d) PROVE msgs'[c] = 0
  BY <1>0, <1>5 DEF ClearMessages, ChatTypeOK
<1>6. ASSUME ChangeTier \/ Midnight PROVE msgs'[c] = 0
  BY <1>0, <1>6 DEF ChangeTier, Midnight, convVars
<1> QED  BY <1>1, <1>2, <1>3, <1>4, <1>5, <1>6 DEF ChatNext

\* The threads, over a step in which nobody opens one or sets out to.
LEMMA ThreadKept ==
  ASSUME ThreadInv, UNCHANGED <<backend, raced>>, Creating' \subseteq Creating, Open' \subseteq Open
  PROVE  ThreadInv'
BY DEF ThreadInv, OneThread

LEMMA NextThread ==
  ASSUME ChatAssumption, ChatTypeOK, ChatTypeOK', ThreadInv, ChatNext
  PROVE  ThreadInv'
<1>0. Open \in SUBSET Convs /\ Unused \in SUBSET Convs
  BY DEF Open, Unused
<1>1. ASSUME NEW p \in Procs, MissConversation(p) PROVE ThreadInv'
  <2>1. CASE backend = "memory"
    <3>1. Oldest(Unused) \in Convs
      BY <1>0, <1>1, OldestIsIn DEF MissConversation
    <3> DEFINE c == Oldest(Unused)
    <3>2. /\ Open = {} /\ UNCHANGED <<backend, raced>> /\ Enter(p, c)
          /\ conv' = [conv EXCEPT ![c] = "open"] /\ Creating = {} /\ ~raced
      BY <1>1, <2>1 DEF MissConversation, ThreadInv
    <3> HIDE DEF c
    <3>3. Creating' = {} /\ \A d \in Open' : d = c
      BY <3>2 DEF Enter, Goto, Creating, Open, ChatTypeOK
    <3> QED  BY <2>1, <3>2, <3>3 DEF ThreadInv, OneThread
  <2>2. CASE backend # "memory"
    <3>1. /\ UNCHANGED <<backend, conv>> /\ Open = {} /\ pc' = [pc EXCEPT ![p] = "creating"]
          /\ raced' = (raced \/ \E q \in Procs : pc[q] = "creating")
      BY <1>1, <2>2 DEF MissConversation, Goto
    <3>2. Open' = {} /\ (~raced' => ~raced /\ Creating = {})
      BY <3>1 DEF Open, Creating
    <3>3. Creating = {} => \A q \in Creating' : q = p
      BY <3>1 DEF Creating, ChatTypeOK
    <3>4. ~raced' => OneThread'
      BY <3>2, <3>3 DEF OneThread
    <3> QED  BY <2>2, <3>1, <3>4 DEF ThreadInv
  <2> QED  BY <2>1, <2>2
<1>2. ASSUME NEW p \in Procs, CreateConversation(p) PROVE ThreadInv'
  <2>1. Oldest(Unused) \in Convs
    BY <1>0, <1>2, OldestIsIn DEF CreateConversation
  <2> DEFINE c == Oldest(Unused)
  <2>2. /\ p \in Creating /\ UNCHANGED <<backend, raced>> /\ Enter(p, c)
        /\ conv' = [conv EXCEPT ![c] = "open"]
    BY <1>2 DEF CreateConversation, Creating
  <2> HIDE DEF c
  <2>3. backend # "memory"
    BY <2>2 DEF ThreadInv
  <2>4. ASSUME ~raced PROVE OneThread'
    <3>1. Open = {} /\ Creating = {p}
      BY <2>2, <2>4 DEF ThreadInv, OneThread
    <3>2. Creating' = {} /\ \A d \in Open' : d = c
      BY <2>2, <3>1 DEF Enter, Goto, Creating, Open, ChatTypeOK
    <3> QED  BY <3>2 DEF OneThread
  <2> QED  BY <2>2, <2>3, <2>4 DEF ThreadInv
<1>3. ASSUME NEW p \in Procs,
             FindConversation(p) \/ NameConversation(p) \/ Gate(p) \/ Backstop(p)
      PROVE  ThreadInv'
  <2>1. UNCHANGED <<backend, raced, conv>> /\ Creating' \subseteq Creating
    BY <1>3 DEF FindConversation, NameConversation, Gate, Backstop, Enter, Return, Goto, Creating,
       ChatTypeOK, convVars
  <2> QED  BY <2>1, ThreadKept DEF Open
<1>4. ASSUME NEW p \in Procs,
             \/ Answered(p) \/ NotAnswered(p) \/ AppendAnswer(p) \/ Charge(p) \/ Count(p) \/ Leave(p)
      PROVE  ThreadInv'
  <2>1. UNCHANGED <<backend, raced, conv>> /\ Creating' \subseteq Creating
    BY <1>4 DEF Answered, NotAnswered, AppendAnswer, Charge, Count, Leave, Return, Goto, Creating, ChatTypeOK,
       convVars
  <2> QED  BY <2>1, ThreadKept DEF Open
<1>5. ASSUME NEW c \in Convs, DeleteConversation(c) PROVE ThreadInv'
  <2>1. UNCHANGED <<backend, raced, pc>> /\ Open' \subseteq Open
    BY <1>5 DEF DeleteConversation, Open, ChatTypeOK, procVars
  <2> QED  BY <2>1, ThreadKept DEF Creating
<1>6. ASSUME ChangeTier \/ Midnight \/ \E c \in Convs : ClearMessages(c) PROVE ThreadInv'
  <2>1. UNCHANGED <<backend, raced, conv, pc>>
    BY <1>6 DEF ClearMessages, ChangeTier, Midnight, convVars, procVars
  <2> QED  BY <2>1, ThreadKept DEF Creating, Open
<1> QED  BY <1>1, <1>2, <1>3, <1>4, <1>5, <1>6 DEF ChatNext

LEMMA NextInv ==
  ASSUME ChatAssumption, IInv, [ChatNext]_chatVars
  PROVE  IInv'
<1>1. CASE ChatNext
  <2>1. ChatTypeOK'
    BY <1>1, NextTypes DEF IInv
  <2>2. CostInv' /\ TurnInv'
    BY <1>1, <2>1, NextCost, NextTurn DEF IInv
  <2>3. QuotaInv'
    BY <1>1, <2>1, NextQuota DEF IInv, QuotaInv
  <2>4. BackstopInv' /\ EmptyInv' /\ ThreadInv'
    BY <1>1, <2>1, NextBackstop, NextEmpty, NextThread DEF IInv
  <2> QED  BY <2>1, <2>2, <2>3, <2>4 DEF IInv
<1>2. CASE UNCHANGED chatVars
  BY <1>2 DEF IInv, ChatTypeOK, CostInv, QuotaInv, Covered, BackstopInv, TurnInv, EmptyInv, ThreadInv,
     OneThread, Owing, Uncounted, Creating, Open, chatVars, convVars, meterVars, procVars
<1> QED  BY <1>1, <1>2

LEMMA InvSound ==
  ASSUME ChatAssumption, IInv
  PROVE  ChatIsSound
<1> USE DEF IInv
<1>1. ASSUME NEW b \in Tiers
      PROVE  used[b] <= Limits[b] - 1 + (Cardinality(Procs) + faults) * MaxCost
  <2>1. Owing(b) \in SUBSET Procs
    BY DEF Owing
  <2>2. /\ used[b] \in Nat /\ Limits[b] \in Nat \ {0} /\ faults \in Nat /\ MaxCost \in Nat
        /\ Cardinality(Owing(b)) \in Nat /\ Cardinality(Procs) \in Nat
    BY <2>1, TurnsCount, MaxCostType DEF ChatTypeOK, ChatAssumption
  <2>3. /\ Cardinality(Owing(b)) * MaxCost \in Nat
        /\ (Cardinality(Procs) + faults) * MaxCost \in Nat
    BY <2>2, Products
  <2>4. used[b] + Cardinality(Owing(b)) * MaxCost
          <= Limits[b] - 1 + (Cardinality(Procs) + faults) * MaxCost
    BY DEF QuotaInv, Covered
  <2> QED  BY <2>2, <2>3, <2>4
<1>2. dayCount <= DayCap - 1 + Cardinality(Procs)
  <2>1. Uncounted \in SUBSET Procs
    BY DEF Uncounted
  <2>2. Cardinality(Uncounted) \in Nat /\ Cardinality(Procs) \in Nat
    BY <2>1, TurnsCount
  <2> QED  BY <2>2 DEF BackstopInv, ChatTypeOK, ChatAssumption
<1>3. \A c \in Convs : conv[c] = "deleted" /\ msgs[c] > 0 => c \in late
  BY DEF EmptyInv, ChatTypeOK
<1>4. Cardinality(Open) > 1 => backend = "postgres" /\ raced
  <2>1. ASSUME ~raced PROVE ~(Cardinality(Open) > 1)
    <3>1. CASE Open = {}
      BY <3>1, FS_EmptySet
    <3>2. ASSUME NEW c \in Open PROVE ~(Cardinality(Open) > 1)
      <4>1. Open = {c}
        BY <2>1, <3>2 DEF ThreadInv, OneThread
      <4>2. Cardinality({c}) = 1
        BY FS_Singleton
      <4> QED  BY <4>1, <4>2
    <3> QED  BY <3>1, <3>2
  <2>2. backend = "memory" => ~raced
    BY DEF ThreadInv
  <2> QED  BY <2>1, <2>2 DEF ChatTypeOK
<1> QED  BY <1>1, <1>2, <1>3, <1>4 DEF ChatIsSound, OvershootIsBounded, ThreadsKept

-----------------------------------------------------------------------------
\* The state of the chat is well typed.
THEOREM ChatTypes == ASSUME ChatAssumption PROVE ChatSpec => []ChatTypeOK
<1>1. IInv => ChatTypeOK
  BY DEF IInv
<1> QED  BY InitInv, NextInv, <1>1, PTL DEF ChatSpec

\* Quotas that are only looked at when a turn begins (chatQuotaGate, chatDailyCap)
\* overshoot by no more than what the turns in flight cost and the failed reads of the
\* meter let in; a deleted conversation keeps only what a turn in flight still
\* appends; and a stock has one thread unless two first turns raced on Postgres.
THEOREM ChatSound == ASSUME ChatAssumption PROVE ChatSpec => []ChatIsSound
BY InitInv, NextInv, InvSound, PTL DEF ChatSpec

-----------------------------------------------------------------------------
(* The answers. *)

Cards == [type : Types, ticker : Tickers]

-----------------------------------------------------------------------------
(* Numbers. *)

LEMMA LeastOfNaturals ==
  ASSUME NEW S \in SUBSET Nat, S # {}
  PROVE  \E m \in S : \A n \in S : m <= n
<1> DEFINE R == OpToRel(<, Nat)
<1>1. PICK m \in S : \A n \in S : ~(<<n, m>> \in R)
  BY NatLessThanWellFounded, WFMin
<1>2. \A n \in S : n < m <=> <<n, m>> \in R
  BY DEF OpToRel
<1>3. \A n \in S : n \in Nat /\ ~(n < m)
  BY <1>1, <1>2
<1> QED  BY <1>3

\* The members of a finite set of numbers are one of each rank.
Rank(S, i) == Cardinality({j \in S : j <= i})

LEMMA RanksAreDistinct ==
  ASSUME NEW S \in SUBSET Nat, IsFiniteSet(S)
  PROVE  /\ \A i \in S : Rank(S, i) \in 1..Cardinality(S)
         /\ \A i, k \in S : i < k => Rank(S, i) < Rank(S, k)
<1> DEFINE upto(i) == {j \in S : j <= i}
<1>1. \A i \in S : /\ IsFiniteSet(upto(i)) /\ Cardinality(upto(i)) \in Nat
                   /\ Cardinality(upto(i)) <= Cardinality(S)
  BY FS_Subset, FS_CardinalityType
<1>2. Cardinality(S) \in Nat
  BY FS_CardinalityType
<1>3. ASSUME NEW i \in S PROVE Rank(S, i) \in 1..Cardinality(S)
  <2>1. upto(i) # {}
    OBVIOUS
  <2>2. Cardinality(upto(i)) # 0
    BY <1>1, <2>1, FS_EmptySet
  <2> QED  BY <1>1, <1>2, <2>2 DEF Rank
<1>4. ASSUME NEW i \in S, NEW k \in S, i < k PROVE Rank(S, i) < Rank(S, k)
  <2>1. k \notin upto(i) /\ upto(i) \cup {k} \subseteq upto(k)
    <3>1. \A j \in S : j \in Nat
      OBVIOUS
    <3>2. ~(k <= i) /\ k <= k /\ \A j \in S : j <= i => j <= k
      BY <1>4, <3>1
    <3> QED  BY <3>2
  <2>2. IsFiniteSet(upto(i) \cup {k}) /\ Cardinality(upto(i) \cup {k}) = Cardinality(upto(i)) + 1
    BY <1>1, <2>1, FS_AddElement
  <2>3. Cardinality(upto(i) \cup {k}) <= Cardinality(upto(k))
    BY <1>1, <2>1, FS_Subset
  <2> QED  BY <1>1, <2>2, <2>3 DEF Rank
<1> QED  BY <1>3, <1>4

LEMMA RanksAreAll ==
  ASSUME NEW S \in SUBSET Nat, IsFiniteSet(S), NEW n \in 1..Cardinality(S)
  PROVE  \E i \in S : Rank(S, i) = n /\ \A k \in S : Rank(S, k) = n => k = i
<1> DEFINE f == [i \in S |-> Rank(S, i)]
<1>1. Cardinality(S) \in Nat
  BY FS_CardinalityType
<1>2. \A i, k \in S : i = k \/ i < k \/ k < i
  OBVIOUS
<1>3. \A i \in S : Rank(S, i) \in 1..Cardinality(S)
  BY RanksAreDistinct
<1>4. \A i, k \in S : Rank(S, i) = Rank(S, k) => i = k
  BY <1>2, <1>3, RanksAreDistinct
<1>5. f \in Injection(S, 1..Cardinality(S))
  BY <1>3, <1>4 DEF Injection, IsInjective
<1>6. IsFiniteSet(1..Cardinality(S)) /\ Cardinality(1..Cardinality(S)) = Cardinality(S)
  BY <1>1, FS_Interval
<1>7. f \in Surjection(S, 1..Cardinality(S))
  BY <1>5, <1>6, FS_Injection
<1>8. PICK i \in S : f[i] = n
  BY <1>7 DEF Surjection
<1> QED  BY <1>4, <1>8

-----------------------------------------------------------------------------
(* Cards. *)

\* Two widgets render the same card exactly if their keys are the same.
LEMMA KeyOfCard ==
  ASSUME NEW v \in Cards, NEW w \in Cards
  PROVE  /\ SameCard(v, w) <=> RenderKey(v) = RenderKey(w)
         /\ RenderKey(v) = RenderKey(w) => (v.type \in Charts <=> w.type \in Charts)
<1>1. v = [type |-> v.type, ticker |-> v.ticker] /\ w = [type |-> w.type, ticker |-> w.ticker]
  BY DEF Cards
<1>2. v.type \in Types /\ w.type \in Types
  BY DEF Cards
<1> DEFINE Family == {"fundamentals_table", "valuation_table"}
<1>3. \A x \in {v, w} :
        /\ RenderKey(x).type = IF x.type \in Family THEN "fundamentals_family" ELSE x.type
        /\ RenderKey(x).ticker = IF x.type \in PortfolioWidgets THEN "" ELSE x.ticker
        /\ RenderKey(x) = [type |-> RenderKey(x).type, ticker |-> RenderKey(x).ticker]
  <2> SUFFICES ASSUME NEW x \in {v, w}
               PROVE /\ RenderKey(x).type = IF x.type \in Family THEN "fundamentals_family" ELSE x.type
                     /\ RenderKey(x).ticker = IF x.type \in PortfolioWidgets THEN "" ELSE x.ticker
                     /\ RenderKey(x) = [type |-> RenderKey(x).type, ticker |-> RenderKey(x).ticker]
    OBVIOUS
  <2>1. x = [type |-> x.type, ticker |-> x.ticker]
    BY <1>1
  <2>2. CASE x.type \in Family
    BY <2>2 DEF RenderKey, Widget, PortfolioWidgets
  <2>3. CASE x.type \in PortfolioWidgets
    BY <2>3 DEF RenderKey, Widget, PortfolioWidgets
  <2>4. CASE x.type \notin Family /\ x.type \notin PortfolioWidgets
    <3>1. RenderKey(x) = x
      BY <2>4 DEF RenderKey
    <3> QED  BY <2>1, <2>4, <3>1
  <2> QED  BY <2>2, <2>3, <2>4
<1>4. RenderKey(v) = RenderKey(w) <=>
        RenderKey(v).type = RenderKey(w).type /\ RenderKey(v).ticker = RenderKey(w).ticker
  BY <1>3
<1>5. SameCard(v, w) <=> RenderKey(v) = RenderKey(w)
  BY <1>2, <1>3, <1>4 DEF SameCard, Types, Charts, Tables, PortfolioWidgets
<1>6. RenderKey(v) = RenderKey(w) => (v.type \in Charts <=> w.type \in Charts)
  BY <1>2, <1>3 DEF Types, Charts, Tables, PortfolioWidgets
<1> QED  BY <1>5, <1>6

Kept(ws, specific) ==
  {i \in DOMAIN ws : /\ specific => ws[i].type \notin Charts
                     /\ \A j \in 1..(i - 1) : RenderKey(ws[j]) # RenderKey(ws[i])}

\* dedupeWidgets ships what it was given, no card twice, and leaves out nothing but repeats
\* and the charts beside something more specific.
LEMMA DedupeProperties ==
  ASSUME NEW ws \in Seq(Cards)
  PROVE  LET out == Dedupe(ws) IN
         /\ out \in Seq(Cards)
         /\ \A n \in DOMAIN out : \E i \in DOMAIN ws : out[n] = ws[i]
         /\ \A m, n \in DOMAIN out : RenderKey(out[m]) = RenderKey(out[n]) => m = n
         /\ \A i \in DOMAIN ws :
              \/ \E n \in DOMAIN out : RenderKey(out[n]) = RenderKey(ws[i])
              \/ ws[i].type \in Charts /\ \E n \in DOMAIN out : out[n].type \notin Charts
<1> DEFINE specific == \E i \in DOMAIN ws : ws[i].type \notin Charts
           keep == Kept(ws, specific)
           nth(n) == CHOOSE i \in keep : Rank(keep, i) = n
           out == [n \in 1..Cardinality(keep) |-> ws[nth(n)]]
<1>1. Dedupe(ws) = out
  BY DEF Dedupe, Kept, Rank
<1>2. Len(ws) \in Nat /\ DOMAIN ws = 1..Len(ws) /\ \A i \in DOMAIN ws : ws[i] \in Cards
  OBVIOUS
<1>3. keep \in SUBSET Nat /\ keep \subseteq DOMAIN ws /\ IsFiniteSet(keep) /\ Cardinality(keep) \in Nat
  <2>1. keep \subseteq 1..Len(ws)
    BY <1>2 DEF Kept
  <2>2. IsFiniteSet(1..Len(ws))
    BY <1>2, FS_Interval
  <2> HIDE DEF keep
  <2>3. IsFiniteSet(keep) /\ Cardinality(keep) \in Nat
    BY <2>1, <2>2, FS_Subset, FS_CardinalityType
  <2>4. keep \in SUBSET Nat
    BY <2>1
  <2> QED  BY <1>2, <2>1, <2>3, <2>4
<1>4. ASSUME NEW i \in keep
      PROVE  /\ specific => ws[i].type \notin Charts
             /\ \A j \in DOMAIN ws : j < i => RenderKey(ws[j]) # RenderKey(ws[i])
  <2>1. \A j \in DOMAIN ws : j < i => j \in 1..(i - 1)
    <3> HIDE DEF keep
    <3>1. i \in Nat /\ \A j \in DOMAIN ws : j \in Nat /\ j >= 1
      BY <1>2, <1>3
    <3> QED  BY <3>1
  <2> QED  BY <2>1 DEF Kept
<1>5. ASSUME NEW i \in DOMAIN ws, specific => ws[i].type \notin Charts,
             \A j \in DOMAIN ws : j < i => RenderKey(ws[j]) # RenderKey(ws[i])
      PROVE  i \in keep
  <2>1. \A j \in 1..(i - 1) : j \in DOMAIN ws /\ j < i
    BY <1>2
  <2> QED  BY <1>5, <2>1 DEF Kept
<1> HIDE DEF keep
<1>6. \A n \in 1..Cardinality(keep) : nth(n) \in keep /\ Rank(keep, nth(n)) = n
  BY <1>3, RanksAreAll
<1>7. \A i \in keep : Rank(keep, i) \in 1..Cardinality(keep) /\ nth(Rank(keep, i)) = i
  <2> SUFFICES ASSUME NEW i \in keep
               PROVE  Rank(keep, i) \in 1..Cardinality(keep) /\ nth(Rank(keep, i)) = i
    OBVIOUS
  <2>1. Rank(keep, i) \in 1..Cardinality(keep)
    BY <1>3, RanksAreDistinct
  <2>2. PICK k \in keep : Rank(keep, k) = Rank(keep, i) /\ \A x \in keep : Rank(keep, x) = Rank(keep, i) => x = k
    BY <1>3, <2>1, RanksAreAll
  <2> QED  BY <1>6, <2>1, <2>2
<1> HIDE DEF nth
<1>8. /\ out \in Seq(Cards) /\ DOMAIN out = 1..Cardinality(keep)
      /\ \A n \in DOMAIN out : out[n] \in Cards
  <2>1. \A n \in 1..Cardinality(keep) : ws[nth(n)] \in Cards
    BY <1>2, <1>3, <1>6
  <2>2. out \in [1..Cardinality(keep) -> Cards]
    BY <2>1
  <2> HIDE DEF out
  <2> QED  BY <1>3, <2>2
<1>9. \A n \in DOMAIN out : \E i \in DOMAIN ws : out[n] = ws[i]
  BY <1>3, <1>6
<1>10. ASSUME NEW m \in DOMAIN out, NEW n \in DOMAIN out, RenderKey(out[m]) = RenderKey(out[n])
       PROVE  m = n
  <2>1. nth(m) \in keep /\ nth(n) \in keep /\ RenderKey(ws[nth(m)]) = RenderKey(ws[nth(n)])
    BY <1>6, <1>10
  <2>2. ~(nth(m) < nth(n)) /\ ~(nth(n) < nth(m))
    BY <1>3, <1>4, <2>1
  <2>3. nth(m) \in Nat /\ nth(n) \in Nat
    BY <1>3, <2>1
  <2>4. nth(m) = nth(n)
    <3>1. \A x, y \in Nat : ~(x < y) /\ ~(y < x) => x = y
      OBVIOUS
    <3> QED  BY <2>2, <2>3, <3>1, Zenon
  <2> QED  BY <1>6, <2>4
\* The first of those that look the same.
<1>11. ASSUME NEW i \in DOMAIN ws, specific => ws[i].type \notin Charts
       PROVE  \E n \in DOMAIN out : RenderKey(out[n]) = RenderKey(ws[i])
  <2> DEFINE same == {j \in DOMAIN ws : RenderKey(ws[j]) = RenderKey(ws[i])}
  <2>1. same \in SUBSET Nat /\ i \in same
    BY <1>2
  <2>2. PICK j \in same : \A k \in same : j <= k
    BY <2>1, LeastOfNaturals
  <2>3. \A k \in DOMAIN ws : k < j => RenderKey(ws[k]) # RenderKey(ws[j])
    <3> SUFFICES ASSUME NEW k \in DOMAIN ws, k < j, RenderKey(ws[k]) = RenderKey(ws[j]) PROVE FALSE
      OBVIOUS
    <3>1. k \in same /\ j <= k
      BY <2>2
    <3> QED  BY <1>2, <3>1, <2>1
  <2>4. specific => ws[j].type \notin Charts
    BY <1>2, <1>11, <2>2, KeyOfCard
  <2>5. j \in keep
    BY <1>5, <2>2, <2>3, <2>4
  <2>6. out[Rank(keep, j)] = ws[j] /\ Rank(keep, j) \in DOMAIN out
    BY <1>7, <2>5
  <2> QED  BY <2>2, <2>6
<1>12. ASSUME NEW i \in DOMAIN ws, specific, ws[i].type \in Charts
       PROVE  \E n \in DOMAIN out : out[n].type \notin Charts
  <2>1. PICK j \in DOMAIN ws : ws[j].type \notin Charts
    BY <1>12
  <2>2. PICK n \in DOMAIN out : RenderKey(out[n]) = RenderKey(ws[j])
    BY <1>11, <2>1
  <2>3. out[n] \in Cards /\ ws[j] \in Cards
    BY <1>2, <1>8
  <2>4. out[n].type \notin Charts
    BY <2>1, <2>2, <2>3, KeyOfCard
  <2> QED  BY <2>4
<1> HIDE DEF out, specific
<1>13. \A i \in DOMAIN ws :
         \/ \E n \in DOMAIN out : RenderKey(out[n]) = RenderKey(ws[i])
         \/ ws[i].type \in Charts /\ \E n \in DOMAIN out : out[n].type \notin Charts
  BY <1>11, <1>12
<1> QED  BY <1>1, <1>8, <1>9, <1>10, <1>13

\* backstopWidget gives at most one card, of facts that were read.
LEMMA BackstopProperties ==
  ASSUME topical \in [Tickers -> 0..Len(Sections)], IsFiniteSet({t \in Tickers : topical[t] # 0})
  PROVE  LET out == SetToSeq(BackstopWidget) IN
         /\ out \in Seq(Cards)
         /\ DOMAIN out \subseteq {1}
         /\ \A n \in DOMAIN out : MayRender(out[n].type, out[n].ticker)
<1> DEFINE read == {t \in Tickers : topical[t] # 0}
           card(t) == CardOf[topical[t]]
           f == SetToSeq(BackstopWidget)
<1>1. ASSUME NEW t \in read PROVE card(t) \in Types
  <2>1. topical[t] \in 1..4
    BY DEF Sections
  <2> QED  BY <2>1 DEF CardOf, Types, Charts, Tables
<1>2. \A w \in BackstopWidget : w \in Cards /\ MayRender(w.type, w.ticker) /\ w.ticker \in read
                          /\ Cardinality(read) = 1
  <2> SUFFICES ASSUME NEW t \in read, Cardinality(read) = 1, MayRender(card(t), t), NEW w, w = Widget(card(t), t)
               PROVE  w \in Cards /\ MayRender(w.type, w.ticker) /\ w.ticker \in read
    BY DEF BackstopWidget
  <2> QED  BY <1>1 DEF Widget, Cards
<1>3. BackstopWidget = {} \/ \E w \in BackstopWidget : BackstopWidget = {w}
  <2> SUFFICES ASSUME BackstopWidget # {} PROVE \E w \in BackstopWidget : BackstopWidget = {w}
    OBVIOUS
  <2>1. Cardinality(read) = 1
    BY <1>2
  <2>2. PICK t : read = {t}
    BY <2>1, FS_Singleton
  <2>3. \A w \in BackstopWidget : w = Widget(card(t), t)
    BY <2>2 DEF BackstopWidget
  <2> QED  BY <2>3
<1>4. CASE BackstopWidget = {}
  <2>1. Cardinality(BackstopWidget) = 0
    BY <1>4, FS_EmptySet
  <2> DEFINE empty == [i \in 1..0 |-> 0]
  <2>2. empty \in [1..Cardinality(BackstopWidget) -> BackstopWidget] /\ IsInjective(empty)
    BY <2>1 DEF IsInjective
  <2>3. f \in [1..Cardinality(BackstopWidget) -> BackstopWidget]
    BY <2>2 DEF SetToSeq
  <2>4. f \in [1..0 -> Cards] /\ DOMAIN f = {}
    BY <1>4, <2>1, <2>3
  <2> QED  BY <2>4
<1>5. ASSUME NEW w \in BackstopWidget, BackstopWidget = {w}
      PROVE  f \in Seq(Cards) /\ DOMAIN f \subseteq {1} /\ \A n \in DOMAIN f : f[n] = w
  <2>1. Cardinality(BackstopWidget) = 1
    BY <1>5, FS_Singleton
  <2> DEFINE one == [i \in 1..1 |-> w]
  <2>2. one \in [1..Cardinality(BackstopWidget) -> BackstopWidget] /\ IsInjective(one)
    BY <1>5, <2>1 DEF IsInjective
  <2>3. f \in [1..Cardinality(BackstopWidget) -> BackstopWidget]
    BY <2>2 DEF SetToSeq
  <2>4. f \in [1..1 -> {w}] /\ w \in Cards
    BY <1>2, <1>5, <2>1, <2>3
  <2> HIDE DEF f
  <2>5. f \in [1..1 -> Cards]
    BY <2>4
  <2>6. f \in Seq(Cards)
    <3>1. PICK n \in Nat : n = 1
      OBVIOUS
    <3>2. f \in [1..n -> Cards]
      BY <2>5, <3>1
    <3> QED  BY <3>2
  <2>7. DOMAIN f = 1..1 /\ f[1] = w
    BY <2>4
  <2> QED  BY <2>6, <2>7
<1> QED  BY <1>2, <1>3, <1>4, <1>5

-----------------------------------------------------------------------------
(* The invariant: a surfaced widget was allowed, the facts that were read  *)
(* are of finitely many tickers, and an answer is sound from the start.    *)

LEMMA TypeInit == BoundsAssumption /\ ToolsInit => ToolsTypeOK
BY DEF BoundsAssumption, ToolsInit, ToolsTypeOK, Sections

Surfaced(w) == (w.type \in PortfolioWidgets => allowed) /\ (w.type \in Tables => w.ticker \notin known)

ToolsInv ==
  /\ ToolsTypeOK
  /\ \A i \in DOMAIN widgets : Surfaced(widgets[i])
  /\ IsFiniteSet({t \in Tickers : topical[t] # 0})
  /\ AnswerIsSound

LEMMA ToolsInitInv == BoundsAssumption /\ ToolsInit => ToolsInv
<1> SUFFICES ASSUME BoundsAssumption, ToolsInit PROVE ToolsInv
  OBVIOUS
<1>1. ToolsTypeOK
  BY TypeInit
<1>2. {t \in Tickers : topical[t] # 0} = {}
  BY DEF ToolsInit
<1>3. IsFiniteSet({t \in Tickers : topical[t] # 0})
  BY <1>2, FS_EmptySet
<1> QED  BY <1>1, <1>3 DEF ToolsInit, ToolsInv, AnswerIsSound

LEMMA TypeNext == BoundsAssumption /\ ToolsInv /\ [ToolsNext]_toolVars => ToolsTypeOK'
<1> SUFFICES ASSUME BoundsAssumption, ToolsInv, [ToolsNext]_toolVars PROVE ToolsTypeOK'
  OBVIOUS
<1> USE DEF BoundsAssumption, ToolsTypeOK
<1>0. ToolsTypeOK
  BY DEF ToolsInv
<1>1. CASE RefreshDirectory
  BY <1>0, <1>1 DEF RefreshDirectory
<1>2. CASE CallTools
  BY <1>0, <1>2 DEF CallTools
<1>3. CASE EndRound
  BY <1>0, <1>3 DEF EndRound
<1>4. ASSUME NEW t \in Tickers, NEW rank \in DOMAIN Sections, ReadFacts(t, rank) PROVE ToolsTypeOK'
  <2>1. rank \in 0..Len(Sections)
    BY DEF Sections
  <2>2. topical' \in [Tickers -> 0..Len(Sections)]
    BY <1>0, <1>4, <2>1 DEF ReadFacts
  <2> QED  BY <1>0, <1>4, <2>2 DEF ReadFacts
<1>5. ASSUME NEW t \in Tickers, NEW type \in Types, SurfaceWidget(type, t) PROVE ToolsTypeOK'
  <2> DEFINE All == [type : Types, ticker : Tickers]
  <2>0. Widget(type, t) \in All /\ widgets \in Seq(All)
    BY <1>0 DEF Widget
  <2> HIDE DEF All
  <2>1. widgets' \in Seq(All)
    BY <2>0, <1>5, AppendProperties DEF SurfaceWidget
  <2> QED  BY <1>0, <1>5, <2>1 DEF SurfaceWidget, All
<1>6. CASE Finish
  <2>1. Dedupe(widgets) \in Seq(Cards)
    BY <1>0, DedupeProperties DEF Cards
  <2>2. SetToSeq(BackstopWidget) \in Seq(Cards)
    BY <1>0, BackstopProperties DEF ToolsInv
  <2>3. shipped' \in Seq(Cards)
    BY <1>6, <2>1, <2>2 DEF Finish
  <2> QED  BY <1>0, <1>6, <2>3 DEF Finish, Cards
<1>7. CASE UNCHANGED toolVars
  BY <1>0, <1>7 DEF toolVars
<1> QED  BY <1>1, <1>2, <1>3, <1>4, <1>5, <1>6, <1>7 DEF ToolsNext

LEMMA FinishIsSound == ToolsInv /\ Finish => AnswerIsSound'
<1> SUFFICES ASSUME ToolsInv, Finish PROVE AnswerIsSound'
  OBVIOUS
<1>1. ToolsTypeOK /\ widgets \in Seq(Cards) /\ UNCHANGED <<widgets, allowed, known, flagged>>
  BY DEF ToolsInv, ToolsTypeOK, Finish, Cards
<1>2. CASE widgets # <<>>
  <2> DEFINE out == Dedupe(widgets)
  <2>1. shipped' = out
    BY <1>2 DEF Finish
  <2>2. /\ out \in Seq(Cards)
        /\ \A n \in DOMAIN out : \E i \in DOMAIN widgets : out[n] = widgets[i]
        /\ \A m, n \in DOMAIN out : RenderKey(out[m]) = RenderKey(out[n]) => m = n
        /\ \A i \in DOMAIN widgets :
             \/ \E n \in DOMAIN out : RenderKey(out[n]) = RenderKey(widgets[i])
             \/ widgets[i].type \in Charts /\ \E n \in DOMAIN out : out[n].type \notin Charts
    BY <1>1, DedupeProperties
  <2> HIDE DEF out
  <2>3. \A n \in DOMAIN out : out[n] \in Cards
    BY <2>2
  <2>4. \A i \in DOMAIN widgets : widgets[i] \in Cards
    BY <1>1
  <2>5. \A i, j \in DOMAIN out : SameCard(out[i], out[j]) => i = j
    BY <2>2, <2>3, KeyOfCard
  <2>6. \A n \in DOMAIN out : Surfaced(out[n])
    BY <2>2 DEF ToolsInv
  <2>7. ASSUME NEW i \in DOMAIN widgets
        PROVE  \/ \E n \in DOMAIN out : SameCard(widgets[i], out[n])
               \/ widgets[i].type \in Charts /\ \E n \in DOMAIN out : out[n].type \notin Charts
    BY <2>2, <2>3, <2>4, KeyOfCard
  <2> QED  BY <1>1, <2>1, <2>5, <2>6, <2>7 DEF AnswerIsSound, Shown, Surfaced, SameCard
<1>3. CASE widgets = <<>>
  <2> DEFINE out == SetToSeq(BackstopWidget)
  <2>1. shipped' \in {out, <<>>}
    BY <1>3 DEF Finish
  <2>2. /\ DOMAIN out \subseteq {1}
        /\ \A n \in DOMAIN out : MayRender(out[n].type, out[n].ticker)
    BY <1>1, BackstopProperties DEF ToolsInv, ToolsTypeOK
  <2> HIDE DEF out
  <2>3. \A n \in DOMAIN shipped' : n = 1 /\ MayRender(shipped'[n].type, shipped'[n].ticker)
    BY <2>1, <2>2
  <2>4. \A n \in DOMAIN shipped' : /\ shipped'[n].type \in PortfolioWidgets => allowed
                                   /\ shipped'[n].type \in Tables => shipped'[n].ticker \notin known
    BY <1>1, <2>3 DEF MayRender, KnownFund, ToolsTypeOK
  <2> QED  BY <1>1, <1>3, <2>3, <2>4 DEF AnswerIsSound, Shown
<1> QED  BY <1>2, <1>3

LEMMA ToolsNextInv == BoundsAssumption /\ ToolsInv /\ [ToolsNext]_toolVars => ToolsInv'
<1> SUFFICES ASSUME BoundsAssumption, ToolsInv, [ToolsNext]_toolVars PROVE ToolsInv'
  OBVIOUS
<1>0. ToolsTypeOK'
  BY TypeNext
<1> USE DEF ToolsInv
<1> DEFINE read == {t \in Tickers : topical[t] # 0}
\* Nothing happens to an answer that is out.
<1>1. ASSUME loop' # "done" PROVE AnswerIsSound'
  BY <1>1 DEF AnswerIsSound
<1>2. CASE RefreshDirectory
  <2>1. known' \subseteq known
    BY <1>2 DEF RefreshDirectory
  <2> QED  BY <1>0, <1>1, <1>2, <2>1 DEF RefreshDirectory, Surfaced
<1>3. CASE CallTools
  BY <1>0, <1>1, <1>3 DEF CallTools, Surfaced
<1>4. CASE EndRound
  BY <1>0, <1>1, <1>4 DEF EndRound, Surfaced
<1>5. ASSUME NEW t \in Tickers, NEW rank \in DOMAIN Sections, ReadFacts(t, rank) PROVE ToolsInv'
  <2>1. read' \subseteq read \cup {t}
    BY <1>5 DEF ReadFacts, ToolsTypeOK
  <2>2. IsFiniteSet(read \cup {t})
    BY FS_AddElement
  <2>3. IsFiniteSet(read')
    BY <2>1, <2>2, FS_Subset
  <2> QED  BY <1>0, <1>1, <1>5, <2>3 DEF ReadFacts, Surfaced
<1>6. ASSUME NEW t \in Tickers, NEW type \in Types, SurfaceWidget(type, t) PROVE ToolsInv'
  <2>1. ASSUME MayRender(type, t) PROVE Surfaced(Widget(type, t))
    BY <2>1 DEF MayRender, KnownFund, Surfaced, Widget, ToolsTypeOK
  <2>2. \A i \in DOMAIN widgets' : Surfaced(widgets'[i])
    BY <1>6, <2>1 DEF SurfaceWidget, ToolsTypeOK
  <2>3. \A i \in DOMAIN widgets' : Surfaced(widgets[i])'
    BY <1>6, <2>2 DEF SurfaceWidget, Surfaced
  <2> QED  BY <1>0, <1>1, <1>6, <2>3 DEF SurfaceWidget
<1>7. CASE Finish
  BY <1>0, <1>7, FinishIsSound DEF Finish, Surfaced
<1>8. CASE UNCHANGED toolVars
  BY <1>0, <1>8 DEF toolVars, Surfaced, AnswerIsSound, Shown, SameCard
<1> QED  BY <1>2, <1>3, <1>4, <1>5, <1>6, <1>7, <1>8 DEF ToolsNext

\* Whatever the LLM asks of the tools and however the directory is refreshed, an answer shows
\* no card twice, no private data without the access to it, no company table for a known fund,
\* and drops nothing it should have shown.
THEOREM AnswersAreSound == ASSUME BoundsAssumption PROVE ToolsSpec => []AnswerIsSound
<1>1. ToolsInv => AnswerIsSound
  BY DEF ToolsInv
<1> QED  BY ToolsInitInv, ToolsNextInv, <1>1, PTL DEF ToolsSpec

\* The state of a turn has its type.
THEOREM ToolsTypes == ASSUME BoundsAssumption PROVE ToolsSpec => []ToolsTypeOK
<1>1. ToolsInv => ToolsTypeOK
  BY DEF ToolsInv
<1> QED  BY ToolsInitInv, ToolsNextInv, <1>1, PTL DEF ToolsSpec
=============================================================================
