-------------------------------- MODULE Chat --------------------------------
(***************************************************************************)
(* A user's chat with the analyst: the turn of internal/api (chat.go),     *)
(* with its token quota, daily backstop and storage, and the conversations *)
(* it is stored in.  One user, one stock; several requests (tabs) at once. *)
(*                                                                         *)
(* The answer itself (the tool loop of internal/chat) is module ChatTools. *)
(* The quota buckets are the month's of a Pro user and the week's of a     *)
(* free one; a turn charges the bucket that it was admitted on.            *)
(***************************************************************************)
EXTENDS Naturals, FiniteSets

CONSTANTS
  Procs,      \* requests
  Limits,     \* [Tiers -> Nat]: chatMonthlyTokenLimit, chatFreeWeeklyTokens
  Costs,      \* tokens a turn may take
  DayCap,     \* chatDailyCap
  MaxConvs,   \* bound: conversations ever made
  MaxDay,     \* bound: ET days
  MaxTurns,   \* bound: turns
  MaxFaults   \* bound: store calls that fail, clients that leave, deletions

Tiers == {"pro", "free"}
Convs == 1..MaxConvs   \* in the order of created_at

\* The limits are positive (SetChatTokenLimit, SetChatFreeWeeklyTokens), and no turn
\* takes more tokens than some turn does.
ChatAssumption ==
  /\ IsFiniteSet(Procs) /\ Limits \in [Tiers -> Nat \ {0}] /\ DayCap \in Nat \ {0}
  /\ Costs \subseteq Nat /\ \E n \in Costs : \A m \in Costs : m <= n
  /\ MaxConvs \in Nat /\ MaxDay \in Nat \ {0} /\ MaxTurns \in Nat /\ MaxFaults \in Nat

VARIABLES
  backend,     \* of the user store: memory or postgres
  tier,
  today,
  conv,        \* none, open or deleted
  msgs,        \* messages stored under each conversation
  used,        \* tokens charged to each bucket
  dayDate, dayCount,
  pc, at, bucket, cost,   \* each request: where it is, its conversation, bucket and tokens
  left,        \* requests whose client is gone
  turns, faults,
  late,        \* history: conversations deleted under a turn
  raced        \* history: two first turns looked for the conversation at once

convVars == <<conv, msgs, late, raced>>
meterVars == <<used, dayDate, dayCount>>
procVars == <<pc, at, bucket, cost, left>>
chatVars == <<backend, tier, today, convVars, meterVars, procVars, turns, faults>>

ChatInit ==
  /\ backend \in {"memory", "postgres"} /\ tier \in Tiers /\ today = 1
  /\ conv = [c \in Convs |-> "none"] /\ msgs = [c \in Convs |-> 0]
  /\ late = {} /\ raced = FALSE
  /\ used = [b \in Tiers |-> 0] /\ dayDate = 0 /\ dayCount = 0
  /\ pc = [p \in Procs |-> "out"] /\ at = [p \in Procs |-> 0]
  /\ bucket = [p \in Procs |-> "free"] /\ cost = [p \in Procs |-> 0]
  /\ left = {} /\ turns = 0 /\ faults = 0

Goto(p, where) == pc' = [pc EXCEPT ![p] = where]
Return(p) == Goto(p, "out") /\ left' = left \ {p}
Fault == faults < MaxFaults /\ faults' = faults + 1

\* Stripe's events change the tier under a turn.
ChangeTier ==
  /\ Fault /\ tier' \in Tiers \ {tier}
  /\ UNCHANGED <<backend, today, convVars, meterVars, procVars, turns>>

Midnight ==
  /\ today < MaxDay /\ today' = today + 1
  /\ UNCHANGED <<backend, tier, convVars, meterVars, procVars, turns, faults>>

-----------------------------------------------------------------------------
(* Conversations. *)

Open == {c \in Convs : conv[c] = "open"}
Unused == {c \in Convs : conv[c] = "none"}
Oldest(S) == CHOOSE c \in S : \A d \in S : c <= d

Enter(p, c) ==
  /\ Goto(p, "gate")
  /\ at' = [at EXCEPT ![p] = c]

\* postChat: the conversation of the stock is found ...
FindConversation(p) ==
  /\ pc[p] = "out" /\ turns < MaxTurns /\ Open # {}
  /\ turns' = turns + 1
  /\ Enter(p, Oldest(Open))
  /\ UNCHANGED <<backend, tier, today, convVars, meterVars, bucket, cost, left, faults>>

\* ... or not: Postgres looks and inserts in two statements, nothing makes the
\* pair of user and ticker unique.
MissConversation(p) ==
  /\ pc[p] = "out" /\ turns < MaxTurns /\ Open = {} /\ Unused # {}
  /\ turns' = turns + 1
  /\ IF backend = "memory"
     THEN Enter(p, Oldest(Unused)) /\ conv' = [conv EXCEPT ![Oldest(Unused)] = "open"]
                                   /\ UNCHANGED raced
     ELSE /\ Goto(p, "creating")
          /\ raced' = (raced \/ \E q \in Procs : pc[q] = "creating")
          /\ UNCHANGED <<at, conv>>
  /\ UNCHANGED <<backend, tier, today, msgs, late, meterVars, bucket, cost, left, faults>>

CreateConversation(p) ==
  /\ pc[p] = "creating" /\ Unused # {}
  /\ Enter(p, Oldest(Unused))
  /\ conv' = [conv EXCEPT ![Oldest(Unused)] = "open"]
  /\ UNCHANGED <<backend, tier, today, msgs, late, raced, meterVars, bucket, cost, left,
                 turns, faults>>

\* postConvChat: the client names one of the user's conversations.
NameConversation(p) ==
  /\ pc[p] = "out" /\ turns < MaxTurns
  /\ turns' = turns + 1
  /\ \E c \in Open : Enter(p, c)
  /\ UNCHANGED <<backend, tier, today, convVars, meterVars, bucket, cost, left, faults>>

\* Mutant: the messages stay when the conversation goes.
DeleteRowOnly(c) ==
  /\ conv[c] = "open" /\ Fault
  /\ conv' = [conv EXCEPT ![c] = "deleted"]
  /\ late' = IF \E p \in Procs : pc[p] # "out" /\ at[p] = c THEN late \cup {c} ELSE late
  /\ UNCHANGED <<backend, tier, today, msgs, raced, meterVars, procVars, turns>>

\* deleteConversation: the conversation and its messages, in one transaction.
DeleteConversation(c) ==
  /\ conv[c] = "open" /\ Fault
  /\ conv' = [conv EXCEPT ![c] = "deleted"]
  /\ msgs' = [msgs EXCEPT ![c] = 0]
  /\ late' = IF \E p \in Procs : pc[p] # "out" /\ at[p] = c THEN late \cup {c} ELSE late
  /\ UNCHANGED <<backend, tier, today, raced, meterVars, procVars, turns>>

\* deleteChat clears the thread and keeps the conversation.
ClearMessages(c) ==
  /\ conv[c] = "open" /\ Fault
  /\ msgs' = [msgs EXCEPT ![c] = 0]
  /\ UNCHANGED <<backend, tier, today, conv, late, raced, meterVars, procVars, turns>>

-----------------------------------------------------------------------------
(* chatTurn and chatTurnStream. *)

WithinQuota(b) == used[b] < Limits[b]

\* chatQuotaGate; a failed read of the meter counts as nothing used.
Gate(p) ==
  /\ pc[p] = "gate"
  /\ bucket' = [bucket EXCEPT ![p] = tier]
  /\ \/ WithinQuota(tier) /\ Goto(p, "backstop") /\ UNCHANGED <<left, faults>>
     \/ ~WithinQuota(tier) /\ Return(p) /\ UNCHANGED faults
     \/ /\ ~WithinQuota(tier) /\ backend = "postgres" /\ Fault
        /\ Goto(p, "backstop") /\ UNCHANGED left
  /\ UNCHANGED <<backend, tier, today, convVars, meterVars, at, cost, turns>>

\* Mutant: the counter is not looked at.
BackstopIgnored(p) ==
  /\ pc[p] = "backstop"
  /\ Goto(p, "asking")
  /\ dayDate' = today
  /\ dayCount' = IF dayDate = today THEN dayCount ELSE 0
  /\ UNCHANGED <<backend, tier, today, convVars, used, at, bucket, cost, left, turns, faults>>

\* The daily backstop is only looked at here; a thread that is full ends the turn.
Backstop(p) ==
  /\ pc[p] = "backstop"
  /\ dayDate' = today
  /\ dayCount' = IF dayDate = today THEN dayCount ELSE 0
  /\ \/ dayCount' < DayCap /\ Goto(p, "asking") /\ UNCHANGED left
     \/ Return(p)
  /\ UNCHANGED <<backend, tier, today, convVars, used, at, bucket, cost, turns, faults>>

Answered(p) ==
  /\ pc[p] = "asking" /\ p \notin left
  /\ \E n \in Costs : cost' = [cost EXCEPT ![p] = n]
  /\ Goto(p, "question")
  /\ UNCHANGED <<backend, tier, today, convVars, meterVars, at, bucket, left, turns, faults>>

\* An LLM error, the deadline, or the client's leaving: nothing is charged.
NotAnswered(p) ==
  /\ pc[p] = "asking"
  /\ Return(p)
  /\ UNCHANGED <<backend, tier, today, convVars, meterVars, at, bucket, cost, turns, faults>>

\* Whether a store call of the turn goes through: errors are ignored, and on
\* Postgres the request's context, which ends with the client, is one.
Store(p) == (p \in left => backend = "memory") /\ UNCHANGED faults
Miss(p) ==
  /\ backend = "postgres"
  /\ IF p \in left THEN UNCHANGED faults ELSE Fault

\* The question, then the answer, are appended - to whatever is left of the
\* conversation.
AppendAnswer(p) ==
  /\ pc[p] \in {"question", "answer"}
  /\ Goto(p, IF pc[p] = "question" THEN "answer" ELSE "charging")
  /\ \/ Store(p) /\ msgs' = [msgs EXCEPT ![at[p]] = @ + 1]
     \/ Miss(p) /\ UNCHANGED msgs
  /\ UNCHANGED <<backend, tier, today, conv, late, raced, meterVars, at, bucket, cost, left, turns>>

Charge(p) ==
  /\ pc[p] = "charging"
  /\ Goto(p, "counting")
  /\ \/ Store(p) /\ used' = [used EXCEPT ![bucket[p]] = @ + cost[p]]
     \/ Miss(p) /\ UNCHANGED used
  /\ UNCHANGED <<backend, tier, today, convVars, dayDate, dayCount, at, bucket, cost, left, turns>>

Count(p) ==
  /\ pc[p] = "counting"
  /\ dayCount' = dayCount + 1
  /\ Return(p)
  /\ cost' = [cost EXCEPT ![p] = 0]
  /\ UNCHANGED <<backend, tier, today, convVars, used, dayDate, at, bucket, turns, faults>>

Leave(p) ==
  /\ pc[p] \notin {"out", "counting"} /\ p \notin left /\ Fault
  /\ left' = left \cup {p}
  /\ UNCHANGED <<backend, tier, today, convVars, meterVars, pc, at, bucket, cost, turns>>

ChatNext ==
  \/ \E p \in Procs :
       \/ FindConversation(p) \/ MissConversation(p) \/ CreateConversation(p)
       \/ NameConversation(p) \/ Gate(p) \/ Backstop(p) \/ Answered(p) \/ NotAnswered(p)
       \/ AppendAnswer(p) \/ Charge(p) \/ Count(p) \/ Leave(p)
  \/ \E c \in Convs : DeleteConversation(c) \/ ClearMessages(c)
  \/ ChangeTier \/ Midnight

ChatSpec == ChatInit /\ [][ChatNext]_chatVars

-----------------------------------------------------------------------------
(* Properties. *)

ChatTypeOK ==
  /\ backend \in {"memory", "postgres"} /\ tier \in Tiers /\ today \in 1..MaxDay
  /\ conv \in [Convs -> {"none", "open", "deleted"}] /\ msgs \in [Convs -> Nat]
  /\ late \subseteq Convs /\ raced \in BOOLEAN
  /\ used \in [Tiers -> Nat] /\ dayDate \in 0..MaxDay /\ dayCount \in Nat
  /\ pc \in [Procs -> {"out", "creating", "gate", "backstop", "asking", "question", "answer",
                       "charging", "counting"}]
  /\ at \in [Procs -> 0..MaxConvs] /\ bucket \in [Procs -> Tiers] /\ cost \in [Procs -> Nat]
  /\ left \subseteq Procs /\ turns \in 0..MaxTurns /\ faults \in 0..MaxFaults

MaxCost == CHOOSE n \in Costs : \A m \in Costs : m <= n

\* The quotas are soft, but not by much: the requests that were admitted before
\* a limit was reached - one per request in flight, plus one per failed read of
\* the meter - are all that goes over it.
OvershootIsBounded ==
  /\ \A b \in Tiers :
       used[b] <= Limits[b] - 1 + (Cardinality(Procs) + faults) * MaxCost
  /\ dayCount <= DayCap - 1 + Cardinality(Procs)

\* What a user deletes stays deleted: messages are kept for a deleted
\* conversation only if a turn in it was in flight when it was deleted.  And a
\* stock's thread is in one conversation, unless two first turns raced on
\* Postgres, where it splits for good.
ThreadsKept ==
  /\ \A c \in Convs : conv[c] = "deleted" /\ msgs[c] > 0 => c \in late
  /\ Cardinality(Open) > 1 => backend = "postgres" /\ raced

\* The chat: its quotas overshoot by a bounded number, and what is deleted stays deleted.
ChatIsSound == OvershootIsBounded /\ ThreadsKept
=============================================================================
