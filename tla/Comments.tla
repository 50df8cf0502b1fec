------------------------------ MODULE Comments ------------------------------
(***************************************************************************)
(* One public comment in Postgres: its body, the tickers it is listed      *)
(* under because the body cashtags them (comment_mentions), its likes and  *)
(* its deletion (internal/store/postgres: SaveComment, UpdateComment,      *)
(* LikeComment, DeleteComment).  Each call is a transaction at READ        *)
(* COMMITTED: a statement sees what is committed when it starts, an UPDATE *)
(* locks the row until the commit and is tried again on the row as another *)
(* transaction left it.                                                    *)
(***************************************************************************)
EXTENDS Naturals, FiniteSets

CONSTANTS
  Sessions,         \* connections
  Bodies,           \* what the author may write
  MentionsOf(_),    \* the tickers a body cashtags
  Users,            \* who likes it
  MaxCalls,         \* bound: calls, in all
  Nobody            \* the row is not locked

VARIABLES
  body, deleted,    \* the committed row ({}: not inserted yet, {b} otherwise)
  mentions, likes,  \* committed rows of comment_mentions, comment_likes
  lock,             \* the session that has updated the row and not committed
  tx,               \* each session's transaction: its step and its own writes
  calls,
  final,            \* history: the row and its mentions when it was deleted
  odd,              \* history: users who have toggled an odd number of times
  overlapped        \* history: users two of whose toggles ran at once

commentVars == <<body, deleted, mentions, likes, lock, tx, calls, final, odd, overlapped>>

Idle == [at |-> "idle", body |-> {}, gone |-> {}, user |-> {}, liked |-> FALSE]

CommentsInit ==
  /\ body = {} /\ deleted = FALSE /\ mentions = {} /\ likes = {}
  /\ lock = Nobody /\ tx = [s \in Sessions |-> Idle] /\ calls = 0
  /\ final = {} /\ odd = {} /\ overlapped = {}

Call(s) == tx[s] = Idle /\ calls < MaxCalls /\ calls' = calls + 1

Do(s, t) == tx' = [tx EXCEPT ![s] = t]

\* SaveComment: the row and its mentions become visible together.
Save(s, b) ==
  /\ Call(s) /\ body = {}
  /\ body' = {b} /\ mentions' = MentionsOf(b)
  /\ UNCHANGED <<deleted, likes, lock, tx, final, odd, overlapped>>

\* UpdateComment: the UPDATE waits for the row, finds it deleted or locks it.
BeginEdit(s, b) ==
  /\ Call(s) /\ body # {}
  /\ Do(s, [Idle EXCEPT !.at = "update", !.body = {b}])
  /\ UNCHANGED <<body, deleted, mentions, likes, lock, final, odd, overlapped>>

\* Mutant: the mentions are cleared before the row is updated.
UpdateRowLast(s) ==
  /\ \/ /\ tx[s].at = "update"
        /\ Do(s, [tx[s] EXCEPT !.at = "clear", !.gone = mentions]) /\ UNCHANGED lock
     \/ /\ tx[s].at = "clear" /\ lock = Nobody
        /\ IF deleted THEN Do(s, Idle) /\ UNCHANGED lock
           ELSE Do(s, [tx[s] EXCEPT !.at = "commit"]) /\ lock' = s
  /\ UNCHANGED <<body, deleted, mentions, likes, calls, final, odd, overlapped>>

UpdateRow(s) ==
  /\ \/ /\ tx[s].at = "update" /\ lock = Nobody
        /\ IF deleted THEN Do(s, Idle) /\ UNCHANGED lock
           ELSE Do(s, [tx[s] EXCEPT !.at = "clear"]) /\ lock' = s
     \* DELETE FROM comment_mentions, then the new set is inserted.
     \/ /\ tx[s].at = "clear"
        /\ Do(s, [tx[s] EXCEPT !.at = "commit", !.gone = mentions]) /\ UNCHANGED lock
  /\ UNCHANGED <<body, deleted, mentions, likes, calls, final, odd, overlapped>>

CommitEdit(s) ==
  /\ tx[s].at = "commit"
  /\ body' = tx[s].body
  /\ mentions' = (mentions \ tx[s].gone) \cup UNION {MentionsOf(b) : b \in tx[s].body}
  /\ lock' = Nobody /\ Do(s, Idle)
  /\ UNCHANGED <<deleted, likes, calls, final, odd, overlapped>>

\* A statement fails or the process dies: nothing of the transaction stays.
Rollback(s) ==
  /\ tx[s] # Idle /\ Do(s, Idle)
  /\ lock' = IF lock = s THEN Nobody ELSE lock
  /\ UNCHANGED <<body, deleted, mentions, likes, calls, final, odd, overlapped>>

\* DeleteComment: one UPDATE, kept for the audit.
Delete(s) ==
  /\ Call(s) /\ body # {} /\ ~deleted /\ lock = Nobody
  /\ deleted' = TRUE /\ final' = {<<body, mentions>>}
  /\ UNCHANGED <<body, mentions, likes, lock, tx, odd, overlapped>>

\* LikeComment: it reads whether the user likes the comment ...
ReadLike(s, u) ==
  /\ Call(s) /\ body # {} /\ ~deleted
  /\ Do(s, [Idle EXCEPT !.at = "toggle", !.user = {u}, !.liked = u \in likes])
  /\ overlapped' = overlapped \cup {v \in {u} : \E r \in Sessions : tx[r].user = {v}}
  /\ UNCHANGED <<body, deleted, mentions, likes, lock, final, odd>>

\* ... and inserts (or finds) or deletes the row; the comment may have been
\* deleted meanwhile.
Toggle(s) ==
  /\ tx[s].at = "toggle" /\ Do(s, Idle)
  /\ likes' = IF tx[s].liked THEN likes \ tx[s].user ELSE likes \cup tx[s].user
  /\ odd' = (odd \ tx[s].user) \cup (tx[s].user \ odd)
  /\ UNCHANGED <<body, deleted, mentions, lock, calls, final, overlapped>>

CommentsNext ==
  \E s \in Sessions :
    \/ \E b \in Bodies : Save(s, b) \/ BeginEdit(s, b)
    \/ UpdateRow(s) \/ CommitEdit(s) \/ Rollback(s) \/ Delete(s)
    \/ \E u \in Users : ReadLike(s, u)
    \/ Toggle(s)

CommentsSpec == CommentsInit /\ [][CommentsNext]_commentVars

-----------------------------------------------------------------------------
(* Properties. *)

CommentsTypeOK ==
  /\ body \in SUBSET Bodies /\ deleted \in BOOLEAN
  /\ mentions \subseteq UNION {MentionsOf(b) : b \in Bodies}
  /\ likes \subseteq Users /\ odd \subseteq Users /\ overlapped \subseteq Users
  /\ lock \in Sessions \cup {Nobody} /\ calls \in 0..MaxCalls
  /\ \A s \in Sessions : tx[s].at \in {"idle", "update", "clear", "commit", "toggle"}

\* The boards list the comment under exactly the tickers its body cashtags,
\* however two edits of it interleave; what the moderators see of a deleted
\* comment is what it was when it was deleted; and a like is a toggle, there
\* after an odd number of clicks, whatever the other users do.  (Two clicks of
\* one user at once may count as one.)
CommentsConsistent ==
  /\ mentions = UNION {MentionsOf(b) : b \in body}
  /\ final \subseteq {<<body, mentions>>}
  /\ \A u \in Users \ overlapped : u \in likes <=> u \in odd
=============================================================================
