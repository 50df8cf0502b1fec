------------------------------- MODULE Tables -------------------------------
(***************************************************************************)
(* Tables of rows, for the two stores of internal/store: the maps of the   *)
(* in-memory one and the SQL of the Postgres one, as sets of records.      *)
(***************************************************************************)
EXTENDS Naturals, FiniteSets, SequencesExt

\* What is collected, what is made of it, what users keep for themselves, and the rest.
CollectedTables ==
  {"securities", "quotes", "filings", "news", "social", "signals", "hotlist", "insiders",
   "earnings", "seen"}
MadeTables == {"greed", "digests", "reports"}
KeptTables == {"watch", "clips", "notes", "alerts", "holdings", "prefs", "meters"}
SharedTables == {"comments", "mentions", "likes", "subs", "events", "msgs", "convs", "funnel"}
TableNames == CollectedTables \cup MadeTables \cup KeptTables \cup SharedTables

EmptyDb == [t \in TableNames |-> {}]

\* The rows of a table that agree with r on some columns.
Matching(db, t, r, cols) == {x \in db[t] : \A c \in cols : x[c] = r[c]}

\* A row that takes the place of the one with its key; a batch of them, in order.
Replace(db, t, key, r) == [db EXCEPT ![t] = (@ \ Matching(db, t, r, key)) \cup {r}]
ReplaceEach(db, t, key, rows) == FoldLeft(LAMBDA d, r : Replace(d, t, key, r), db, rows)

\* INSERT ... ON CONFLICT (key) DO UPDATE SET cols; a batch of them, in order.
Overlay(x, r, cols) == [c \in DOMAIN x |-> IF c \in cols THEN r[c] ELSE x[c]]
Merge(db, t, key, r, cols) ==
  LET old == Matching(db, t, r, key) IN
    [db EXCEPT ![t] = IF old = {} THEN @ \cup {r}
                      ELSE (@ \ old) \cup {Overlay(x, r, cols) : x \in old}]
MergeEach(db, t, key, rows, cols) ==
  FoldLeft(LAMBDA d, r : Merge(d, t, key, r, cols), db, rows)

\* DELETE and UPDATE ... WHERE.
Drop(db, t, P(_)) == [db EXCEPT ![t] = {x \in @ : ~P(x)}]
Update(db, t, P(_), f(_)) ==
  [db EXCEPT ![t] = {IF P(x) THEN f(x) ELSE x : x \in @}]
Has(db, t, P(_)) == \E x \in db[t] : P(x)

\* ORDER BY and LIMIT.
Descending(S, c) == SetToSortSeq(S, LAMBDA x, y : x[c] > y[c])
Ascending(S, c) == SetToSortSeq(S, LAMBDA x, y : x[c] < y[c])
Limited(s, n) == IF n > 0 /\ Len(s) > n THEN SubSeq(s, 1, n) ELSE s
LastOf(s, n) == IF n > 0 /\ Len(s) > n THEN SubSeq(s, Len(s) - n + 1, Len(s)) ELSE s
=============================================================================
