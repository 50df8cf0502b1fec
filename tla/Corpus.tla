------------------------------- MODULE Corpus -------------------------------
(***************************************************************************)
(* The collected news of one ticker: the scheduler of internal/ingest      *)
(* (ingest.go) that saves it, the leaderboard that says whether the ticker *)
(* is hot, the translator of headlines (translate.go), and the pruner      *)
(* (prune.go) that keeps the table small, on Postgres (the memory store    *)
(* does the same under its lock, and starts empty).                        *)
(*                                                                         *)
(* Items are numbered in the order in which they are published; time is in *)
(* units of the shorter retention window.                                  *)
(***************************************************************************)
EXTENDS Naturals, FiniteSets

CONSTANTS
  News,       \* numbers of the news items
  Lookback,   \* how long a provider returns an item (newsLookbackDays)
  Days,       \* RETAIN_NEWS_DAYS
  HotDays,    \* RETAIN_NEWS_HOT_DAYS
  PerTicker,  \* CAP_NEWS_PER_TICKER
  Batch,      \* translateBatch
  MaxDay,     \* bound: days
  MaxFaults   \* bound: calls that fail or answer nothing, restarts, trends that end

CorpusAssumption == HotDays \in Nat /\ MaxDay \in Nat \ {0} /\ MaxFaults \in Nat

VARIABLES
  day,
  published,  \* the day each item came out (0: not yet)
  trending,   \* the leaderboard has the ticker
  row,        \* none, raw or translated
  board,      \* the hotlist table has the ticker
  pc, hand,   \* the scheduler: where its cycle is, the items it fetched
  batch,      \* headlines the translator has sent or has answers for
  answered,
  stubborn,   \* headlines the LLM never translates
  pass,       \* where the pruner is: the old, then those above the cap
  booted,     \* the board was saved since the process started
  faults,
  listed,     \* history: the board has had the ticker, which trends ever since
  early, cold \* history: items a prune took too early; while the board was not up yet

collectVars == <<row, board, pc, hand, booted>>
transVars == <<batch, answered, stubborn>>
pruneVars == <<pass, early, cold>>
corpusVars == <<day, published, trending, collectVars, transVars, pruneVars,
                faults, listed>>

Init ==
  /\ day = 1
  /\ published = [i \in News |-> 0] /\ trending = TRUE
  /\ row = [i \in News |-> "none"] /\ board = FALSE /\ booted = FALSE
  /\ pc = "idle" /\ hand = {}
  /\ batch = {} /\ answered = FALSE
  /\ stubborn \in SUBSET News
  /\ pass = "old"
  /\ faults = 0 /\ listed = FALSE /\ early = {} /\ cold = {}

Fault == faults < MaxFaults /\ faults' = faults + 1

Midnight ==
  /\ day < MaxDay /\ day' = day + 1
  /\ UNCHANGED <<published, trending, collectVars, transVars, pruneVars, faults, listed>>

Publish(i) ==
  /\ published[i] = 0 /\ \A j \in News : j < i => published[j] # 0
  /\ published' = [published EXCEPT ![i] = day]
  /\ UNCHANGED <<day, trending, collectVars, transVars, pruneVars, faults, listed>>

StopTrending ==
  /\ trending /\ Fault
  /\ trending' = FALSE /\ listed' = FALSE
  /\ UNCHANGED <<day, published, collectVars, transVars, pruneVars>>

-----------------------------------------------------------------------------
(* Collection. *)

\* Mutant: an empty leaderboard is saved like any other.
SaveBoardEmpty ==
  /\ pc = "idle" /\ pc' = "news"
  /\ \/ board' = trending /\ booted' = TRUE /\ listed' = trending /\ UNCHANGED faults
     \/ Fault /\ board' = FALSE /\ UNCHANGED <<booted, listed>>
  /\ UNCHANGED <<day, published, trending, row, hand, transVars, pruneVars>>

\* ingestHotList comes first in a cycle; a fetch that fails, or that returns no
\* rows, keeps the last good board.
SaveBoard ==
  /\ pc = "idle" /\ pc' = "news"
  /\ \/ board' = trending /\ booted' = TRUE /\ listed' = trending /\ UNCHANGED faults
     \/ Fault /\ UNCHANGED <<board, booted, listed>>
  /\ UNCHANGED <<day, published, trending, row, hand, transVars, pruneVars>>

\* A provider answers, or fails and is skipped for this time.
Fetch ==
  /\ pc = "news"
  /\ \/ /\ hand' = {i \in News : published[i] # 0 /\ day - published[i] <= Lookback}
        /\ pc' = "save" /\ UNCHANGED faults
     \/ Fault /\ pc' = "idle" /\ UNCHANGED hand
  /\ UNCHANGED <<day, published, trending, row, board, booted, transVars, pruneVars, listed>>

\* Saving a known item again does not wipe its translation.
Saved(old) == IF old = "none" THEN "raw" ELSE old

\* SaveNews: an upsert by id.
SaveNews ==
  /\ pc = "save" /\ pc' = "idle" /\ hand' = {}
  /\ \/ row' = [i \in News |-> IF i \in hand THEN Saved(row[i]) ELSE row[i]] /\ UNCHANGED faults
     \/ Fault /\ UNCHANGED row
  /\ UNCHANGED <<day, published, trending, board, booted, transVars, pruneVars, listed>>

-----------------------------------------------------------------------------
(* The translator. *)

Newest(S, n) == {i \in S : Cardinality({j \in S : j > i}) < n}

\* Mutant: the list does not leave out what is translated.
UntranslatedAll == {i \in News : row[i] # "none"}

Untranslated == {i \in News : row[i] = "raw"}

\* A sweep lists the newest headlines without a translation ...
Sweep ==
  /\ batch = {} /\ Untranslated # {}
  /\ batch' = Newest(Untranslated, Batch)
  /\ UNCHANGED <<day, published, trending, collectVars, answered, stubborn, pruneVars,
                 faults, listed>>

\* ... sends them to the LLM, which answers (some are left blank) or fails ...
Translate ==
  /\ batch # {} /\ ~answered
  /\ \/ batch' = batch \ stubborn /\ answered' = (batch' # {}) /\ UNCHANGED faults
     \/ Fault /\ batch' = {} /\ UNCHANGED answered
  /\ UNCHANGED <<day, published, trending, collectVars, stubborn, pruneVars, listed>>

\* ... and stores them one by one, where the row is still there.
StoreTranslation ==
  /\ answered
  /\ \E i \in batch :
       /\ batch' = batch \ {i} /\ answered' = (batch' # {})
       /\ \/ row' = [row EXCEPT ![i] = IF @ = "none" THEN @ ELSE "translated"] /\ UNCHANGED faults
          \/ Fault /\ UNCHANGED row
  /\ UNCHANGED <<day, published, trending, board, pc, hand, booted, stubborn,
                 pruneVars, listed>>

-----------------------------------------------------------------------------
(* The pruner: a pass as soon as the process is up, then one every six     *)
(* hours.                                                                  *)

StartPass ==
  /\ pass = "idle" /\ pass' = "old"
  /\ UNCHANGED <<day, published, trending, collectVars, transVars, early, cold, faults, listed>>

Age(i) == day - published[i]

\* A hot ticker is allowed the longer window, by the board as it is now.
TooOld(i) == IF board THEN Age(i) > HotDays ELSE Age(i) > Days

\* PruneNews, then CapPerTicker.
Pruned ==
  LET kept == {i \in News : row[i] # "none"}
  IN  IF pass = "old" THEN {i \in kept : TooOld(i)} ELSE kept \ Newest(kept, PerTicker)

Prune ==
  /\ pass # "idle"
  /\ pass' = IF pass = "old" THEN "cap" ELSE "idle"
  /\ \/ /\ row' = [i \in News |-> IF i \in Pruned THEN "none" ELSE row[i]]
        /\ LET robbed == IF pass = "cap" \/ ~listed THEN {}
                         ELSE {i \in Pruned : Age(i) <= HotDays}
           IN  early' = early \cup robbed /\ cold' = cold \cup (IF booted THEN {} ELSE robbed)
        /\ UNCHANGED faults
     \/ Fault /\ UNCHANGED <<row, early, cold>>
  /\ UNCHANGED <<day, published, trending, board, pc, hand, booted, transVars, listed>>

\* The schema that runs at every start makes the hotlist table anew.
Restart ==
  /\ Fault
  /\ board' = FALSE /\ booted' = FALSE
  /\ pc' = "idle" /\ hand' = {}
  /\ batch' = {} /\ answered' = FALSE
  /\ pass' = "old"
  /\ UNCHANGED <<day, published, trending, row, stubborn, early, cold, listed>>

Translator == Sweep \/ Translate \/ StoreTranslation

Next ==
  \/ Midnight \/ StopTrending \/ Restart \/ SaveBoard \/ Fetch \/ SaveNews \/ Translator \/ StartPass \/ Prune
  \/ \E i \in News : Publish(i)

\* The translator's ticker keeps firing.
Fairness == WF_corpusVars(Translator)

Spec == Init /\ [][Next]_corpusVars /\ Fairness

-----------------------------------------------------------------------------
(* Properties. *)

TypeOK ==
  /\ day \in 1..MaxDay
  /\ published \in [News -> 0..MaxDay] /\ trending \in BOOLEAN
  /\ row \in [News -> {"none", "raw", "translated"}] /\ board \in BOOLEAN /\ booted \in BOOLEAN
  /\ pc \in {"idle", "news", "save"} /\ hand \subseteq News
  /\ batch \subseteq News /\ answered \in BOOLEAN /\ stubborn \subseteq News
  /\ pass \in {"idle", "old", "cap"}
  /\ faults \in 0..MaxFaults /\ listed \in BOOLEAN /\ early \subseteq News /\ cold \subseteq News

\* An item of a ticker that has been on the board, and trends ever
\* since, is pruned early only between a restart and the first board after it,
\* though fetches of the board fail or return nothing.
HotIsKeptOnceUp == early \subseteq cold

\* A headline that the LLM can translate does not stay untranslated, unless a whole batch of
\* newer ones that it leaves blank stays ahead of it in every sweep; fewer of those, saving it
\* again, or another failing, do not keep it out.
KeptOut(i) == Cardinality({j \in stubborn : j > i /\ row[j] = "raw"}) >= Batch
HeadlinesTranslated ==
  \A i \in News : []<>(row[i] = "raw" => i \in stubborn \/ KeptOut(i))
=============================================================================
