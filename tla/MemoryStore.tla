---------------------------- MODULE MemoryStore -----------------------------
(***************************************************************************)
(* internal/store/memory: the store the server runs on without a database. *)
(* Every method holds the store's one mutex from start to end, so that a   *)
(* method is one step; its effect and its answer are functions of the      *)
(* tables.  `now` is the clock when the method runs.                       *)
(***************************************************************************)
EXTENDS Tables

CONSTANT Key(_)   \* a ticker as key() spells it: trimmed, upper case

Of(db, table, t) == {x \in db[table] : Key(x.ticker) = Key(t)}

\* The maps of the corpus are keyed by key(ticker): a row is filed under it.
Filed(r) == [r EXCEPT !.ticker = Key(@)]
File(db, table, cols, rows) ==
  ReplaceEach(db, table, cols, [i \in DOMAIN rows |-> Filed(rows[i])])

-----------------------------------------------------------------------------
(* The collected corpus. *)

UpsertSecurity(db, r) == File(db, "securities", {"ticker"}, <<r>>)
GetSecurity(db, t) == Of(db, "securities", t)

SaveFilings(db, rows) == File(db, "filings", {"ticker", "id"}, rows)
ListFilings(db, t, n) == Limited(Descending(Of(db, "filings", t), "at"), n)

UpsertQuote(db, r) == File(db, "quotes", {"ticker"}, <<r>>)
GetQuote(db, t) == Of(db, "quotes", t)

\* A known item keeps its translation.
SaveNews(db, rows) ==
  FoldLeft(LAMBDA d, r :
             LET old == Matching(d, "news", Filed(r), {"ticker", "id"}) IN
               File(d, "news", {"ticker", "id"},
                    <<IF old # {} /\ r.zh = "" THEN [r EXCEPT !.zh = (CHOOSE x \in old : TRUE).zh]
                      ELSE r>>),
           db, rows)
ListUntranslatedNews(db, n) == Limited(Descending({x \in db.news : x.zh = ""}, "at"), n)
SetNewsTranslation(db, t, id, zh) ==
  Update(db, "news", LAMBDA x : Key(x.ticker) = Key(t) /\ x.id = id,
         LAMBDA x : [x EXCEPT !.zh = zh])
ListNews(db, t, n) == Limited(Descending(Of(db, "news", t), "at"), n)

SaveSocial(db, rows) == File(db, "social", {"ticker", "id"}, rows)
ListSocial(db, t, n) == Limited(Descending(Of(db, "social", t), "at"), n)

SaveSignals(db, rows) ==
  File(db, "signals", {"ticker", "source"},
             SelectSeq(rows, LAMBDA r : Key(r.ticker) # "" /\ r.source # ""))
ListSignals(db, t) == Of(db, "signals", t)

SaveHotList(db, board, rows) ==
  [db EXCEPT !.hotlist = {x \in @ : x.board # board} \cup ToSet(rows)]
HotList(db, board, n) == Limited(Ascending({x \in db.hotlist : x.board = board}, "rank"), n)

SaveInsiderBuys(db, rows) ==
  ReplaceEach(db, "insiders", {"id"}, SelectSeq(rows, LAMBDA r : r.id # 0))   \* 0: no accession
RecentInsiderBuys(db, since) == Descending({x \in db.insiders : x.at >= since}, "at")

SaveEarnings(db, rows) ==
  File(db, "earnings", {"ticker", "at"}, SelectSeq(rows, LAMBDA r : r.ticker # ""))
ListEarnings(db, from, to) == {x \in db.earnings : x.at >= from /\ x.at <= to}
ListEarningsForTicker(db, t, n) == Limited(Ascending(Of(db, "earnings", t), "at"), n)

MarkForm4Seen(db, ids, at) ==
  LET seen == ids \ {""} IN
    [db EXCEPT !.seen = {x \in @ : x.id \notin seen} \cup {[id |-> a, at |-> at] : a \in seen}]
SeenForm4Since(db, since) == {x.id : x \in {y \in db.seen : y.at >= since}}

SaveFearGreed(db, r) == IF r.at = 0 THEN db ELSE Replace(db, "greed", {"at"}, r)
FearGreedHistory(db, n) == LastOf(Ascending(db.greed, "at"), n)

SaveDeepReport(db, r, now) ==
  File(db, "reports", {"ticker", "lang"}, <<[r EXCEPT !.at = now]>>)
GetDeepReport(db, t, lang) == {x \in Of(db, "reports", t) : x.lang = lang}

SaveAISummary(db, r) == File(db, "digests", {"ticker", "day", "lang"}, <<r>>)
GetAISummary(db, t, day, lang) == {x \in Of(db, "digests", t) : x.day = day /\ x.lang = lang}

-----------------------------------------------------------------------------
(* What a user keeps. *)

Watchlist(db, u) == Ascending({x \in db.watch : x.user = u}, "at")
AllWatchlistTickers(db) == {x.ticker : x \in db.watch}
AddToWatchlist(db, u, t, now) ==
  IF Key(t) = "" \/ u = "" \/ Has(db, "watch", LAMBDA x : x.user = u /\ x.ticker = Key(t)) THEN db
  ELSE [db EXCEPT !.watch = @ \cup {[user |-> u, ticker |-> Key(t), at |-> now]}]
RemoveFromWatchlist(db, u, t) ==
  Drop(db, "watch", LAMBDA x : x.user = u /\ x.ticker = Key(t))

SaveClip(db, r) == Replace(db, "clips", {"user", "id"}, r)
ListClips(db, u, t, n) ==
  Limited(Descending({x \in Of(db, "clips", t) : x.user = u}, "at"), n)

SaveNote(db, r) == Replace(db, "notes", {"user", "id"}, r)
\* Pinned first, then newest.
ListNotes(db, u, t, from, to, n) ==
  Limited(SetToSortSeq({x \in db.notes : /\ x.user = u
                                         /\ t # "" => Key(x.ticker) = Key(t)
                                         /\ from > 0 => x.date # 0 /\ x.date >= from
                                         /\ to > 0 => x.date # 0 /\ x.date <= to},
                       LAMBDA x, y : IF x.pinned # y.pinned THEN x.pinned ELSE x.at > y.at), n)
UpdateNote(db, u, id, body, pinned, now) ==
  Update(db, "notes", LAMBDA x : x.user = u /\ x.id = id,
         LAMBDA x : [x EXCEPT !.body = IF body = {} THEN @ ELSE CHOOSE b \in body : TRUE,
                              !.pinned = IF pinned = {} THEN @ ELSE CHOOSE p \in pinned : TRUE,
                              !.edited = now])
DeleteNote(db, u, id) == Drop(db, "notes", LAMBDA x : x.user = u /\ x.id = id)

SaveAlert(db, r) == Replace(db, "alerts", {"user", "id"}, r)
ListAlerts(db, u) == Descending({x \in db.alerts : x.user = u}, "at")
DeleteAlert(db, u, id) == Drop(db, "alerts", LAMBDA x : x.user = u /\ x.id = id)
ReactivateAlert(db, u, id) ==
  Update(db, "alerts", LAMBDA x : x.user = u /\ x.id = id,
         LAMBDA x : [x EXCEPT !.active = TRUE, !.fired = 0])
ListActiveAlerts(db) == {x \in db.alerts : x.active /\ x.fired = 0}
MarkAlertTriggered(db, id, at) ==
  Update(db, "alerts", LAMBDA x : x.id = id, LAMBDA x : [x EXCEPT !.fired = at])

\* A ticker held already keeps its row: its id and its created_at.
SaveHolding(db, r) ==
  LET held == Matching(db, "holdings", r, {"user", "ticker"}) IN
    [db EXCEPT !.holdings =
       (@ \ held) \cup
       {IF held = {} THEN r
        ELSE [r EXCEPT !.id = (CHOOSE x \in held : TRUE).id, !.at = (CHOOSE x \in held : TRUE).at]}]
ListHoldings(db, u) == {x \in db.holdings : x.user = u}
DeleteHolding(db, u, id) == Drop(db, "holdings", LAMBDA x : x.user = u /\ x.id = id)

GetPrefs(db, u) == {x \in db.prefs : x.user = u}
PutPrefs(db, u, blob) == Replace(db, "prefs", {"user"}, [user |-> u, blob |-> blob])

-----------------------------------------------------------------------------
(* Meters, conversations, billing, comments. *)

\* One map per meter, one counter per user and period.
Used(db, meter, u, period) ==
  LET row == {x \in db.meters : x.meter = meter /\ x.user = u /\ x.period = period} IN
    IF row = {} THEN 0 ELSE (CHOOSE x \in row : TRUE).n
Incr(db, meter, u, period, n) ==
  IF n <= 0 THEN db
  ELSE Replace(db, "meters", {"meter", "user", "period"},
               [meter |-> meter, user |-> u, period |-> period,
                n |-> Used(db, meter, u, period) + n])

Bump(db, id, now) ==
  Update(db, "convs", LAMBDA x : x.id = id, LAMBDA x : [x EXCEPT !.bumped = now])
AppendChatMessage(db, r, now) ==
  Bump([db EXCEPT !.msgs = @ \cup {[r EXCEPT !.at = now]}], r.conv, now)
ListChatMessages(db, id, n) == LastOf(Ascending({x \in db.msgs : x.conv = id}, "at"), n)
ClearChatMessages(db, id) == Drop(db, "msgs", LAMBDA x : x.conv = id)

CreateConversation(db, u, title, anchor, id, now) ==
  [db EXCEPT !.convs = @ \cup {[id |-> id, user |-> u, title |-> title, anchor |-> anchor,
                                at |-> now, bumped |-> now]}]
GetOrCreateStockConversation(db, u, t, id, now) ==
  IF Has(db, "convs", LAMBDA x : x.user = u /\ x.anchor = t) THEN db
  ELSE CreateConversation(db, u, t, t, id, now)
ListConversations(db, u) == Descending({x \in db.convs : x.user = u}, "bumped")
GetConversation(db, u, id) == {x \in db.convs : x.user = u /\ x.id = id}
RenameConversation(db, u, id, title, now) ==
  Update(db, "convs", LAMBDA x : x.user = u /\ x.id = id,
         LAMBDA x : [x EXCEPT !.title = title, !.bumped = now])
DeleteConversation(db, u, id) ==
  IF GetConversation(db, u, id) = {} THEN db
  ELSE ClearChatMessages(Drop(db, "convs", LAMBDA x : x.id = id), id)

GetSubscription(db, u) == {x \in db.subs : x.user = u}
GetSubscriptionByCustomer(db, c) == {x \in db.subs : x.customer = c /\ c # ""}
ListProSubscriptions(db) ==
  {x \in db.subs : x.tier = "pro" \/ x.status \in {"active", "trialing", "past_due"}}
UpsertSubscription(db, r, now) ==
  Replace(db, "subs", {"user"}, [r EXCEPT !.end = IF @ = 0 THEN now ELSE @])
MarkStripeEventSeen(db, e) == [db EXCEPT !.events = @ \cup {e}]
StripeEventSeen(db, e) == e \in db.events

SaveFunnelEvent(db, r, now) == [db EXCEPT !.funnel = @ \cup {[r EXCEPT !.at = now]}]
FunnelSummary(db, since) ==
  LET recent == {x \in db.funnel : x.at >= since}
      like(x) == {y \in recent : y.event = x.event /\ y.surface = x.surface} IN
    {[event |-> x.event, surface |-> x.surface, n |-> Cardinality(like(x))] : x \in recent}

SaveComment(db, r) == Replace(db, "comments", {"id"}, r)
LikesOf(db, id) == {x.user : x \in {y \in db.likes : y.comment = id}}
ListComments(db, t, n, viewer) ==
  Limited(Descending(
    {[id |-> x.id, user |-> x.user, ticker |-> x.ticker, body |-> x.body, at |-> x.at,
      edited |-> x.edited, likes |-> Cardinality(LikesOf(db, x.id)),
      liked |-> viewer # "" /\ viewer \in LikesOf(db, x.id)] :
        x \in {y \in db.comments : Key(y.ticker) = Key(t) \/ (Key(t) # "" /\ Key(t) \in y.mentions)}},
    "at"), n)
DeleteComment(db, id, u, admin) ==
  Drop(db, "comments", LAMBDA x : x.id = id /\ (admin \/ x.user = u))
UpdateComment(db, id, u, body, mentions, now) ==
  Update(db, "comments", LAMBDA x : x.id = id /\ x.user = u,
         LAMBDA x : [x EXCEPT !.body = body, !.mentions = mentions, !.edited = now])
Toggle(S, r) == IF r \in S THEN S \ {r} ELSE S \cup {r}
LikeComment(db, id, u) ==
  IF Has(db, "comments", LAMBDA x : x.id = id)
  THEN [db EXCEPT !.likes = Toggle(@, [comment |-> id, user |-> u])] ELSE db
ReportComment(db, id) == Has(db, "comments", LAMBDA x : x.id = id)

-----------------------------------------------------------------------------
(* prune.go *)

Hot(db) == {x.ticker : x \in db.hotlist}
Cutoff(db, t, before, hotBefore) == IF t \in Hot(db) THEN hotBefore ELSE before
PruneNews(db, before, hotBefore) ==
  Drop(db, "news", LAMBDA x : x.at < Cutoff(db, x.ticker, before, hotBefore))
PruneSocial(db, before, hotBefore, protect) ==
  Drop(db, "social", LAMBDA x : /\ x.source \notin protect
                                /\ x.at < Cutoff(db, x.ticker, before, hotBefore))
PruneAt(db, t, before) == Drop(db, t, LAMBDA x : x.at < before)
\* The newest n of a ticker stay; protected rows neither go nor count.
CapPerTicker(db, table, n, protect) ==
  IF n <= 0 THEN db
  ELSE Drop(db, table,
            LAMBDA x : /\ x.source \notin protect
                       /\ Cardinality({y \in db[table] : /\ y.ticker = x.ticker
                                                         /\ y.source \notin protect
                                                         /\ y.at > x.at}) >= n)
=============================================================================
