---------------------------- MODULE PostgresStore ----------------------------
(***************************************************************************)
(* internal/store/postgres: the statements of the deployed store, under    *)
(* the names MemoryStore gives the same methods.  A ticker is compared as  *)
(* it comes, an upsert writes the columns its SET clause names, and a      *)
(* comment is deleted by a flag and mentions tickers in a table of its     *)
(* own.  A method of several statements runs in one transaction, except    *)
(* AppendChatMessage and GetOrCreateStockConversation, modelled without    *)
(* another request between their statements.                               *)
(***************************************************************************)
EXTENDS Tables

Of(db, table, t) == {x \in db[table] : x.ticker = t}

-----------------------------------------------------------------------------
(* The collected corpus. *)

UpsertSecurity(db, r) == Merge(db, "securities", {"ticker"}, r, {"v"})
GetSecurity(db, t) == Of(db, "securities", t)

SaveFilings(db, rows) == MergeEach(db, "filings", {"ticker", "id"}, rows, {"at", "v"})
ListFilings(db, t, n) == Limited(Descending(Of(db, "filings", t), "at"), n)

UpsertQuote(db, r) == Merge(db, "quotes", {"ticker"}, r, {"v"})
GetQuote(db, t) == Of(db, "quotes", t)

\* Mutant: saving an item again overwrites its translation.
SaveNewsRetold(db, rows) ==
  MergeEach(db, "news", {"ticker", "id"}, rows, {"v", "source", "at", "zh"})
\* headline_zh is not among the columns: a new row has none, a known one keeps its own.
SaveNews(db, rows) ==
  MergeEach(db, "news", {"ticker", "id"}, [i \in DOMAIN rows |-> [rows[i] EXCEPT !.zh = ""]],
            {"v", "source", "at"})
ListUntranslatedNews(db, n) ==
  Limited(Descending({x \in db.news : x.zh = ""}, "at"), IF n <= 0 THEN 50 ELSE n)
SetNewsTranslation(db, t, id, zh) ==
  Update(db, "news", LAMBDA x : x.ticker = t /\ x.id = id, LAMBDA x : [x EXCEPT !.zh = zh])
ListNews(db, t, n) == Limited(Descending(Of(db, "news", t), "at"), n)

SaveSocial(db, rows) == MergeEach(db, "social", {"ticker", "id"}, rows, {"source", "v", "at"})
ListSocial(db, t, n) == Limited(Descending(Of(db, "social", t), "at"), n)

SaveSignals(db, rows) == MergeEach(db, "signals", {"ticker", "source"}, rows, {"v"})
ListSignals(db, t) == Of(db, "signals", t)

\* One transaction: the board is cleared and written anew.
SaveHotList(db, board, rows) ==
  MergeEach(Drop(db, "hotlist", LAMBDA x : x.board = board),
            "hotlist", {"board", "ticker"}, rows, {"rank"})
HotList(db, board, n) == Limited(Ascending({x \in db.hotlist : x.board = board}, "rank"), n)

SaveInsiderBuys(db, rows) == MergeEach(db, "insiders", {"id"}, rows, {"ticker", "at", "v"})
RecentInsiderBuys(db, since) == Descending({x \in db.insiders : x.at >= since}, "at")

SaveEarnings(db, rows) == MergeEach(db, "earnings", {"ticker", "at"}, rows, {"v"})
ListEarnings(db, from, to) == {x \in db.earnings : x.at >= from /\ x.at <= to}
ListEarningsForTicker(db, t, n) ==
  Limited(Ascending(Of(db, "earnings", t), "at"), IF n <= 0 THEN 12 ELSE n)

\* DO NOTHING: a known accession keeps its filed_date.
MarkForm4Seen(db, ids, at) ==
  LET known == {x.id : x \in db.seen} IN
    [db EXCEPT !.seen = @ \cup {[id |-> a, at |-> at] : a \in ids \ (known \cup {""})}]
SeenForm4Since(db, since) == {x.id : x \in {y \in db.seen : y.at >= since}}

SaveFearGreed(db, r) == Merge(db, "greed", {"at"}, r, {"score"})
FearGreedHistory(db, n) == Reverse(Limited(Descending(db.greed, "at"), n))

SaveAISummary(db, r) == Merge(db, "digests", {"ticker", "day", "lang"}, r, {"v"})
GetAISummary(db, t, day, lang) == {x \in Of(db, "digests", t) : x.day = day /\ x.lang = lang}

SaveDeepReport(db, r, now) ==
  Merge(db, "reports", {"ticker", "lang"}, [r EXCEPT !.at = now], {"v", "at"})
GetDeepReport(db, t, lang) == {x \in Of(db, "reports", t) : x.lang = lang}

-----------------------------------------------------------------------------
(* What a user keeps. *)

Watchlist(db, u) == Ascending({x \in db.watch : x.user = u}, "at")
AllWatchlistTickers(db) == {x.ticker : x \in db.watch}
AddToWatchlist(db, u, t, now) ==
  Merge(db, "watch", {"user", "ticker"}, [user |-> u, ticker |-> t, at |-> now], {})
RemoveFromWatchlist(db, u, t) == Drop(db, "watch", LAMBDA x : x.user = u /\ x.ticker = t)

\* The id is the primary key: saved again, a link keeps its ticker and its created_at.
SaveClip(db, r) == Merge(db, "clips", {"id"}, r, {"title"})
ListClips(db, u, t, n) == Limited(Descending({x \in Of(db, "clips", t) : x.user = u}, "at"), n)

SaveNote(db, r) ==
  Merge(db, "notes", {"id"}, r, {"ticker", "date", "body", "pinned", "edited"})
\* A note without a date (0) is on no day; pinned first, then newest.
ListNotes(db, u, t, from, to, n) ==
  LET onDay(x) == /\ from > 0 => x.date # 0 /\ x.date >= from
                  /\ to > 0 => x.date # 0 /\ x.date <= to
      wanted == {x \in db.notes : x.user = u /\ (t # "" => x.ticker = t) /\ onDay(x)} IN
    Limited(Descending({x \in wanted : x.pinned}, "at") \o
            Descending({x \in wanted : ~x.pinned}, "at"), n)
\* COALESCE($3, body): a field the request leaves out keeps its value.
UpdateNote(db, u, id, body, pinned, now) ==
  Update(db, "notes", LAMBDA x : x.id = id /\ x.user = u,
         LAMBDA x : [x EXCEPT !.body = CHOOSE b \in (IF body = {} THEN {@} ELSE body) : TRUE,
                              !.pinned = CHOOSE p \in (IF pinned = {} THEN {@} ELSE pinned) : TRUE,
                              !.edited = now])
\* Mutant: whoever knows the id deletes the note.
DeleteAnyNote(db, u, id) == Drop(db, "notes", LAMBDA x : x.id = id)
DeleteNote(db, u, id) == Drop(db, "notes", LAMBDA x : x.id = id /\ x.user = u)

\* A new row's triggered_at is NULL (0); an upsert touches neither it nor created_at.
SaveAlert(db, r) ==
  Merge(db, "alerts", {"id"}, [r EXCEPT !.fired = 0], {"ticker", "kind", "active"})
ListAlerts(db, u) == Descending({x \in db.alerts : x.user = u}, "at")
DeleteAlert(db, u, id) == Drop(db, "alerts", LAMBDA x : x.id = id /\ x.user = u)
ReactivateAlert(db, u, id) ==
  Update(db, "alerts", LAMBDA x : x.id = id /\ x.user = u,
         LAMBDA x : [x EXCEPT !.active = TRUE, !.fired = 0])
ListActiveAlerts(db) == {x \in db.alerts : x.active /\ x.fired = 0}
MarkAlertTriggered(db, id, at) ==
  Update(db, "alerts", LAMBDA x : x.id = id /\ x.fired = 0, LAMBDA x : [x EXCEPT !.fired = at])

SaveHolding(db, r) == Merge(db, "holdings", {"user", "ticker"}, r, {"shares", "edited"})
ListHoldings(db, u) == {x \in db.holdings : x.user = u}
DeleteHolding(db, u, id) == Drop(db, "holdings", LAMBDA x : x.id = id /\ x.user = u)

GetPrefs(db, u) == {x \in db.prefs : x.user = u}
PutPrefs(db, u, blob) == Merge(db, "prefs", {"user"}, [user |-> u, blob |-> blob], {"blob"})

-----------------------------------------------------------------------------
(* Meters, conversations, billing, comments. *)

\* One table per meter; only the token meter refuses an empty cost.
Used(db, meter, u, period) ==
  LET row == {x \in db.meters : x.meter = meter /\ x.user = u /\ x.period = period} IN
    IF row = {} THEN 0 ELSE (CHOOSE x \in row : TRUE).n
Incr(db, meter, u, period, n) ==
  IF n <= 0 THEN db
  ELSE Merge(db, "meters", {"meter", "user", "period"},
             [meter |-> meter, user |-> u, period |-> period, n |-> Used(db, meter, u, period) + n],
             {"n"})

AppendChatMessage(db, r, now) ==
  Update([db EXCEPT !.msgs = @ \cup {[r EXCEPT !.at = now]}],
         "convs", LAMBDA x : x.id = r.conv, LAMBDA x : [x EXCEPT !.bumped = now])
ListChatMessages(db, id, n) ==
  Reverse(Limited(Descending({x \in db.msgs : x.conv = id}, "at"), IF n <= 0 THEN 100 ELSE n))
ClearChatMessages(db, id) == Drop(db, "msgs", LAMBDA x : x.conv = id)

CreateConversation(db, u, title, anchor, id, now) ==
  [db EXCEPT !.convs = @ \cup {[id |-> id, user |-> u, title |-> title, anchor |-> anchor,
                                at |-> now, bumped |-> now]}]
\* No row of an older version is there to be given a conversation.
GetOrCreateStockConversation(db, u, t, id, now) ==
  IF Has(db, "convs", LAMBDA x : x.user = u /\ x.anchor = t) THEN db
  ELSE CreateConversation(db, u, t, t, id, now)
ListConversations(db, u) == Descending({x \in db.convs : x.user = u}, "bumped")
GetConversation(db, u, id) == {x \in db.convs : x.id = id /\ x.user = u}
RenameConversation(db, u, id, title, now) ==
  Update(db, "convs", LAMBDA x : x.id = id /\ x.user = u,
         LAMBDA x : [x EXCEPT !.title = title, !.bumped = now])
DeleteConversation(db, u, id) ==
  Drop(Drop(db, "msgs", LAMBDA x : x.conv = id /\ x.user = u),
       "convs", LAMBDA x : x.id = id /\ x.user = u)

GetSubscription(db, u) == {x \in db.subs : x.user = u}
GetSubscriptionByCustomer(db, c) == {x \in db.subs : x.customer = c}
ListProSubscriptions(db) ==
  {x \in db.subs : x.tier = "pro" \/ x.status \in {"active", "trialing", "past_due"}}
UpsertSubscription(db, r, now) ==
  Merge(db, "subs", {"user"}, [r EXCEPT !.end = IF @ = 0 THEN now ELSE @],
        {"customer", "status", "tier", "end"})
MarkStripeEventSeen(db, e) == [db EXCEPT !.events = @ \cup {e}]
StripeEventSeen(db, e) == e \in db.events

SaveFunnelEvent(db, r, now) == [db EXCEPT !.funnel = @ \cup {[r EXCEPT !.at = now]}]
FunnelSummary(db, since) ==
  LET recent == {x \in db.funnel : x.at >= since}
      groups == {<<x.event, x.surface>> : x \in recent} IN
    {[event |-> g[1], surface |-> g[2],
      n |-> Cardinality({x \in recent : x.event = g[1] /\ x.surface = g[2]})] : g \in groups}

Mention(db, id, tickers) ==
  [db EXCEPT !.mentions = @ \cup {[comment |-> id, ticker |-> t] : t \in tickers}]
SaveComment(db, r) ==
  Mention([db EXCEPT !.comments = @ \cup
             {[id |-> r.id, user |-> r.user, ticker |-> r.ticker, body |-> r.body, at |-> r.at,
               edited |-> 0, deleted |-> FALSE, reports |-> 0]}],
          r.id, r.mentions)
LikesOf(db, id) == {x.user : x \in {y \in db.likes : y.comment = id}}
\* An anonymous viewer binds NULL, which no like's user equals.
ListComments(db, t, n, viewer) ==
  LET about(x) == x.ticker = t \/ (t # "" /\ [comment |-> x.id, ticker |-> t] \in db.mentions) IN
    Limited(Descending(
      {[id |-> x.id, user |-> x.user, ticker |-> x.ticker, body |-> x.body, at |-> x.at,
        edited |-> x.edited, likes |-> Cardinality(LikesOf(db, x.id)),
        liked |-> viewer \in LikesOf(db, x.id)] :
          x \in {y \in db.comments : about(y) /\ ~y.deleted}}, "at"), n)
DeleteComment(db, id, u, admin) ==
  Update(db, "comments", LAMBDA x : x.id = id /\ ~x.deleted /\ (admin \/ x.user = u),
         LAMBDA x : [x EXCEPT !.deleted = TRUE])
UpdateComment(db, id, u, body, mentions, now) ==
  IF ~Has(db, "comments", LAMBDA x : x.id = id /\ x.user = u /\ ~x.deleted) THEN db
  ELSE Mention(Drop(Update(db, "comments", LAMBDA x : x.id = id,
                           LAMBDA x : [x EXCEPT !.body = body, !.edited = now]),
                    "mentions", LAMBDA x : x.comment = id),
               id, mentions)
LikeComment(db, id, u) ==
  LET like == [comment |-> id, user |-> u] IN
    IF ~Has(db, "comments", LAMBDA x : x.id = id /\ ~x.deleted) THEN db
    ELSE [db EXCEPT !.likes = IF like \in @ THEN @ \ {like} ELSE @ \cup {like}]
ReportComment(db, id) ==
  Update(db, "comments", LAMBDA x : x.id = id /\ ~x.deleted, LAMBDA x : [x EXCEPT !.reports = @ + 1])

-----------------------------------------------------------------------------
(* prune.go *)

Hot(db) == {x.ticker : x \in db.hotlist}
PruneNews(db, before, hotBefore) ==
  Drop(db, "news", LAMBDA x : x.at < before /\ ~(x.ticker \in Hot(db) /\ x.at >= hotBefore))
PruneSocial(db, before, hotBefore, protect) ==
  Drop(db, "social", LAMBDA x : /\ x.at < before
                                /\ x.source \notin protect
                                /\ ~(x.ticker \in Hot(db) /\ x.at >= hotBefore))
PruneFilings(db, before) == Drop(db, "filings", LAMBDA x : x.at < before)
PruneInsiderBuys(db, before) == Drop(db, "insiders", LAMBDA x : x.at < before)
PruneSeenForm4(db, before) == Drop(db, "seen", LAMBDA x : x.at < before)
\* row_number() over the unprotected rows of a ticker, newest first.
CapPerTicker(db, table, n, protect) ==
  LET ranked(x) == Descending({y \in db[table] : y.ticker = x.ticker /\ y.source \notin protect}, "at")
      kept(x) == ToSet(Limited(ranked(x), n)) IN
    IF n <= 0 THEN db
    ELSE Drop(db, table, LAMBDA x : x.source \notin protect /\ x \notin kept(x))
=============================================================================
