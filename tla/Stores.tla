------------------------------- MODULE Stores -------------------------------
(***************************************************************************)
(* The two deployments of the server's store, side by side.  `mem` is the  *)
(* in-memory store of a server without a database; `pg` are the two        *)
(* Postgres databases of a deployed one, the durable market database and   *)
(* the cheaper user database, between which store.Split routes every       *)
(* method.  Both servers are given the same requests and the same          *)
(* collected data; a handler's request is one action, with what it checks  *)
(* and normalises before the store is called.                              *)
(*                                                                         *)
(* An id is the moment it was made at (`now`), for the code's random ones; *)
(* a clip's is made of the user and the link.  Bounds: MaxCalls[f] calls,  *)
(* of one family f of tables per behaviour.  Assumed: the store answers,   *)
(* one request at a time, and the rows of a ticker differ in time.         *)
(***************************************************************************)
EXTENDS Naturals, FiniteSets, SequencesExt

CONSTANTS Users, Spellings, Key(_), Families, MaxCalls

\* "none", "admin" and "loss" stand for the jobs, an administrator and a lost database; "" is
\* nobody.
ASSUME UsersAssumption == Users \cap {"none", "admin", "loss", ""} = {}
\* key() trims and folds: what it spells it spells the same again. Blank tickers are refused.
ASSUME KeyAssumption ==
  Key("") = "" /\ \A t \in Spellings : Key(t) # "" /\ Key(Key(t)) = Key(t)
\* Nobody's customer id is blank.
ASSUME CustomerAssumption == \A u \in Users : "cus" \o u # ""

VARIABLES mem, pg, now, family, actor

storeVars == <<mem, pg, now, family, actor>>

M == INSTANCE MemoryStore
P == INSTANCE PostgresStore

Tickers == {Key(t) : t \in Spellings}
Values == 1..2
Optional(S) == {{}} \cup {{x} : x \in S}

\* Split: what is cheap to rebuild is in the user database, the rest in the market one.
UserMethods ==
  {"Watchlist", "AddToWatchlist", "RemoveFromWatchlist", "AllWatchlistTickers", "SaveClip",
   "ListClips", "SaveNote", "ListNotes", "UpdateNote", "DeleteNote", "SaveAlert", "ListAlerts",
   "DeleteAlert", "ReactivateAlert", "ListActiveAlerts", "MarkAlertTriggered", "SaveHolding",
   "ListHoldings", "DeleteHolding", "GetPrefs", "PutPrefs", "GetMeter", "IncrMeter",
   "AppendChatMessage", "ListChatMessages", "ClearChatMessages",
   "GetOrCreateStockConversation", "CreateConversation", "ListConversations",
   "GetConversation", "RenameConversation", "DeleteConversation"}
Route(method) == IF method \in UserMethods THEN "user" ELSE "market"
On(method) == pg[Route(method)]

\* The tables whose loss the code accepts: per-user state.
Rebuildable == P!KeptTables \cup {"msgs", "convs"}

StoresInit ==
  /\ mem = M!EmptyDb
  /\ pg = [d \in {"market", "user"} |-> P!EmptyDb]
  /\ now = 1
  /\ family \in Families
  /\ actor = "none"

\* One method called on both deployments for `who` ("none": the server's own jobs).
Call(f, who, method, m, Op(_)) ==
  /\ family = f /\ now <= MaxCalls[f]
  /\ mem' = m
  /\ pg' = [pg EXCEPT ![Route(method)] = Op(@)]
  /\ actor' = who
  /\ now' = now + 1
  /\ UNCHANGED family

Ids == 1..now   \* of a row that is there, was there or is another user's

-----------------------------------------------------------------------------
(* What the jobs collect. *)

SaveSecurity ==
  \E t \in Tickers, v \in Values :
    LET r == [ticker |-> t, v |-> v] IN
      Call("facts", "none", "UpsertSecurity", M!UpsertSecurity(mem, r), LAMBDA d : P!UpsertSecurity(d, r))
SaveQuote ==
  \E t \in Tickers, v \in Values :
    LET r == [ticker |-> t, v |-> v] IN
      Call("facts", "none", "UpsertQuote", M!UpsertQuote(mem, r), LAMBDA d : P!UpsertQuote(d, r))
SaveSignal ==
  \E t \in Tickers, s \in {"wsb", "apewisdom"}, v \in Values :
    LET rows == <<[ticker |-> t, source |-> s, v |-> v]>> IN
      Call("facts", "none", "SaveSignals", M!SaveSignals(mem, rows), LAMBDA d : P!SaveSignals(d, rows))
SaveEarning ==
  \E t \in Tickers, day \in Values, v \in Values :
    LET rows == <<[ticker |-> t, at |-> day, v |-> v]>> IN
      Call("facts", "none", "SaveEarnings", M!SaveEarnings(mem, rows), LAMBDA d : P!SaveEarnings(d, rows))

\* A filing, like a news item and a post, has a time of its own: its id.
SaveFiling ==
  \E t \in Tickers, id \in 1..now, v \in Values :
    LET rows == <<[ticker |-> t, id |-> id, at |-> id, v |-> v]>> IN
      Call("filed", "none", "SaveFilings", M!SaveFilings(mem, rows), LAMBDA d : P!SaveFilings(d, rows))
SaveInsiderBuy ==
  \E t \in Tickers, id \in 1..now :
    LET rows == <<[ticker |-> t, id |-> id, at |-> id, v |-> 1]>> IN
      Call("filed", "none", "SaveInsiderBuys", M!SaveInsiderBuys(mem, rows),
           LAMBDA d : P!SaveInsiderBuys(d, rows))
MarkSeen ==
  \E ids \in SUBSET {"", "f4"}, day \in 1..now :
    /\ "f4" \in ids => \A x \in mem.seen : x.id = "f4" => x.at = day  \* an accession has one day
    /\ Call("filed", "none", "MarkForm4Seen", M!MarkForm4Seen(mem, ids, day),
            LAMBDA d : P!MarkForm4Seen(d, ids, day))
PruneFiled ==
  \E before \in 1..now :
    \/ Call("filed", "none", "PruneFilings", M!PruneAt(mem, "filings", before), LAMBDA d : P!PruneFilings(d, before))
    \/ Call("filed", "none", "PruneInsiderBuys", M!PruneAt(mem, "insiders", before), LAMBDA d : P!PruneInsiderBuys(d, before))
    \/ Call("filed", "none", "PruneSeenForm4", M!PruneAt(mem, "seen", before), LAMBDA d : P!PruneSeenForm4(d, before))

SaveNewsItem ==
  \E t \in Tickers, id \in 1..now, v \in Values :
    LET rows == <<[ticker |-> t, id |-> id, at |-> id, source |-> "wire", zh |-> "", v |-> v]>> IN
      Call("news", "none", "SaveNews", M!SaveNews(mem, rows), LAMBDA d : P!SaveNews(d, rows))
Translate ==
  \E x \in ToSet(M!ListUntranslatedNews(mem, 2)) :
    Call("news", "none", "SetNewsTranslation", M!SetNewsTranslation(mem, x.ticker, x.id, "zh"),
         LAMBDA d : P!SetNewsTranslation(d, x.ticker, x.id, "zh"))
PruneNewsItems ==
  \E before \in 1..now : \E hotBefore \in 1..before :
    Call("news", "none", "PruneNews", M!PruneNews(mem, before, hotBefore),
         LAMBDA d : P!PruneNews(d, before, hotBefore))
CapNews ==
  Call("news", "none", "CapPerTicker", M!CapPerTicker(mem, "news", 1, {}),
       LAMBDA d : P!CapPerTicker(d, "news", 1, {}))

SavePost ==
  \E t \in Tickers, id \in 1..now, s \in {"substack", "reddit"} :
    LET rows == <<[ticker |-> t, id |-> id, at |-> id, source |-> s, v |-> 1]>> IN
      Call("social", "none", "SaveSocial", M!SaveSocial(mem, rows), LAMBDA d : P!SaveSocial(d, rows))
PrunePosts ==
  \E before \in 1..now : \E hotBefore \in 1..before :
    Call("social", "none", "PruneSocial", M!PruneSocial(mem, before, hotBefore, {"substack"}),
         LAMBDA d : P!PruneSocial(d, before, hotBefore, {"substack"}))
CapPosts ==
  Call("social", "none", "CapPerTicker", M!CapPerTicker(mem, "social", 1, {"substack"}),
       LAMBDA d : P!CapPerTicker(d, "social", 1, {"substack"}))
\* A board without a ticker twice.
SaveBoard ==
  \E board \in {"all", "wsb"}, tickers \in {s \in UNION {[1..n -> Tickers] : n \in 0..2} : IsInjective(s)} :
    LET rows == [i \in DOMAIN tickers |-> [board |-> board, ticker |-> tickers[i], rank |-> i]] IN
      Call(family, "none", "SaveHotList", M!SaveHotList(mem, board, rows),
           LAMBDA d : P!SaveHotList(d, board, rows))
SaveBoards == family \in {"news", "social"} /\ SaveBoard

SaveScore ==
  \E day \in Values, score \in Values :
    LET r == [at |-> day, score |-> score] IN
      Call("texts", "none", "SaveFearGreed", M!SaveFearGreed(mem, r), LAMBDA d : P!SaveFearGreed(d, r))
SaveReport ==
  \E t \in Tickers, lang \in {"zh", "en"}, v \in Values :
    LET r == [ticker |-> t, lang |-> lang, v |-> v, at |-> 0] IN
      Call("texts", "none", "SaveDeepReport", M!SaveDeepReport(mem, r, now),
           LAMBDA d : P!SaveDeepReport(d, r, now))
SaveDigest ==
  \E t \in Tickers, day \in Values, v \in Values :
    LET r == [ticker |-> t, day |-> day, lang |-> "zh", v |-> v] IN
      Call("texts", "none", "SaveAISummary", M!SaveAISummary(mem, r), LAMBDA d : P!SaveAISummary(d, r))

-----------------------------------------------------------------------------
(* What a user's requests keep. *)

PostWatchlist ==
  \E u \in Users, t \in Spellings :
    Call("kept", u, "AddToWatchlist", M!AddToWatchlist(mem, u, Key(t), now),
         LAMBDA d : P!AddToWatchlist(d, u, Key(t), now))
DeleteWatchlist ==
  \E u \in Users, t \in Spellings :
    Call("kept", u, "RemoveFromWatchlist", M!RemoveFromWatchlist(mem, u, Key(t)),
         LAMBDA d : P!RemoveFromWatchlist(d, u, Key(t)))
\* The handler overlays the posted keys on the blob it read.
PutMyPrefs ==
  \E u \in Users, k \in {"indicators", "chat"}, v \in Values :
    LET blobs == {x.blob : x \in M!GetPrefs(mem, u)}
        pgBlobs == {x.blob : x \in P!GetPrefs(On("GetPrefs"), u)}
        merged(B) == [[j \in {"indicators", "chat"} |-> 0] EXCEPT ![k] = v] IN
      Call("kept", u, "PutPrefs",
           M!PutPrefs(mem, u, IF blobs = {} THEN merged(blobs)
                              ELSE [(CHOOSE b \in blobs : TRUE) EXCEPT ![k] = v]),
           LAMBDA d : P!PutPrefs(d, u, IF pgBlobs = {} THEN merged(pgBlobs)
                                       ELSE [(CHOOSE b \in pgBlobs : TRUE) EXCEPT ![k] = v]))

\* A link is saved once here: saved again, it gets a new ticker and time in memory only.
PostClip ==
  \E u \in Users, t \in Spellings, url \in {"link"}, title \in Values :
    LET r == [id |-> <<u, url>>, user |-> u, ticker |-> Key(t), title |-> title, at |-> now] IN
      /\ \A x \in mem.clips : x.id # r.id
      /\ Call("clips", u, "SaveClip", M!SaveClip(mem, r), LAMBDA d : P!SaveClip(d, r))

PostNote ==
  \E u \in Users, t \in Spellings \cup {""}, date \in 0..1, pinned \in BOOLEAN :
    LET r == [id |-> now, user |-> u, ticker |-> IF t = "" THEN "" ELSE Key(t), date |-> date,
              body |-> 0, pinned |-> pinned, at |-> now, edited |-> now] IN
      Call("notes", u, "SaveNote", M!SaveNote(mem, r), LAMBDA d : P!SaveNote(d, r))
PatchNote ==
  \E u \in Users, id \in Ids, body \in Optional({1}), pinned \in Optional(BOOLEAN) :
    Call("notes", u, "UpdateNote", M!UpdateNote(mem, u, id, body, pinned, now),
         LAMBDA d : P!UpdateNote(d, u, id, body, pinned, now))
DeleteNote ==
  \E u \in Users, id \in Ids :
    Call("notes", u, "DeleteNote", M!DeleteNote(mem, u, id), LAMBDA d : P!DeleteNote(d, u, id))

PostAlert ==
  \E u \in Users, t \in Spellings :
    LET r == [id |-> now, user |-> u, ticker |-> Key(t), kind |-> "price_above", active |-> TRUE,
              at |-> now, fired |-> 0] IN
      Call("alerts", u, "SaveAlert", M!SaveAlert(mem, r), LAMBDA d : P!SaveAlert(d, r))
ReactivateAlert ==
  \E u \in Users, id \in Ids :
    Call("alerts", u, "ReactivateAlert", M!ReactivateAlert(mem, u, id), LAMBDA d : P!ReactivateAlert(d, u, id))
DeleteAlert ==
  \E u \in Users, id \in Ids :
    Call("alerts", u, "DeleteAlert", M!DeleteAlert(mem, u, id), LAMBDA d : P!DeleteAlert(d, u, id))
\* The evaluator fires an alert of the list it was given.
FireAlert ==
  \E a \in M!ListActiveAlerts(mem) :
    Call("alerts", "none", "MarkAlertTriggered", M!MarkAlertTriggered(mem, a.id, now),
         LAMBDA d : P!MarkAlertTriggered(d, a.id, now))

PostHolding ==
  \E u \in Users, t \in Spellings, shares \in Values :
    LET r == [id |-> now, user |-> u, ticker |-> Key(t), shares |-> shares, at |-> now, edited |-> now] IN
      Call("holdings", u, "SaveHolding", M!SaveHolding(mem, r), LAMBDA d : P!SaveHolding(d, r))
DeleteHolding ==
  \E u \in Users, id \in Ids :
    Call("holdings", u, "DeleteHolding", M!DeleteHolding(mem, u, id), LAMBDA d : P!DeleteHolding(d, u, id))

-----------------------------------------------------------------------------
(* Meters, conversations, billing, the funnel, comments. *)

Spend ==
  \E u \in Users, meter \in {"deep", "chat", "tokens", "backtest"}, n \in 0..2 :
    /\ meter # "tokens" => n = 1
    /\ LET period == IF meter = "backtest" THEN "ever" ELSE "month" IN
         Call("meters", u, "IncrMeter", M!Incr(mem, meter, u, period, n),
              LAMBDA d : P!Incr(d, meter, u, period, n))

PostConversation ==
  \E u \in Users, t \in Spellings \cup {""} :
    IF t = ""
    THEN Call("chat", u, "CreateConversation", M!CreateConversation(mem, u, "New chat", "", now, now),
              LAMBDA d : P!CreateConversation(d, u, "New chat", "", now, now))
    ELSE Call("chat", u, "GetOrCreateStockConversation",
              M!GetOrCreateStockConversation(mem, u, Key(t), now, now),
              LAMBDA d : P!GetOrCreateStockConversation(d, u, Key(t), now, now))
\* A turn is kept in a conversation the handler has found to be the caller's.
AppendTurn ==
  \E u \in Users, id \in Ids : \E c \in M!GetConversation(mem, u, id) :
    LET r == [conv |-> id, user |-> u, at |-> 0] IN
      Call("chat", u, "AppendChatMessage", M!AppendChatMessage(mem, r, now),
           LAMBDA d : P!AppendChatMessage(d, r, now))
PatchConversation ==
  \E u \in Users, id \in Ids :
    Call("chat", u, "RenameConversation", M!RenameConversation(mem, u, id, "renamed", now),
         LAMBDA d : P!RenameConversation(d, u, id, "renamed", now))
DeleteConversation ==
  \E u \in Users, id \in Ids :
    Call("chat", u, "DeleteConversation", M!DeleteConversation(mem, u, id),
         LAMBDA d : P!DeleteConversation(d, u, id))
\* deleteChat: the thread of a stock is emptied, when there is one.
ClearStockThread ==
  \E u \in Users, t \in Spellings : \E c \in {x \in mem.convs : x.user = u /\ x.anchor = Key(t)} :
    Call("chat", u, "ClearChatMessages", M!ClearChatMessages(mem, c.id),
         LAMBDA d : P!ClearChatMessages(d, c.id))

\* A row without a customer is one made by hand.
SaveSubscription ==
  \E u \in Users, cus \in {"cus", ""}, tier \in {"pro", "free"}, status \in {"active", "canceled"}, end \in 0..1 :
    LET r == [user |-> u, customer |-> IF cus = "" THEN "" ELSE cus \o u, tier |-> tier,
              status |-> status, end |-> end] IN
      Call("billing", "none", "UpsertSubscription", M!UpsertSubscription(mem, r, now),
           LAMBDA d : P!UpsertSubscription(d, r, now))
SeeEvent ==
  \E e \in {"evt"} :
    Call("billing", "none", "MarkStripeEventSeen", M!MarkStripeEventSeen(mem, e),
         LAMBDA d : P!MarkStripeEventSeen(d, e))
\* An event that is not one of the funnel's is dropped, a surface that is not becomes "".
PostEvent ==
  \E e \in {"pro_view", "paywall_view"}, s \in {"chat", ""} :
    LET r == [id |-> now, event |-> e, surface |-> s, at |-> 0] IN
      Call("billing", "none", "SaveFunnelEvent", M!SaveFunnelEvent(mem, r, now),
           LAMBDA d : P!SaveFunnelEvent(d, r, now))

PostComment ==
  \E u \in Users, t \in Spellings \cup {""}, mentions \in SUBSET Tickers :
    LET r == [id |-> now, user |-> u, ticker |-> IF t = "" THEN "" ELSE Key(t), body |-> 0,
              at |-> now, edited |-> 0, mentions |-> mentions] IN
      Call("comments", u, "SaveComment", M!SaveComment(mem, r), LAMBDA d : P!SaveComment(d, r))
PatchComment ==
  \E u \in Users, id \in Ids, mentions \in SUBSET Tickers :
    Call("comments", u, "UpdateComment", M!UpdateComment(mem, id, u, 1, mentions, now),
         LAMBDA d : P!UpdateComment(d, id, u, 1, mentions, now))
DeleteComment ==
  \E u \in Users, id \in Ids, admin \in BOOLEAN :
    Call("comments", IF admin THEN "admin" ELSE u, "DeleteComment", M!DeleteComment(mem, id, u, admin),
         LAMBDA d : P!DeleteComment(d, id, u, admin))
LikeComment ==
  \E u \in Users, id \in Ids :
    Call("comments", u, "LikeComment", M!LikeComment(mem, id, u), LAMBDA d : P!LikeComment(d, id, u))
ReportComment ==
  \E u \in Users, id \in Ids :
    Call("comments", u, "ReportComment", mem, LAMBDA d : P!ReportComment(d, id))

-----------------------------------------------------------------------------
\* The cheap database is lost and made anew; the durable one is not.
LoseUserDatabase ==
  /\ now <= MaxCalls[family]
  /\ mem' = [t \in DOMAIN mem |-> IF t \in Rebuildable THEN {} ELSE mem[t]]
  /\ pg' = [pg EXCEPT !.user = P!EmptyDb]
  /\ actor' = "loss" /\ now' = now + 1
  /\ UNCHANGED family

Collect ==
  \/ SaveSecurity \/ SaveQuote \/ SaveSignal \/ SaveEarning
  \/ SaveFiling \/ SaveInsiderBuy \/ MarkSeen \/ PruneFiled
  \/ SaveNewsItem \/ Translate \/ PruneNewsItems \/ CapNews
  \/ SavePost \/ PrunePosts \/ CapPosts \/ SaveBoards
  \/ SaveScore \/ SaveReport \/ SaveDigest
Keep ==
  \/ PostWatchlist \/ DeleteWatchlist \/ PutMyPrefs \/ PostClip
  \/ PostNote \/ PatchNote \/ DeleteNote
  \/ PostAlert \/ ReactivateAlert \/ DeleteAlert \/ FireAlert
  \/ PostHolding \/ DeleteHolding
Converse ==
  \/ Spend \/ PostConversation \/ AppendTurn \/ PatchConversation \/ DeleteConversation \/ ClearStockThread
  \/ SaveSubscription \/ SeeEvent \/ PostEvent
  \/ PostComment \/ PatchComment \/ DeleteComment \/ LikeComment \/ ReportComment
StoresNext == Collect \/ Keep \/ Converse \/ LoseUserDatabase

StoresSpec == StoresInit /\ [][StoresNext]_storeVars

-----------------------------------------------------------------------------
StoresTypeOK ==
  /\ DOMAIN mem = M!TableNames
  /\ DOMAIN pg = {"market", "user"} /\ \A d \in DOMAIN pg : DOMAIN pg[d] = P!TableNames
  /\ actor \in Users \cup {"none", "admin", "loss"}
  /\ family \in Families
  /\ now \in 1..(MaxCalls[family] + 1)

Limits == 0..1

\* The answers of both deployments to every query of the family's tables; the other tables
\* are empty.
Agree(f) ==
  CASE f = "facts" ->
         /\ \A t \in Tickers :
              /\ M!GetSecurity(mem, t) = P!GetSecurity(On("GetSecurity"), t)
              /\ M!GetQuote(mem, t) = P!GetQuote(On("GetQuote"), t)
              /\ M!ListSignals(mem, t) = P!ListSignals(On("ListSignals"), t)
              /\ \A n \in Limits :
                   M!ListEarningsForTicker(mem, t, n) = P!ListEarningsForTicker(On("ListEarningsForTicker"), t, n)
         /\ \A since \in 1..now : M!ListEarnings(mem, since, now) = P!ListEarnings(On("ListEarnings"), since, now)
    [] f = "filed" ->
         /\ \A t \in Tickers, n \in Limits : M!ListFilings(mem, t, n) = P!ListFilings(On("ListFilings"), t, n)
         /\ \A since \in 1..now :
              /\ M!RecentInsiderBuys(mem, since) = P!RecentInsiderBuys(On("RecentInsiderBuys"), since)
              /\ M!SeenForm4Since(mem, since) = P!SeenForm4Since(On("SeenForm4Since"), since)
    [] f \in {"news", "social"} ->
         \A n \in Limits :
           /\ \A t \in Tickers :
                /\ M!ListNews(mem, t, n) = P!ListNews(On("ListNews"), t, n)
                /\ M!ListSocial(mem, t, n) = P!ListSocial(On("ListSocial"), t, n)
           /\ M!ListUntranslatedNews(mem, n) = P!ListUntranslatedNews(On("ListUntranslatedNews"), n)
           /\ \A b \in {"all", "wsb"} : M!HotList(mem, b, n) = P!HotList(On("HotList"), b, n)
    [] f = "texts" ->
         /\ \A n \in Limits : M!FearGreedHistory(mem, n) = P!FearGreedHistory(On("FearGreedHistory"), n)
         /\ \A t \in Tickers, lang \in {"zh", "en"} :
              /\ M!GetDeepReport(mem, t, lang) = P!GetDeepReport(On("GetDeepReport"), t, lang)
              /\ \A day \in Values :
                   M!GetAISummary(mem, t, day, lang) = P!GetAISummary(On("GetAISummary"), t, day, lang)
    [] f = "kept" ->
         /\ M!AllWatchlistTickers(mem) = P!AllWatchlistTickers(On("AllWatchlistTickers"))
         /\ \A u \in Users : /\ M!Watchlist(mem, u) = P!Watchlist(On("Watchlist"), u)
                             /\ M!GetPrefs(mem, u) = P!GetPrefs(On("GetPrefs"), u)
    [] f = "clips" ->
         \A u \in Users, t \in Tickers, n \in Limits :
           M!ListClips(mem, u, t, n) = P!ListClips(On("ListClips"), u, t, n)
    [] f = "notes" ->
         \A u \in Users, t \in Tickers \cup {""}, n \in Limits, from, to \in 0..1 :
           M!ListNotes(mem, u, t, from, to, n) = P!ListNotes(On("ListNotes"), u, t, from, to, n)
    [] f = "alerts" ->
         /\ M!ListActiveAlerts(mem) = P!ListActiveAlerts(On("ListActiveAlerts"))
         /\ \A u \in Users : M!ListAlerts(mem, u) = P!ListAlerts(On("ListAlerts"), u)
    [] f = "holdings" -> \A u \in Users : M!ListHoldings(mem, u) = P!ListHoldings(On("ListHoldings"), u)
    [] f = "meters" ->
         \A u \in Users, m \in {"deep", "chat", "tokens", "backtest"}, p \in {"month", "ever"} :
           M!Used(mem, m, u, p) = P!Used(On("GetMeter"), m, u, p)
    [] f = "chat" ->
         /\ \A u \in Users :
              /\ M!ListConversations(mem, u) = P!ListConversations(On("ListConversations"), u)
              /\ \A id \in Ids : M!GetConversation(mem, u, id) = P!GetConversation(On("GetConversation"), u, id)
         /\ \A id \in Ids, n \in Limits :
              M!ListChatMessages(mem, id, n) = P!ListChatMessages(On("ListChatMessages"), id, n)
    [] f = "billing" ->
         /\ M!ListProSubscriptions(mem) = P!ListProSubscriptions(On("ListProSubscriptions"))
         /\ M!StripeEventSeen(mem, "evt") = P!StripeEventSeen(On("StripeEventSeen"), "evt")
         /\ \A since \in 1..now : M!FunnelSummary(mem, since) = P!FunnelSummary(On("FunnelSummary"), since)
         /\ \A u \in Users :
              /\ M!GetSubscription(mem, u) = P!GetSubscription(On("GetSubscription"), u)
              /\ M!GetSubscriptionByCustomer(mem, "cus" \o u) =
                   P!GetSubscriptionByCustomer(On("GetSubscriptionByCustomer"), "cus" \o u)
    [] f = "comments" ->
         \A u \in Users, t \in Tickers \cup {""}, n \in Limits :
           M!ListComments(mem, t, n, u) = P!ListComments(On("ListComments"), t, n, u)

\* BackendsAgree: whatever was saved, edited, pruned or deleted, and whether or not the user
\* database was lost, both deployments answer every query of the store alike, for tickers as
\* key() spells them (store.go: "every backend satisfies Store, so the rest of the app never
\* depends on a driver").
BackendsAgree == Agree(family)

\* What the deployed server shows user u of their own.
ViewOf(u) ==
  CASE family = "kept" -> <<P!Watchlist(On("Watchlist"), u), P!GetPrefs(On("GetPrefs"), u)>>
    [] family = "clips" -> [t \in Tickers |-> P!ListClips(On("ListClips"), u, t, 0)]
    [] family = "notes" -> P!ListNotes(On("ListNotes"), u, "", 0, 0, 0)
    [] family = "alerts" -> P!ListAlerts(On("ListAlerts"), u)
    [] family = "holdings" -> P!ListHoldings(On("ListHoldings"), u)
    [] family = "chat" ->
         <<P!ListConversations(On("ListConversations"), u),
           [id \in {c.id : c \in {x \in On("ListConversations").convs : x.user = u}} |->
              P!ListChatMessages(On("ListChatMessages"), id, 0)]>>
    [] family = "comments" -> {[x EXCEPT !.reports = 0] : x \in {y \in On("ListComments").comments : y.user = u}}
    [] OTHER -> <<>>

\* OthersUntouched: no request of a user, whatever id it names, changes what another user
\* keeps; only the user, an administrator, the jobs and the loss of the database do.
OthersUntouched ==
  [][\A u \in Users : actor' \in Users \ {u} => ViewOf(u)' = ViewOf(u)]_storeVars
=============================================================================
