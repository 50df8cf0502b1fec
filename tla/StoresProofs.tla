---------------------------- MODULE StoresProofs ----------------------------
(***************************************************************************)
(* What users own and what both deployments answer, for any users,         *)
(* tickers and number of calls. A behaviour is of one family of tables.    *)
(*                                                                         *)
(* No request of a user changes what another keeps (OthersUntouched): for  *)
(* each family there is an invariant of its rows (KeptInv, ...) and a      *)
(* lemma by which a request leaves the rows of the other users as they     *)
(* are, and what a user is shown depends on those rows only.               *)
(*                                                                         *)
(* Both deployments agree on seven families: the rows of the memory store  *)
(* are those of Postgres (KeptTwin, ...), for comments those not deleted,  *)
(* each with its mentions, and then every query answers alike.             *)
(***************************************************************************)
EXTENDS Stores, TLAPS

-----------------------------------------------------------------------------
(* Tables. *)

LEMMA TheTables == P!TableNames = {"securities", "quotes", "filings", "news", "social", "signals",
  "hotlist", "insiders", "earnings", "seen", "greed", "digests", "reports", "watch", "clips", "notes",
  "alerts", "holdings", "prefs", "meters", "comments", "mentions", "likes", "subs", "events", "msgs",
  "convs", "funnel"}
BY DEF P!TableNames, P!CollectedTables, P!MadeTables, P!KeptTables, P!SharedTables

IsDb(db) == DOMAIN db = P!TableNames

\* Every row has an owner, and an id older than n.
Owned(db, t) == \A x \in db[t] : "user" \in DOMAIN x
Numbered(db, t, n) == \A x \in db[t] : {"user", "id"} \subseteq DOMAIN x /\ x.id \in 0..(n - 1)

\* The rows of a table that are u's.
RowsOf(db, t, u) == {x \in db[t] : x.user = u}

OthersKept(db, new, t, u) == \A v \in Users \ {u} : RowsOf(new, t, v) = RowsOf(db, t, v)

\* One table has changed, and of its rows only u's.
OwnStep(db, new, t, u) ==
  /\ IsDb(new) /\ \A s \in P!TableNames \ {t} : new[s] = db[s]
  /\ Owned(db, t) => Owned(new, t)
  /\ OthersKept(db, new, t, u)

LEMMA OwnRowsReplaced ==
  ASSUME NEW db, NEW new, NEW t, NEW u, \A x \in new[t] : x.user = u \/ x \in db[t],
         \A x \in db[t] : x.user = u \/ x \in new[t]
  PROVE  OthersKept(db, new, t, u)
BY DEF OthersKept, RowsOf

\* An upsert whose key determines the owner.
LEMMA MergeOwn ==
  ASSUME NEW db, NEW t \in P!TableNames, NEW key, NEW r, NEW cols, NEW u, IsDb(db), Owned(db, t),
         "user" \in DOMAIN r, r.user = u, \A x \in P!Matching(db, t, r, key) : x.user = u
  PROVE  OwnStep(db, P!Merge(db, t, key, r, cols), t, u)
<1> DEFINE new == P!Merge(db, t, key, r, cols)
           old == P!Matching(db, t, r, key)
           put == IF old = {} THEN {r} ELSE {P!Overlay(x, r, cols) : x \in old}
           S == (db[t] \ old) \cup put
<1>1. new = [db EXCEPT ![t] = S]
  <2>1. old = {} => db[t] \cup {r} = S
    OBVIOUS
  <2> QED  BY <2>1 DEF P!Merge
<1>2. old \subseteq db[t] /\ \A x \in old : x.user = u /\ "user" \in DOMAIN x
  BY DEF P!Matching, Owned
<1>3. \A x \in put : x.user = u /\ "user" \in DOMAIN x
  BY <1>2 DEF P!Overlay
<1> HIDE DEF old, put
<1>4. IsDb(new) /\ new[t] = S /\ \A s \in P!TableNames \ {t} : new[s] = db[s]
  BY <1>1 DEF IsDb
<1> HIDE DEF new
<1>5. OthersKept(db, new, t, u)
  BY <1>2, <1>3, <1>4, OwnRowsReplaced
<1>6. Owned(new, t)
  BY <1>3, <1>4 DEF Owned
<1> QED  BY <1>4, <1>5, <1>6 DEF new, OwnStep

\* A row with a new id.
LEMMA MergeNew ==
  ASSUME NEW db, NEW t \in P!TableNames, NEW r, NEW cols, NEW u, NEW n \in Nat,
         IsDb(db), Numbered(db, t, n), {"user", "id"} \subseteq DOMAIN r, r.user = u, r.id = n
  PROVE  LET new == P!Merge(db, t, {"id"}, r, cols) IN
           OwnStep(db, new, t, u) /\ Numbered(new, t, n + 1)
<1> DEFINE new == P!Merge(db, t, {"id"}, r, cols)
<1>1. P!Matching(db, t, r, {"id"}) = {}
  BY DEF Numbered, P!Matching
<1>2. new = [db EXCEPT ![t] = db[t] \cup {r}]
  BY <1>1 DEF P!Merge
<1>3. IsDb(new) /\ new[t] = db[t] \cup {r} /\ \A s \in P!TableNames \ {t} : new[s] = db[s]
  BY <1>2 DEF IsDb
<1> HIDE DEF new
<1>4. OthersKept(db, new, t, u)
  BY <1>3, OwnRowsReplaced
<1>5. Numbered(new, t, n + 1) /\ Owned(new, t)
  BY <1>3 DEF Numbered, Owned
<1> QED  BY <1>3, <1>4, <1>5 DEF new, OwnStep

\* S are the rows, some of u's dropped, and some edited in columns that are not these two.
EditsOf(rows, S, u) ==
  /\ \A x \in S : x \in rows \/ \E y \in rows : /\ y.user = u /\ x.user = u /\ x.id = y.id
                                             /\ DOMAIN x = DOMAIN y
  /\ \A x \in rows : x.user = u \/ x \in S

LEMMA OwnRowsEdited ==
  ASSUME NEW db, NEW new, NEW t \in P!TableNames, NEW u, NEW S, IsDb(db),
         new = [db EXCEPT ![t] = S], EditsOf(db[t], S, u)
  PROVE  /\ OwnStep(db, new, t, u)
         /\ \A n \in Nat : Numbered(db, t, n) => Numbered(new, t, n + 1)
<1>1. IsDb(new) /\ new[t] = S /\ \A s \in P!TableNames \ {t} : new[s] = db[s]
  BY DEF IsDb
<1>2. OthersKept(db, new, t, u)
  BY <1>1, OwnRowsReplaced DEF EditsOf
<1>3. Owned(db, t) => Owned(new, t)
  BY <1>1 DEF Owned, EditsOf
<1>4. \A n \in Nat : Numbered(db, t, n) => Numbered(new, t, n + 1)
  BY <1>1 DEF Numbered, EditsOf
<1> QED  BY <1>1, <1>2, <1>3, <1>4 DEF OwnStep

-----------------------------------------------------------------------------
(* Watchlists and preferences. *)

KeptInv ==
  /\ DOMAIN pg = {"market", "user"} /\ IsDb(pg["user"])
  /\ Owned(pg["user"], "watch") /\ Owned(pg["user"], "prefs")

LEMMA KeptStep ==
  ASSUME KeptInv, PostWatchlist \/ DeleteWatchlist \/ PutMyPrefs
  PROVE  /\ KeptInv'
         /\ OthersKept(pg["user"], pg'["user"], "watch", actor')
         /\ OthersKept(pg["user"], pg'["user"], "prefs", actor')
<1> DEFINE db == pg["user"]
           new == pg'["user"]
<1>1. "watch" \in P!TableNames /\ "prefs" \in P!TableNames
  BY TheTables
<1>2. DOMAIN pg = {"market", "user"} /\ IsDb(db) /\ Owned(db, "watch") /\ Owned(db, "prefs")
  BY DEF KeptInv
<1>3. SUFFICES /\ DOMAIN pg' = DOMAIN pg
               /\ OwnStep(db, new, "watch", actor') \/ OwnStep(db, new, "prefs", actor')
  <2>1. OwnStep(db, new, "watch", actor') => new["prefs"] = db["prefs"]
    BY <1>1 DEF OwnStep
  <2>2. OwnStep(db, new, "prefs", actor') => new["watch"] = db["watch"]
    BY <1>1 DEF OwnStep
  <2> HIDE DEF db, new
  <2>3. /\ IsDb(new) /\ Owned(new, "watch") /\ Owned(new, "prefs")
        /\ OthersKept(db, new, "watch", actor') /\ OthersKept(db, new, "prefs", actor')
    BY <1>2, <1>3, <2>1, <2>2 DEF OwnStep, OthersKept, RowsOf, Owned
  <2> QED  BY <1>2, <1>3, <2>3 DEF KeptInv, db, new
<1>4. CASE PostWatchlist
  <2>1. PICK u \in Users, t \in Spellings :
          actor' = u /\ DOMAIN pg' = DOMAIN pg /\ new = P!AddToWatchlist(db, u, Key(t), now)
    BY <1>2, <1>4 DEF PostWatchlist, Call, Route, UserMethods
  <2> DEFINE r == [user |-> u, ticker |-> Key(t), at |-> now]
  <2>2. \A x \in P!Matching(db, "watch", r, {"user", "ticker"}) : x.user = u
    BY DEF P!Matching
  <2>3. "user" \in DOMAIN r /\ r.user = u
    OBVIOUS
  <2>4. new = P!Merge(db, "watch", {"user", "ticker"}, r, {})
    BY <2>1 DEF P!AddToWatchlist
  <2> HIDE DEF db, new, r
  <2> QED  BY <1>1, <1>2, <2>1, <2>2, <2>3, <2>4, MergeOwn
<1>5. CASE DeleteWatchlist
  <2>1. PICK u \in Users, t \in Spellings :
          actor' = u /\ DOMAIN pg' = DOMAIN pg /\ new = P!RemoveFromWatchlist(db, u, Key(t))
    BY <1>2, <1>5 DEF DeleteWatchlist, Call, Route, UserMethods
  <2> DEFINE S == {x \in db["watch"] : ~(x.user = u /\ x.ticker = Key(t))}
  <2>2. new = [db EXCEPT !["watch"] = S]
    BY <2>1 DEF P!RemoveFromWatchlist, P!Drop
  <2>3. EditsOf(db["watch"], S, u)
    BY DEF EditsOf
  <2> HIDE DEF db, new, S
  <2> QED  BY <1>1, <1>2, <2>1, <2>2, <2>3, OwnRowsEdited
<1>6. CASE PutMyPrefs
  <2>1. PICK u \in Users, k \in {"indicators", "chat"}, v \in Values :
          LET blobs == {x.blob : x \in M!GetPrefs(mem, u)}
              pgBlobs == {x.blob : x \in P!GetPrefs(On("GetPrefs"), u)}
              merged(B) == [[j \in {"indicators", "chat"} |-> 0] EXCEPT ![k] = v] IN
            Call("kept", u, "PutPrefs",
                 M!PutPrefs(mem, u, IF blobs = {} THEN merged(blobs)
                                    ELSE [(CHOOSE b \in blobs : TRUE) EXCEPT ![k] = v]),
                 LAMBDA d : P!PutPrefs(d, u, IF pgBlobs = {} THEN merged(pgBlobs)
                                             ELSE [(CHOOSE b \in pgBlobs : TRUE) EXCEPT ![k] = v]))
    BY <1>6 DEF PutMyPrefs
  <2> DEFINE pgBlobs == {x.blob : x \in P!GetPrefs(On("GetPrefs"), u)}
             blob == IF pgBlobs = {} THEN [[j \in {"indicators", "chat"} |-> 0] EXCEPT ![k] = v]
                     ELSE [(CHOOSE b \in pgBlobs : TRUE) EXCEPT ![k] = v]
  <2>2. actor' = u /\ DOMAIN pg' = DOMAIN pg /\ new = P!PutPrefs(db, u, blob)
    BY <1>2, <2>1 DEF Call, Route, UserMethods
  <2> HIDE DEF blob
  <2> DEFINE r == [user |-> u, blob |-> blob]
  <2>3. \A x \in P!Matching(db, "prefs", r, {"user"}) : x.user = u
    BY DEF P!Matching
  <2>4. "user" \in DOMAIN r /\ r.user = u
    OBVIOUS
  <2>5. new = P!Merge(db, "prefs", {"user"}, r, {"blob"})
    BY <2>2 DEF P!PutPrefs
  <2> HIDE DEF db, new, r
  <2> QED  BY <1>1, <1>2, <2>2, <2>3, <2>4, <2>5, MergeOwn
<1> QED  BY <1>4, <1>5, <1>6

-----------------------------------------------------------------------------
(* Holdings, notes, clips and alerts. *)

HoldingsInv == DOMAIN pg = {"market", "user"} /\ IsDb(pg["user"]) /\ Owned(pg["user"], "holdings")

LEMMA HoldingsStep ==
  ASSUME HoldingsInv, PostHolding \/ DeleteHolding
  PROVE  HoldingsInv' /\ OthersKept(pg["user"], pg'["user"], "holdings", actor')
<1> DEFINE db == pg["user"]
           new == pg'["user"]
<1>1. "holdings" \in P!TableNames /\ DOMAIN pg = {"market", "user"} /\ IsDb(db) /\ Owned(db, "holdings")
  BY TheTables DEF HoldingsInv
<1>2. SUFFICES DOMAIN pg' = DOMAIN pg /\ OwnStep(db, new, "holdings", actor')
  BY <1>1, <1>2 DEF HoldingsInv, OwnStep
<1>3. CASE PostHolding
  <2>1. PICK u \in Users, t \in Spellings, shares \in Values :
          LET r == [id |-> now, user |-> u, ticker |-> Key(t), shares |-> shares, at |-> now,
                    edited |-> now] IN
            Call("holdings", u, "SaveHolding", M!SaveHolding(mem, r), LAMBDA d : P!SaveHolding(d, r))
    BY <1>3 DEF PostHolding
  <2> DEFINE r == [id |-> now, user |-> u, ticker |-> Key(t), shares |-> shares, at |-> now,
                   edited |-> now]
  <2>2. "user" \in DOMAIN r /\ r.user = u
    OBVIOUS
  <2>3. Call("holdings", u, "SaveHolding", M!SaveHolding(mem, r), LAMBDA d : P!SaveHolding(d, r))
    BY <2>1
  <2> HIDE DEF r
  <2>4. /\ actor' = u /\ DOMAIN pg' = DOMAIN pg
        /\ new = P!Merge(db, "holdings", {"user", "ticker"}, r, {"shares", "edited"})
    BY <1>1, <2>3 DEF Call, Route, UserMethods, P!SaveHolding
  <2>5. \A x \in P!Matching(db, "holdings", r, {"user", "ticker"}) : x.user = u
    BY <2>2 DEF P!Matching
  <2> HIDE DEF db, new
  <2> QED  BY <1>1, <2>2, <2>4, <2>5, MergeOwn
<1>4. CASE DeleteHolding
  <2>1. PICK u \in Users, id \in Ids :
          actor' = u /\ DOMAIN pg' = DOMAIN pg /\ new = P!DeleteHolding(db, u, id)
    BY <1>1, <1>4 DEF DeleteHolding, Call, Route, UserMethods
  <2> DEFINE S == {x \in db["holdings"] : ~(x.id = id /\ x.user = u)}
  <2>2. new = [db EXCEPT !["holdings"] = S]
    BY <2>1 DEF P!DeleteHolding, P!Drop
  <2>3. EditsOf(db["holdings"], S, u)
    BY DEF EditsOf
  <2> HIDE DEF db, new, S
  <2> QED  BY <1>1, <2>1, <2>2, <2>3, OwnRowsEdited
<1> QED  BY <1>3, <1>4

NotesInv ==
  DOMAIN pg = {"market", "user"} /\ IsDb(pg["user"]) /\ now \in Nat /\ Numbered(pg["user"], "notes", now)

LEMMA NotesStep ==
  ASSUME NotesInv, PostNote \/ PatchNote \/ DeleteNote
  PROVE  NotesInv' /\ OthersKept(pg["user"], pg'["user"], "notes", actor')
<1> DEFINE db == pg["user"]
           new == pg'["user"]
<1>1. /\ "notes" \in P!TableNames /\ DOMAIN pg = {"market", "user"} /\ IsDb(db)
      /\ now \in Nat /\ Numbered(db, "notes", now)
  BY TheTables DEF NotesInv
<1>2. SUFFICES /\ DOMAIN pg' = DOMAIN pg /\ OwnStep(db, new, "notes", actor')
               /\ now' = now + 1 /\ Numbered(new, "notes", now + 1)
  BY <1>1, <1>2 DEF NotesInv, OwnStep
<1>3. CASE PostNote
  <2>1. PICK u \in Users, t \in Spellings \cup {""}, date \in 0..1, pinned \in BOOLEAN :
          LET r == [id |-> now, user |-> u, ticker |-> IF t = "" THEN "" ELSE Key(t), date |-> date,
                    body |-> 0, pinned |-> pinned, at |-> now, edited |-> now] IN
            Call("notes", u, "SaveNote", M!SaveNote(mem, r), LAMBDA d : P!SaveNote(d, r))
    BY <1>3 DEF PostNote
  <2> DEFINE r == [id |-> now, user |-> u, ticker |-> IF t = "" THEN "" ELSE Key(t), date |-> date,
                   body |-> 0, pinned |-> pinned, at |-> now, edited |-> now]
  <2>2. {"user", "id"} \subseteq DOMAIN r /\ r.id = now /\ r.user = u
    OBVIOUS
  <2>3. Call("notes", u, "SaveNote", M!SaveNote(mem, r), LAMBDA d : P!SaveNote(d, r))
    BY <2>1
  <2> HIDE DEF r
  <2>4. /\ actor' = u /\ DOMAIN pg' = DOMAIN pg /\ now' = now + 1
        /\ new = P!Merge(db, "notes", {"id"}, r, {"ticker", "date", "body", "pinned", "edited"})
    BY <1>1, <2>3 DEF Call, Route, UserMethods, P!SaveNote
  <2> HIDE DEF db, new
  <2> QED  BY <1>1, <2>2, <2>4, MergeNew
<1>4. CASE PatchNote
  <2>1. PICK u \in Users, id \in Ids, body \in Optional({1}), pinned \in Optional(BOOLEAN) :
          /\ actor' = u /\ DOMAIN pg' = DOMAIN pg /\ now' = now + 1
          /\ new = P!UpdateNote(db, u, id, body, pinned, now)
    BY <1>1, <1>4 DEF PatchNote, Call, Route, UserMethods
  <2> DEFINE edited(x) ==
               [x EXCEPT !.body = CHOOSE b \in (IF body = {} THEN {@} ELSE body) : TRUE,
                         !.pinned = CHOOSE p \in (IF pinned = {} THEN {@} ELSE pinned) : TRUE,
                         !.edited = now]
             S == {IF x.id = id /\ x.user = u THEN edited(x) ELSE x : x \in db["notes"]}
  <2>2. new = [db EXCEPT !["notes"] = S]
    BY <2>1 DEF P!UpdateNote, P!Update
  <2>3. \A x \in db["notes"] : DOMAIN edited(x) = DOMAIN x /\ edited(x).id = x.id /\ edited(x).user = x.user
    BY <1>1 DEF Numbered
  <2> HIDE DEF edited
  <2>4. EditsOf(db["notes"], S, u)
    BY <2>3 DEF EditsOf
  <2> HIDE DEF db, new, S
  <2> QED  BY <1>1, <2>1, <2>2, <2>4, OwnRowsEdited
<1>5. CASE DeleteNote
  <2>1. PICK u \in Users, id \in Ids :
          actor' = u /\ DOMAIN pg' = DOMAIN pg /\ now' = now + 1 /\ new = P!DeleteNote(db, u, id)
    BY <1>1, <1>5 DEF DeleteNote, Call, Route, UserMethods
  <2> DEFINE S == {x \in db["notes"] : ~(x.id = id /\ x.user = u)}
  <2>2. new = [db EXCEPT !["notes"] = S]
    BY <2>1 DEF P!DeleteNote, P!Drop
  <2>3. EditsOf(db["notes"], S, u)
    BY DEF EditsOf
  <2> HIDE DEF db, new, S
  <2> QED  BY <1>1, <2>1, <2>2, <2>3, OwnRowsEdited
<1> QED  BY <1>3, <1>4, <1>5

\* A clip's id is made of its user.
ClipsInv ==
  /\ DOMAIN pg = {"market", "user"} /\ IsDb(pg["user"])
  /\ \A x \in pg["user"]["clips"] : {"user", "id"} \subseteq DOMAIN x /\ x.id = <<x.user, "link">>

LEMMA ClipsStep ==
  ASSUME ClipsInv, PostClip
  PROVE  ClipsInv' /\ OthersKept(pg["user"], pg'["user"], "clips", actor')
<1> DEFINE db == pg["user"]
           new == pg'["user"]
<1>1. /\ "clips" \in P!TableNames /\ DOMAIN pg = {"market", "user"} /\ IsDb(db) /\ Owned(db, "clips")
      /\ \A x \in db["clips"] : {"user", "id"} \subseteq DOMAIN x /\ x.id = <<x.user, "link">>
  BY TheTables DEF ClipsInv, Owned
<1>2. PICK u \in Users, t \in Spellings, url \in {"link"}, title \in Values :
        LET r == [id |-> <<u, url>>, user |-> u, ticker |-> Key(t), title |-> title, at |-> now] IN
          Call("clips", u, "SaveClip", M!SaveClip(mem, r), LAMBDA d : P!SaveClip(d, r))
  BY DEF PostClip
<1> DEFINE r == [id |-> <<u, url>>, user |-> u, ticker |-> Key(t), title |-> title, at |-> now]
<1>3. {"user", "id"} \subseteq DOMAIN r /\ r.user = u /\ r.id = <<u, "link">>
  OBVIOUS
<1>4. Call("clips", u, "SaveClip", M!SaveClip(mem, r), LAMBDA d : P!SaveClip(d, r))
  BY <1>2
<1> HIDE DEF r
<1>5. actor' = u /\ DOMAIN pg' = DOMAIN pg /\ new = P!Merge(db, "clips", {"id"}, r, {"title"})
  BY <1>1, <1>4 DEF Call, Route, UserMethods, P!SaveClip
<1>6. \A x \in P!Matching(db, "clips", r, {"id"}) : x.user = u
  BY <1>1, <1>3 DEF P!Matching
<1>7. OwnStep(db, new, "clips", u)
  <2> HIDE DEF db, new
  <2> QED  BY <1>1, <1>3, <1>5, <1>6, MergeOwn
<1>8. \A x \in new["clips"] : {"user", "id"} \subseteq DOMAIN x /\ x.id = <<x.user, "link">>
  <2>1. \A x \in new["clips"] : \/ x \in db["clips"] \/ x = r
                               \/ \E y \in db["clips"] : x = P!Overlay(y, r, {"title"})
    BY <1>1, <1>5 DEF P!Merge, P!Matching, IsDb
  <2>2. \A y \in db["clips"] : LET x == P!Overlay(y, r, {"title"}) IN
          DOMAIN x = DOMAIN y /\ x.id = y.id /\ x.user = y.user
    BY <1>1 DEF P!Overlay
  <2> QED  BY <1>1, <1>3, <2>1, <2>2
<1> QED  BY <1>1, <1>5, <1>7, <1>8 DEF ClipsInv, OwnStep

AlertsInv ==
  DOMAIN pg = {"market", "user"} /\ IsDb(pg["user"]) /\ now \in Nat /\ Numbered(pg["user"], "alerts", now)

LEMMA AlertsStep ==
  ASSUME AlertsInv, PostAlert \/ ReactivateAlert \/ DeleteAlert \/ FireAlert
  PROVE  /\ AlertsInv'
         /\ actor' \in Users => OthersKept(pg["user"], pg'["user"], "alerts", actor')
<1> DEFINE db == pg["user"]
           new == pg'["user"]
<1>1. /\ "alerts" \in P!TableNames /\ DOMAIN pg = {"market", "user"} /\ IsDb(db)
      /\ now \in Nat /\ Numbered(db, "alerts", now)
  BY TheTables DEF AlertsInv
<1>2. SUFFICES /\ DOMAIN pg' = DOMAIN pg /\ IsDb(new) /\ now' = now + 1 /\ Numbered(new, "alerts", now + 1)
               /\ actor' \in Users => OwnStep(db, new, "alerts", actor')
  BY <1>1, <1>2 DEF AlertsInv, OwnStep
<1>3. CASE PostAlert
  <2>1. PICK u \in Users, t \in Spellings :
          LET r == [id |-> now, user |-> u, ticker |-> Key(t), kind |-> "price_above",
                    active |-> TRUE, at |-> now, fired |-> 0] IN
            Call("alerts", u, "SaveAlert", M!SaveAlert(mem, r), LAMBDA d : P!SaveAlert(d, r))
    BY <1>3 DEF PostAlert
  <2> DEFINE r == [id |-> now, user |-> u, ticker |-> Key(t), kind |-> "price_above",
                   active |-> TRUE, at |-> now, fired |-> 0]
             q == [r EXCEPT !.fired = 0]
  <2>2. {"user", "id"} \subseteq DOMAIN q /\ q.id = now /\ q.user = u
    OBVIOUS
  <2>3. Call("alerts", u, "SaveAlert", M!SaveAlert(mem, r), LAMBDA d : P!SaveAlert(d, r))
    BY <2>1
  <2> HIDE DEF r
  <2>4. /\ actor' = u /\ DOMAIN pg' = DOMAIN pg /\ now' = now + 1
        /\ new = P!Merge(db, "alerts", {"id"}, q, {"ticker", "kind", "active"})
    BY <1>1, <2>3 DEF Call, Route, UserMethods, P!SaveAlert
  <2> HIDE DEF db, new, q
  <2>5. OwnStep(db, new, "alerts", u) /\ Numbered(new, "alerts", now + 1)
    BY <1>1, <2>2, <2>4, MergeNew
  <2> QED  BY <2>4, <2>5 DEF OwnStep
<1>4. CASE ReactivateAlert
  <2>1. PICK u \in Users, id \in Ids :
          actor' = u /\ DOMAIN pg' = DOMAIN pg /\ now' = now + 1 /\ new = P!ReactivateAlert(db, u, id)
    BY <1>1, <1>4 DEF ReactivateAlert, Call, Route, UserMethods
  <2> DEFINE edited(x) == [x EXCEPT !.active = TRUE, !.fired = 0]
             S == {IF x.id = id /\ x.user = u THEN edited(x) ELSE x : x \in db["alerts"]}
  <2>2. new = [db EXCEPT !["alerts"] = S]
    BY <2>1 DEF P!ReactivateAlert, P!Update
  <2>3. \A x \in db["alerts"] : DOMAIN edited(x) = DOMAIN x /\ edited(x).id = x.id /\ edited(x).user = x.user
    BY <1>1 DEF Numbered
  <2> HIDE DEF edited
  <2>4. EditsOf(db["alerts"], S, u)
    BY <2>3 DEF EditsOf
  <2> HIDE DEF db, new, S
  <2>5. OwnStep(db, new, "alerts", u) /\ Numbered(new, "alerts", now + 1)
    BY <1>1, <2>2, <2>4, OwnRowsEdited
  <2> QED  BY <2>1, <2>5 DEF OwnStep
<1>5. CASE DeleteAlert
  <2>1. PICK u \in Users, id \in Ids :
          actor' = u /\ DOMAIN pg' = DOMAIN pg /\ now' = now + 1 /\ new = P!DeleteAlert(db, u, id)
    BY <1>1, <1>5 DEF DeleteAlert, Call, Route, UserMethods
  <2> DEFINE S == {x \in db["alerts"] : ~(x.id = id /\ x.user = u)}
  <2>2. new = [db EXCEPT !["alerts"] = S]
    BY <2>1 DEF P!DeleteAlert, P!Drop
  <2>3. EditsOf(db["alerts"], S, u)
    BY DEF EditsOf
  <2> HIDE DEF db, new, S
  <2>4. OwnStep(db, new, "alerts", u) /\ Numbered(new, "alerts", now + 1)
    BY <1>1, <2>2, <2>3, OwnRowsEdited
  <2> QED  BY <2>1, <2>4 DEF OwnStep
<1>6. CASE FireAlert
  <2>1. PICK a \in M!ListActiveAlerts(mem) :
          /\ actor' = "none" /\ DOMAIN pg' = DOMAIN pg /\ now' = now + 1
          /\ new = P!MarkAlertTriggered(db, a.id, now)
    BY <1>1, <1>6 DEF FireAlert, Call, Route, UserMethods
  <2> DEFINE fired(x) == [x EXCEPT !.fired = now]
             S == {IF x.id = a.id /\ x.fired = 0 THEN fired(x) ELSE x : x \in db["alerts"]}
  <2>2. new = [db EXCEPT !["alerts"] = S]
    BY <2>1 DEF P!MarkAlertTriggered, P!Update
  <2>3. \A x \in db["alerts"] : DOMAIN fired(x) = DOMAIN x /\ fired(x).id = x.id
    BY <1>1 DEF Numbered
  <2> HIDE DEF fired
  <2>4. IsDb(new) /\ Numbered(new, "alerts", now + 1)
    BY <1>1, <2>2, <2>3 DEF IsDb, Numbered
  <2> QED  BY <2>1, <2>4, UsersAssumption
<1> QED  BY <1>3, <1>4, <1>5, <1>6

-----------------------------------------------------------------------------
(* Conversations. *)

MsgsOf(db, id) == {m \in db["msgs"] : m.conv = id}

\* A conversation has one owner, in both deployments; a message is its owner's.
ChatInv ==
  /\ DOMAIN pg = {"market", "user"} /\ IsDb(pg["user"]) /\ IsDb(mem) /\ now \in Nat
  /\ Numbered(pg["user"], "convs", now) /\ Numbered(mem, "convs", now)
  /\ \A x \in mem["convs"], y \in pg["user"]["convs"] : x.id = y.id => x.user = y.user
  /\ \A m \in pg["user"]["msgs"] :
       /\ {"conv", "user"} \subseteq DOMAIN m /\ m.conv \in 0..(now - 1)
       /\ \A x \in pg["user"]["convs"] : m.conv = x.id => m.user = x.user

\* The rows are the old ones, edited in columns that are not these two, or a new one of u's.
Descend(new, old, u) ==
  \A x \in new : /\ {"user", "id"} \subseteq DOMAIN x
                 /\ \/ \E y \in old : x.id = y.id /\ x.user = y.user
                    \/ x.id = now /\ x.user = u

\* What a request of u does to conversations and messages.
ChatMoves(u) ==
  /\ DOMAIN pg' = DOMAIN pg /\ IsDb(pg'["user"]) /\ IsDb(mem') /\ now' = now + 1 /\ actor' = u
  /\ Descend(mem'["convs"], mem["convs"], u)
  /\ Descend(pg'["user"]["convs"], pg["user"]["convs"], u)
  /\ OthersKept(pg["user"], pg'["user"], "convs", u)
  /\ \A m \in pg'["user"]["msgs"] :
       \/ m \in pg["user"]["msgs"]
       \/ /\ {"conv", "user"} \subseteq DOMAIN m /\ m.user = u
          /\ \E c \in mem["convs"] : c.id = m.conv /\ c.user = u
  /\ \A m \in pg["user"]["msgs"] :
       \/ m \in pg'["user"]["msgs"]
       \/ \A x \in pg["user"]["convs"] : x.id = m.conv => x.user = u

LEMMA ChatMovesKeep ==
  ASSUME ChatInv, NEW u, ChatMoves(u)
  PROVE  /\ ChatInv'
         /\ \A v \in Users \ {u} : \A x \in RowsOf(pg["user"], "convs", v) :
              MsgsOf(pg'["user"], x.id) = MsgsOf(pg["user"], x.id)
<1> DEFINE db == pg["user"]
           new == pg'["user"]
<1>1. DOMAIN pg' = {"market", "user"} /\ IsDb(new) /\ IsDb(mem') /\ now' = now + 1 /\ now \in Nat /\ now' \in Nat
  BY DEF ChatInv, ChatMoves
<1>2. /\ \A x \in mem["convs"] : x.id \in 0..(now - 1)
      /\ \A x \in db["convs"] : x.id \in 0..(now - 1)
  BY DEF ChatInv, Numbered
<1>3. Numbered(mem', "convs", now + 1) /\ Numbered(new, "convs", now + 1)
  BY <1>1, <1>2 DEF ChatMoves, Descend, Numbered
<1>4. \A x \in mem'["convs"], y \in new["convs"] : x.id = y.id => x.user = y.user
  BY <1>1, <1>2 DEF ChatInv, ChatMoves, Descend
<1>5. ASSUME NEW m \in new["msgs"]
      PROVE  /\ {"conv", "user"} \subseteq DOMAIN m /\ m.conv \in 0..now
             /\ \A x \in new["convs"] : m.conv = x.id => m.user = x.user
  <2>1. CASE m \in db["msgs"]
    <3>1. /\ {"conv", "user"} \subseteq DOMAIN m /\ m.conv \in 0..(now - 1)
          /\ \A x \in db["convs"] : m.conv = x.id => m.user = x.user
      BY <2>1 DEF ChatInv
    <3>2. \A x \in new["convs"] : m.conv = x.id => m.user = x.user
      BY <1>1, <3>1 DEF ChatMoves, Descend
    <3> QED  BY <1>1, <3>1, <3>2
  <2>2. CASE m \notin db["msgs"]
    <3>1. PICK c \in mem["convs"] : c.id = m.conv /\ c.user = u
      BY <2>2 DEF ChatMoves
    <3>2. {"conv", "user"} \subseteq DOMAIN m /\ m.user = u
      BY <2>2 DEF ChatMoves
    <3>3. \A y \in db["convs"] : c.id = y.id => c.user = y.user
      BY DEF ChatInv
    <3>4. \A x \in new["convs"] : m.conv = x.id => m.user = x.user
      BY <1>1, <1>2, <3>1, <3>2, <3>3 DEF ChatMoves, Descend
    <3> QED  BY <1>1, <1>2, <3>1, <3>2, <3>4
  <2> QED  BY <2>1, <2>2
<1>6. ChatInv'
  <2>1. \A m \in new["msgs"] : /\ {"conv", "user"} \subseteq DOMAIN m /\ m.conv \in 0..(now' - 1)
                               /\ \A x \in new["convs"] : m.conv = x.id => m.user = x.user
    BY <1>1, <1>5
  <2> QED  BY <1>1, <1>3, <1>4, <2>1 DEF ChatInv
<1>7. ASSUME NEW v \in Users \ {u}, NEW x \in RowsOf(db, "convs", v)
      PROVE  MsgsOf(new, x.id) = MsgsOf(db, x.id)
  <2>1. x \in db["convs"] /\ x.user = v /\ v # u
    BY <1>7 DEF RowsOf
  <2>2. \A m \in new["msgs"] : m.conv = x.id => m \in db["msgs"]
    BY <2>1 DEF ChatMoves, ChatInv
  <2>3. \A m \in db["msgs"] : m.conv = x.id => m \in new["msgs"]
    BY <2>1 DEF ChatMoves
  <2> QED  BY <2>2, <2>3 DEF MsgsOf
<1> QED  BY <1>6, <1>7

LEMMA SameTables == M!TableNames = P!TableNames
BY DEF M!TableNames, M!CollectedTables, M!MadeTables, M!KeptTables, M!SharedTables,
       P!TableNames, P!CollectedTables, P!MadeTables, P!KeptTables, P!SharedTables

\* Nothing, or one new conversation of u's.
MakesOne(new, old, u) ==
  /\ IsDb(new) /\ new["msgs"] = old["msgs"]
  /\ \/ new["convs"] = old["convs"]
     \/ \E r : /\ new["convs"] = old["convs"] \cup {r}
               /\ {"user", "id"} \subseteq DOMAIN r /\ r.id = now /\ r.user = u

LEMMA ConversationMade ==
  ASSUME NEW db, IsDb(db), NEW u, NEW title, NEW anchor
  PROVE  /\ MakesOne(P!CreateConversation(db, u, title, anchor, now, now), db, u)
         /\ MakesOne(M!CreateConversation(db, u, title, anchor, now, now), db, u)
<1> DEFINE r == [id |-> now, user |-> u, title |-> title, anchor |-> anchor, at |-> now, bumped |-> now]
           new == [db EXCEPT !["convs"] = db["convs"] \cup {r}]
<1>1. "convs" \in P!TableNames /\ "msgs" \in P!TableNames
  BY TheTables
<1>2. /\ P!CreateConversation(db, u, title, anchor, now, now) = new
      /\ M!CreateConversation(db, u, title, anchor, now, now) = new
  BY DEF P!CreateConversation, M!CreateConversation
<1>3. {"user", "id"} \subseteq DOMAIN r /\ r.id = now /\ r.user = u
  OBVIOUS
<1>4. IsDb(new) /\ new["convs"] = db["convs"] \cup {r} /\ new["msgs"] = db["msgs"]
  BY <1>1 DEF IsDb
<1> HIDE DEF r, new
<1>5. MakesOne(new, db, u)
  BY <1>3, <1>4 DEF MakesOne
<1> QED  BY <1>2, <1>5

LEMMA PostConversationStep ==
  ASSUME ChatInv, PostConversation
  PROVE  \E u \in Users : ChatMoves(u)
<1> DEFINE db == pg["user"]
           new == pg'["user"]
<1>1. /\ DOMAIN pg = {"market", "user"} /\ IsDb(db) /\ IsDb(mem)
      /\ Numbered(db, "convs", now) /\ Numbered(mem, "convs", now)
  BY DEF ChatInv
<1>2. PICK u \in Users, t \in Spellings \cup {""} :
        IF t = ""
        THEN Call("chat", u, "CreateConversation", M!CreateConversation(mem, u, "New chat", "", now, now),
                  LAMBDA d : P!CreateConversation(d, u, "New chat", "", now, now))
        ELSE Call("chat", u, "GetOrCreateStockConversation",
                  M!GetOrCreateStockConversation(mem, u, Key(t), now, now),
                  LAMBDA d : P!GetOrCreateStockConversation(d, u, Key(t), now, now))
  BY DEF PostConversation
<1>3. /\ DOMAIN pg' = DOMAIN pg /\ now' = now + 1 /\ actor' = u
      /\ MakesOne(mem', mem, u) /\ MakesOne(new, db, u)
  <2>1. CASE t = ""
    <3>1. /\ DOMAIN pg' = DOMAIN pg /\ now' = now + 1 /\ actor' = u
          /\ mem' = M!CreateConversation(mem, u, "New chat", "", now, now)
          /\ new = P!CreateConversation(db, u, "New chat", "", now, now)
      BY <1>1, <1>2, <2>1 DEF Call, Route, UserMethods
    <3> HIDE DEF db, new
    <3> QED  BY <1>1, <3>1, ConversationMade
  <2>2. CASE t # ""
    <3>1. /\ DOMAIN pg' = DOMAIN pg /\ now' = now + 1 /\ actor' = u
          /\ mem' = M!GetOrCreateStockConversation(mem, u, Key(t), now, now)
          /\ new = P!GetOrCreateStockConversation(db, u, Key(t), now, now)
      BY <1>1, <1>2, <2>2 DEF Call, Route, UserMethods
    <3> HIDE DEF db, new
    <3>2. /\ mem' = mem \/ mem' = M!CreateConversation(mem, u, Key(t), Key(t), now, now)
          /\ new = db \/ new = P!CreateConversation(db, u, Key(t), Key(t), now, now)
      BY <3>1 DEF M!GetOrCreateStockConversation, P!GetOrCreateStockConversation
    <3>3. MakesOne(mem, mem, u) /\ MakesOne(db, db, u)
      BY <1>1 DEF MakesOne
    <3>4. /\ MakesOne(M!CreateConversation(mem, u, Key(t), Key(t), now, now), mem, u)
          /\ MakesOne(P!CreateConversation(db, u, Key(t), Key(t), now, now), db, u)
      BY <1>1, ConversationMade
    <3> QED  BY <3>1, <3>2, <3>3, <3>4
  <2> QED  BY <2>1, <2>2
<1>4. Descend(mem'["convs"], mem["convs"], u) /\ Descend(new["convs"], db["convs"], u)
  <2> HIDE DEF db, new
  <2> QED  BY <1>1, <1>3 DEF MakesOne, Descend, Numbered
<1>5. OthersKept(db, new, "convs", u)
  <2> HIDE DEF db, new
  <2> QED  BY <1>3 DEF MakesOne, OthersKept, RowsOf
<1>6. IsDb(new) /\ IsDb(mem') /\ new["msgs"] = db["msgs"]
  BY <1>3 DEF MakesOne
<1>7. ChatMoves(u)
  BY <1>3, <1>4, <1>5, <1>6 DEF ChatMoves
<1> QED  BY <1>7

\* Edits of rows that keep their ids and owners.
LEMMA EditedDescend ==
  ASSUME NEW new, NEW old, NEW u, \A y \in old : {"user", "id"} \subseteq DOMAIN y,
         \A x \in new : \E y \in old : DOMAIN x = DOMAIN y /\ x.id = y.id /\ x.user = y.user
  PROVE  Descend(new, old, u)
BY DEF Descend

LEMMA TurnAppended ==
  ASSUME NEW db, NEW r, NEW n
  PROVE  LET d == [db EXCEPT !["msgs"] = db["msgs"] \cup {[r EXCEPT !.at = n]}]
             new == [d EXCEPT !["convs"] =
                       {IF x.id = r.conv THEN [x EXCEPT !.bumped = n] ELSE x : x \in d["convs"]}] IN
           M!AppendChatMessage(db, r, n) = new /\ P!AppendChatMessage(db, r, n) = new
BY DEF M!AppendChatMessage, M!Bump, M!Update, P!AppendChatMessage, P!Update

LEMMA AppendTurnStep ==
  ASSUME ChatInv, AppendTurn
  PROVE  \E u \in Users : ChatMoves(u)
<1> DEFINE db == pg["user"]
           new == pg'["user"]
<1>1. /\ DOMAIN pg = {"market", "user"} /\ IsDb(db) /\ IsDb(mem)
      /\ Numbered(db, "convs", now) /\ Numbered(mem, "convs", now)
      /\ \A x \in mem["convs"], y \in db["convs"] : x.id = y.id => x.user = y.user
  BY DEF ChatInv
<1>2. PICK u \in Users, id \in Ids :
        /\ M!GetConversation(mem, u, id) # {}
        /\ LET r == [conv |-> id, user |-> u, at |-> 0] IN
             Call("chat", u, "AppendChatMessage", M!AppendChatMessage(mem, r, now),
                  LAMBDA d : P!AppendChatMessage(d, r, now))
  BY DEF AppendTurn
<1>3. PICK c \in mem["convs"] : c.id = id /\ c.user = u
  BY <1>2 DEF M!GetConversation
<1> DEFINE r == [conv |-> id, user |-> u, at |-> 0]
           q == [r EXCEPT !.at = now]
           bump(x) == [x EXCEPT !.bumped = now]
           bumped(rows) == {IF x.id = id THEN bump(x) ELSE x : x \in rows}
           after(d) == [[d EXCEPT !["msgs"] = d["msgs"] \cup {q}] EXCEPT !["convs"] = bumped(d["convs"])]
<1>4. {"conv", "user"} \subseteq DOMAIN q /\ q.conv = id /\ q.user = u /\ r.conv = id
  OBVIOUS
<1>5. /\ DOMAIN pg' = DOMAIN pg /\ now' = now + 1 /\ actor' = u
      /\ mem' = M!AppendChatMessage(mem, r, now) /\ new = P!AppendChatMessage(db, r, now)
  BY <1>1, <1>2 DEF Call, Route, UserMethods
<1> HIDE DEF r
<1>6. "convs" \in P!TableNames /\ "msgs" \in P!TableNames
  BY TheTables
<1>7. mem' = after(mem) /\ new = after(db)
  <2> HIDE DEF db, new
  <2> DEFINE d1 == [mem EXCEPT !["msgs"] = mem["msgs"] \cup {q}]
             d2 == [db EXCEPT !["msgs"] = db["msgs"] \cup {q}]
  <2>1. d1["convs"] = mem["convs"] /\ d2["convs"] = db["convs"]
    BY <1>1, <1>6 DEF IsDb
  <2>2. mem' = [d1 EXCEPT !["convs"] = bumped(d1["convs"])] /\ new = [d2 EXCEPT !["convs"] = bumped(d2["convs"])]
    BY <1>4, <1>5, TurnAppended
  <2> QED  BY <2>1, <2>2
<1>8. /\ IsDb(mem') /\ mem'["convs"] = bumped(mem["convs"])
      /\ IsDb(new) /\ new["convs"] = bumped(db["convs"]) /\ new["msgs"] = db["msgs"] \cup {q}
  <2> HIDE DEF db, new, q, bumped
  <2> QED  BY <1>1, <1>6, <1>7 DEF IsDb
<1>9. \A x : {"user", "id"} \subseteq DOMAIN x => DOMAIN bump(x) = DOMAIN x /\ bump(x).id = x.id /\ bump(x).user = x.user
  OBVIOUS
<1> HIDE DEF bump, q
<1>10. Descend(bumped(mem["convs"]), mem["convs"], u)
  BY <1>1, <1>9, EditedDescend DEF Numbered
<1>11. Descend(bumped(db["convs"]), db["convs"], u)
  BY <1>1, <1>9, EditedDescend DEF Numbered
<1>12. OthersKept(db, new, "convs", u)
  <2>1. \A x \in db["convs"] : x.id = id => x.user = u
    BY <1>1, <1>3
  <2>2. /\ \A x \in new["convs"] : x.user = u \/ x \in db["convs"]
        /\ \A x \in db["convs"] : x.user = u \/ x \in new["convs"]
    BY <1>1, <1>8, <1>9, <2>1 DEF Numbered
  <2> QED  BY <2>2, OwnRowsReplaced
<1>13. ChatMoves(u)
  <2> HIDE DEF bumped
  <2>1. \A m \in new["msgs"] : \/ m \in db["msgs"]
                               \/ /\ {"conv", "user"} \subseteq DOMAIN m /\ m.user = u
                                  /\ \E x \in mem["convs"] : x.id = m.conv /\ x.user = u
    BY <1>3, <1>4, <1>8
  <2> QED  BY <1>5, <1>8, <1>10, <1>11, <1>12, <2>1 DEF ChatMoves
<1> QED  BY <1>13

LEMMA PatchConversationStep ==
  ASSUME ChatInv, PatchConversation
  PROVE  \E u \in Users : ChatMoves(u)
<1> DEFINE db == pg["user"]
           new == pg'["user"]
<1>1. /\ DOMAIN pg = {"market", "user"} /\ IsDb(db) /\ IsDb(mem)
      /\ Numbered(db, "convs", now) /\ Numbered(mem, "convs", now)
  BY DEF ChatInv
<1>2. PICK u \in Users, id \in Ids :
        /\ DOMAIN pg' = DOMAIN pg /\ now' = now + 1 /\ actor' = u
        /\ mem' = M!RenameConversation(mem, u, id, "renamed", now)
        /\ new = P!RenameConversation(db, u, id, "renamed", now)
  BY <1>1 DEF PatchConversation, Call, Route, UserMethods
<1> DEFINE named(x) == [x EXCEPT !.title = "renamed", !.bumped = now]
           edited(rows) == {IF x.id = id /\ x.user = u THEN named(x) ELSE x : x \in rows}
<1>3. "convs" \in P!TableNames /\ "msgs" \in P!TableNames
  BY TheTables
<1>4. mem' = [mem EXCEPT !["convs"] = edited(mem["convs"])] /\ new = [db EXCEPT !["convs"] = edited(db["convs"])]
  <2>1. {IF x.user = u /\ x.id = id THEN named(x) ELSE x : x \in mem["convs"]} = edited(mem["convs"])
    OBVIOUS
  <2>2. mem' = [mem EXCEPT !["convs"] = {IF x.user = u /\ x.id = id THEN named(x) ELSE x : x \in mem["convs"]}]
    BY <1>2 DEF M!RenameConversation, M!Update
  <2>3. new = [db EXCEPT !["convs"] = edited(db["convs"])]
    BY <1>2 DEF P!RenameConversation, P!Update
  <2> HIDE DEF db, new, edited, named
  <2> QED  BY <2>1, <2>2, <2>3
<1>5. /\ IsDb(mem') /\ mem'["convs"] = edited(mem["convs"])
      /\ IsDb(new) /\ new["convs"] = edited(db["convs"]) /\ new["msgs"] = db["msgs"]
  <2> HIDE DEF db, new, edited
  <2> QED  BY <1>1, <1>3, <1>4 DEF IsDb
<1>6. \A x : {"user", "id"} \subseteq DOMAIN x => DOMAIN named(x) = DOMAIN x /\ named(x).id = x.id /\ named(x).user = x.user
  OBVIOUS
<1> HIDE DEF named
<1>7. Descend(edited(mem["convs"]), mem["convs"], u)
  BY <1>1, <1>6, EditedDescend DEF Numbered
<1>8. Descend(edited(db["convs"]), db["convs"], u)
  BY <1>1, <1>6, EditedDescend DEF Numbered
<1>9. OthersKept(db, new, "convs", u)
  <2>1. /\ \A x \in new["convs"] : x.user = u \/ x \in db["convs"]
        /\ \A x \in db["convs"] : x.user = u \/ x \in new["convs"]
    BY <1>1, <1>5, <1>6 DEF Numbered
  <2> QED  BY <2>1, OwnRowsReplaced
<1>10. ChatMoves(u)
  <2> HIDE DEF edited
  <2> QED  BY <1>2, <1>5, <1>7, <1>8, <1>9 DEF ChatMoves
<1> QED  BY <1>10

LEMMA DeleteConversationStep ==
  ASSUME ChatInv, DeleteConversation
  PROVE  \E u \in Users : ChatMoves(u)
<1> DEFINE db == pg["user"]
           new == pg'["user"]
<1>1. /\ DOMAIN pg = {"market", "user"} /\ IsDb(db) /\ IsDb(mem)
      /\ Numbered(db, "convs", now) /\ Numbered(mem, "convs", now)
      /\ \A m \in db["msgs"] : \A x \in db["convs"] : m.conv = x.id => m.user = x.user
  BY DEF ChatInv
<1>2. PICK u \in Users, id \in Ids :
        /\ DOMAIN pg' = DOMAIN pg /\ now' = now + 1 /\ actor' = u
        /\ mem' = M!DeleteConversation(mem, u, id) /\ new = P!DeleteConversation(db, u, id)
  BY <1>1 DEF DeleteConversation, Call, Route, UserMethods
<1> DEFINE C == {x \in db["convs"] : ~(x.id = id /\ x.user = u)}
           G == {m \in db["msgs"] : ~(m.conv = id /\ m.user = u)}
<1>3. "convs" \in P!TableNames /\ "msgs" \in P!TableNames
  BY TheTables
<1>4. IsDb(new) /\ new["convs"] = C /\ new["msgs"] = G
  <2>1. new = [[db EXCEPT !["msgs"] = G] EXCEPT !["convs"] = C]
    BY <1>1, <1>2, <1>3 DEF P!DeleteConversation, P!Drop, IsDb
  <2> HIDE DEF db, new, C, G
  <2> QED  BY <1>1, <1>3, <2>1 DEF IsDb
<1>5. IsDb(mem') /\ mem'["convs"] \subseteq mem["convs"]
  <2>1. CASE mem' = mem
    BY <1>1, <2>1
  <2>2. CASE mem' = M!ClearChatMessages(M!Drop(mem, "convs", LAMBDA x : x.id = id), id)
    <3> DEFINE K == {x \in mem["convs"] : ~(x.id = id)}
               d == [mem EXCEPT !["convs"] = K]
    <3>1. mem' = [d EXCEPT !["msgs"] = {x \in d["msgs"] : ~(x.conv = id)}]
      BY <2>2 DEF M!ClearChatMessages, M!Drop
    <3> QED  BY <1>1, <1>3, <3>1 DEF IsDb
  <2> QED  BY <1>2, <2>1, <2>2 DEF M!DeleteConversation
<1>6. Descend(mem'["convs"], mem["convs"], u) /\ Descend(C, db["convs"], u)
  BY <1>1, <1>5 DEF Numbered, Descend
<1>7. OthersKept(db, new, "convs", u)
  BY <1>4, OwnRowsReplaced
<1>8. \A m \in db["msgs"] : m \in G \/ \A x \in db["convs"] : x.id = m.conv => x.user = u
  BY <1>1
<1>9. ChatMoves(u)
  <2>1. G \subseteq db["msgs"]
    OBVIOUS
  <2> HIDE DEF C, G
  <2> QED  BY <1>2, <1>4, <1>5, <1>6, <1>7, <1>8, <2>1 DEF ChatMoves
<1> QED  BY <1>9

LEMMA ClearStockThreadStep ==
  ASSUME ChatInv, ClearStockThread
  PROVE  \E u \in Users : ChatMoves(u)
<1> DEFINE db == pg["user"]
           new == pg'["user"]
<1>1. /\ DOMAIN pg = {"market", "user"} /\ IsDb(db) /\ IsDb(mem)
      /\ Numbered(db, "convs", now) /\ Numbered(mem, "convs", now)
      /\ \A x \in mem["convs"], y \in db["convs"] : x.id = y.id => x.user = y.user
  BY DEF ChatInv
<1>2. PICK u \in Users : \E c \in mem["convs"] :
        /\ DOMAIN pg' = DOMAIN pg /\ now' = now + 1 /\ actor' = u /\ c.user = u
        /\ mem' = M!ClearChatMessages(mem, c.id) /\ new = P!ClearChatMessages(db, c.id)
  BY <1>1 DEF ClearStockThread, Call, Route, UserMethods
<1>3. PICK c \in mem["convs"] :
        /\ DOMAIN pg' = DOMAIN pg /\ now' = now + 1 /\ actor' = u /\ c.user = u
        /\ mem' = M!ClearChatMessages(mem, c.id) /\ new = P!ClearChatMessages(db, c.id)
  BY <1>2
<1> DEFINE G == {m \in db["msgs"] : ~(m.conv = c.id)}
<1>4. "convs" \in P!TableNames /\ "msgs" \in P!TableNames
  BY TheTables
<1>5. /\ IsDb(mem') /\ mem'["convs"] = mem["convs"]
      /\ IsDb(new) /\ new["convs"] = db["convs"] /\ new["msgs"] = G
  BY <1>1, <1>3, <1>4 DEF M!ClearChatMessages, M!Drop, P!ClearChatMessages, P!Drop, IsDb
<1>6. Descend(mem["convs"], mem["convs"], u) /\ Descend(db["convs"], db["convs"], u)
  BY <1>1 DEF Numbered, Descend
<1>7. OthersKept(db, new, "convs", u)
  BY <1>5 DEF OthersKept, RowsOf
<1>8. \A m \in db["msgs"] : m \in G \/ \A x \in db["convs"] : x.id = m.conv => x.user = u
  BY <1>1, <1>3
<1>9. ChatMoves(u)
  <2>1. G \subseteq db["msgs"]
    OBVIOUS
  <2> HIDE DEF G
  <2> QED  BY <1>3, <1>5, <1>6, <1>7, <1>8, <2>1 DEF ChatMoves
<1> QED  BY <1>9

LEMMA ChatStep ==
  ASSUME ChatInv, PostConversation \/ AppendTurn \/ PatchConversation \/ DeleteConversation \/ ClearStockThread
  PROVE  /\ ChatInv' /\ OthersKept(pg["user"], pg'["user"], "convs", actor')
         /\ \A v \in Users \ {actor'} : \A x \in RowsOf(pg["user"], "convs", v) :
              MsgsOf(pg'["user"], x.id) = MsgsOf(pg["user"], x.id)
<1>1. PICK u \in Users : ChatMoves(u)
  BY PostConversationStep, AppendTurnStep, PatchConversationStep, DeleteConversationStep,
     ClearStockThreadStep
<1>2. actor' = u /\ OthersKept(pg["user"], pg'["user"], "convs", u)
  BY <1>1 DEF ChatMoves
<1> QED  BY <1>1, <1>2, ChatMovesKeep

-----------------------------------------------------------------------------
(* Comments. *)

\* A comment has one author.
CommentsInv ==
  /\ DOMAIN pg = {"market", "user"} /\ IsDb(pg["market"]) /\ now \in Nat
  /\ Numbered(pg["market"], "comments", now)
  /\ \A x, y \in pg["market"]["comments"] : x.id = y.id => x.user = y.user

\* A user's comments, but for the count of reports against them.
Bare(x) == [x EXCEPT !.reports = 0]
Shown(db, v) == {Bare(x) : x \in RowsOf(db, "comments", v)}

\* What a request of u does to comments.
CommentMoves(u) ==
  /\ DOMAIN pg' = DOMAIN pg /\ IsDb(pg'["market"]) /\ now' = now + 1
  /\ Descend(pg'["market"]["comments"], pg["market"]["comments"], u)

LEMMA CommentMovesKeep ==
  ASSUME CommentsInv, NEW u, CommentMoves(u)
  PROVE  CommentsInv'
<1> DEFINE old == pg["market"]["comments"]
           new == pg'["market"]["comments"]
<1>1. /\ now \in Nat /\ now' = now + 1 /\ Descend(new, old, u)
      /\ \A x \in old : {"user", "id"} \subseteq DOMAIN x /\ x.id \in 0..(now - 1)
      /\ \A x, y \in old : x.id = y.id => x.user = y.user
  BY DEF CommentsInv, CommentMoves, Numbered
<1>2. \A x \in new : {"user", "id"} \subseteq DOMAIN x /\ x.id \in 0..now
  BY <1>1 DEF Descend
<1>3. ASSUME NEW x \in new, NEW y \in new, x.id = y.id
      PROVE  x.user = y.user
  <2>1. \A z \in new : \/ \E r \in old : z.id = r.id /\ z.user = r.user
                       \/ z.id = now /\ z.user = u
    BY <1>1 DEF Descend
  <2>2. CASE x.id = now
    <3>1. \A z \in new : z.id = now => z.user = u
      <4>1. \A r \in old : r.id # now
        BY <1>1
      <4> QED  BY <2>1, <4>1
    <3> QED  BY <1>3, <2>2, <3>1
  <2>3. CASE x.id # now
    BY <1>1, <1>3, <2>3 DEF Descend
  <2> QED  BY <2>2, <2>3
<1>4. Numbered(pg'["market"], "comments", now')
  BY <1>1, <1>2 DEF Numbered
<1> QED  BY <1>1, <1>3, <1>4 DEF CommentsInv, CommentMoves

LEMMA SameShown ==
  ASSUME NEW db, NEW new, NEW u, OthersKept(db, new, "comments", u)
  PROVE  \A v \in Users \ {u} : Shown(new, v) = Shown(db, v)
BY DEF OthersKept, Shown

\* Two tables whose rows are each other's, but for the count.
LEMMA CountNotShown ==
  ASSUME NEW db, NEW new, NEW v,
         \A x \in new["comments"] : \E y \in db["comments"] : x.user = y.user /\ Bare(x) = Bare(y),
         \A y \in db["comments"] : \E x \in new["comments"] : x.user = y.user /\ Bare(x) = Bare(y)
  PROVE  Shown(new, v) = Shown(db, v)
<1>1. \A x \in RowsOf(new, "comments", v) : \E y \in RowsOf(db, "comments", v) : Bare(x) = Bare(y)
  BY DEF RowsOf
<1>2. \A y \in RowsOf(db, "comments", v) : \E x \in RowsOf(new, "comments", v) : Bare(x) = Bare(y)
  BY DEF RowsOf
<1> QED  BY <1>1, <1>2 DEF Shown

LEMMA PostCommentStep ==
  ASSUME CommentsInv, PostComment
  PROVE  /\ CommentMoves(actor')
         /\ \A v \in Users \ {actor'} : Shown(pg'["market"], v) = Shown(pg["market"], v)
<1> DEFINE db == pg["market"]
           new == pg'["market"]
<1>1. DOMAIN pg = {"market", "user"} /\ IsDb(db) /\ Numbered(db, "comments", now)
  BY DEF CommentsInv
<1>2. PICK u \in Users, t \in Spellings \cup {""}, mentions \in SUBSET Tickers :
        LET r == [id |-> now, user |-> u, ticker |-> IF t = "" THEN "" ELSE Key(t), body |-> 0,
                  at |-> now, edited |-> 0, mentions |-> mentions] IN
          Call("comments", u, "SaveComment", M!SaveComment(mem, r), LAMBDA d : P!SaveComment(d, r))
  BY DEF PostComment
<1> DEFINE r == [id |-> now, user |-> u, ticker |-> IF t = "" THEN "" ELSE Key(t), body |-> 0,
                 at |-> now, edited |-> 0, mentions |-> mentions]
           q == [id |-> r.id, user |-> r.user, ticker |-> r.ticker, body |-> r.body, at |-> r.at,
                 edited |-> 0, deleted |-> FALSE, reports |-> 0]
           d1 == [db EXCEPT !["comments"] = db["comments"] \cup {q}]
<1>3. DOMAIN pg' = DOMAIN pg /\ now' = now + 1 /\ actor' = u /\ new = P!SaveComment(db, r)
  BY <1>1, <1>2 DEF Call, Route, UserMethods
<1>4. {"user", "id"} \subseteq DOMAIN q /\ q.id = now /\ q.user = u
  OBVIOUS
<1>5. "comments" \in P!TableNames /\ "mentions" \in P!TableNames
  BY TheTables
<1>6. \E S : new = [d1 EXCEPT !["mentions"] = S]
  <2>1. new = P!Mention(d1, r.id, r.mentions)
    BY <1>3 DEF P!SaveComment
  <2> HIDE DEF d1, r, new
  <2> QED  BY <2>1 DEF P!Mention
<1>7. IsDb(new) /\ new["comments"] = db["comments"] \cup {q}
  <2> HIDE DEF db, new, q
  <2> QED  BY <1>1, <1>5, <1>6 DEF IsDb
<1> HIDE DEF q
<1>8. Descend(new["comments"], db["comments"], u)
  BY <1>1, <1>4, <1>7 DEF Descend, Numbered
<1>9. OthersKept(db, new, "comments", u)
  BY <1>4, <1>7, OwnRowsReplaced
<1> QED  BY <1>3, <1>7, <1>8, <1>9, SameShown DEF CommentMoves

LEMMA PatchCommentStep ==
  ASSUME CommentsInv, PatchComment
  PROVE  /\ CommentMoves(actor')
         /\ \A v \in Users \ {actor'} : Shown(pg'["market"], v) = Shown(pg["market"], v)
<1> DEFINE db == pg["market"]
           new == pg'["market"]
<1>1. /\ DOMAIN pg = {"market", "user"} /\ IsDb(db) /\ Numbered(db, "comments", now)
      /\ \A x, y \in db["comments"] : x.id = y.id => x.user = y.user
  BY DEF CommentsInv
<1>2. PICK u \in Users, id \in Ids, mentions \in SUBSET Tickers :
        /\ DOMAIN pg' = DOMAIN pg /\ now' = now + 1 /\ actor' = u
        /\ new = P!UpdateComment(db, id, u, 1, mentions, now)
  BY <1>1 DEF PatchComment, Call, Route, UserMethods
<1>3. "comments" \in P!TableNames /\ "mentions" \in P!TableNames
  BY TheTables
<1>4. CASE new = db
  <2>1. Descend(new["comments"], db["comments"], u)
    BY <1>1, <1>4 DEF Descend, Numbered
  <2>2. OthersKept(db, new, "comments", u)
    BY <1>4 DEF OthersKept
  <2> QED  BY <1>1, <1>2, <1>4, <2>1, <2>2, SameShown DEF CommentMoves
<1>5. CASE new # db
  <2> DEFINE edited(x) == [x EXCEPT !.body = 1, !.edited = now]
             S == {IF x.id = id THEN edited(x) ELSE x : x \in db["comments"]}
             d1 == [db EXCEPT !["comments"] = S]
             d2 == [d1 EXCEPT !["mentions"] = {x \in d1["mentions"] : ~(x.comment = id)}]
  <2>1. /\ \E x \in db["comments"] : x.id = id /\ x.user = u
        /\ new = P!Mention(d2, id, mentions)
    BY <1>2, <1>5 DEF P!UpdateComment, P!Has, P!Update, P!Drop
  <2>2. \A x \in db["comments"] : x.id = id => x.user = u
    BY <1>1, <2>1
  <2>3. \E T : new = [d2 EXCEPT !["mentions"] = T]
    <3> HIDE DEF d2, new
    <3> QED  BY <2>1 DEF P!Mention
  <2>4. IsDb(new) /\ new["comments"] = S
    <3> HIDE DEF db, new, S
    <3> QED  BY <1>1, <1>3, <2>3 DEF IsDb
  <2>5. \A x : {"user", "id"} \subseteq DOMAIN x =>
          DOMAIN edited(x) = DOMAIN x /\ edited(x).id = x.id /\ edited(x).user = x.user
    OBVIOUS
  <2> HIDE DEF edited
  <2>6. Descend(S, db["comments"], u)
    BY <1>1, <2>5, EditedDescend DEF Numbered
  <2>7. OthersKept(db, new, "comments", u)
    <3>1. /\ \A x \in new["comments"] : x.user = u \/ x \in db["comments"]
          /\ \A x \in db["comments"] : x.user = u \/ x \in new["comments"]
      BY <1>1, <2>2, <2>4, <2>5 DEF Numbered
    <3> QED  BY <3>1, OwnRowsReplaced
  <2> HIDE DEF S
  <2> QED  BY <1>2, <2>4, <2>6, <2>7, SameShown DEF CommentMoves
<1> QED  BY <1>4, <1>5

LEMMA DeleteCommentStep ==
  ASSUME CommentsInv, DeleteComment
  PROVE  /\ \E u : CommentMoves(u)
         /\ actor' \in Users =>
              \A v \in Users \ {actor'} : Shown(pg'["market"], v) = Shown(pg["market"], v)
<1> DEFINE db == pg["market"]
           new == pg'["market"]
<1>1. DOMAIN pg = {"market", "user"} /\ IsDb(db) /\ Numbered(db, "comments", now)
  BY DEF CommentsInv
<1>2. PICK u \in Users, id \in Ids, admin \in BOOLEAN :
        /\ DOMAIN pg' = DOMAIN pg /\ now' = now + 1 /\ actor' = IF admin THEN "admin" ELSE u
        /\ new = P!DeleteComment(db, id, u, admin)
  BY <1>1 DEF DeleteComment, Call, Route, UserMethods
<1> DEFINE gone(x) == [x EXCEPT !.deleted = TRUE]
           S == {IF x.id = id /\ ~x.deleted /\ (admin \/ x.user = u) THEN gone(x) ELSE x : x \in db["comments"]}
<1>3. "comments" \in P!TableNames
  BY TheTables
<1>4. new = [db EXCEPT !["comments"] = S]
  BY <1>2 DEF P!DeleteComment, P!Update
<1>5. IsDb(new) /\ new["comments"] = S
  <2> HIDE DEF db, new, S
  <2> QED  BY <1>1, <1>3, <1>4 DEF IsDb
<1>6. \A x : {"user", "id"} \subseteq DOMAIN x =>
        DOMAIN gone(x) = DOMAIN x /\ gone(x).id = x.id /\ gone(x).user = x.user
  OBVIOUS
<1> HIDE DEF gone
<1>7. Descend(S, db["comments"], u)
  BY <1>1, <1>6, EditedDescend DEF Numbered
<1>8. ASSUME actor' \in Users
      PROVE  actor' = u /\ OthersKept(db, new, "comments", u)
  <2>1. ~admin /\ actor' = u
    BY <1>2, <1>8, UsersAssumption
  <2>2. /\ \A x \in new["comments"] : x.user = u \/ x \in db["comments"]
        /\ \A x \in db["comments"] : x.user = u \/ x \in new["comments"]
    BY <1>1, <1>5, <1>6, <2>1 DEF Numbered
  <2> QED  BY <2>1, <2>2, OwnRowsReplaced
<1>9. CommentMoves(u)
  <2> HIDE DEF S
  <2> QED  BY <1>2, <1>5, <1>7 DEF CommentMoves
<1> QED  BY <1>8, <1>9, SameShown

LEMMA LikeCommentStep ==
  ASSUME CommentsInv, LikeComment
  PROVE  /\ CommentMoves(actor')
         /\ \A v \in Users \ {actor'} : Shown(pg'["market"], v) = Shown(pg["market"], v)
<1> DEFINE db == pg["market"]
           new == pg'["market"]
<1>1. DOMAIN pg = {"market", "user"} /\ IsDb(db) /\ Numbered(db, "comments", now)
  BY DEF CommentsInv
<1>2. PICK u \in Users, id \in Ids :
        DOMAIN pg' = DOMAIN pg /\ now' = now + 1 /\ actor' = u /\ new = P!LikeComment(db, id, u)
  BY <1>1 DEF LikeComment, Call, Route, UserMethods
<1>3. \E S : new = [db EXCEPT !["likes"] = S] \/ new = db
  <2> HIDE DEF db, new
  <2> QED  BY <1>2 DEF P!LikeComment
<1>4. IsDb(new) /\ new["comments"] = db["comments"]
  <2> HIDE DEF db, new
  <2> QED  BY <1>1, <1>3, TheTables DEF IsDb
<1>5. Descend(new["comments"], db["comments"], u)
  BY <1>1, <1>4 DEF Descend, Numbered
<1>6. OthersKept(db, new, "comments", u)
  BY <1>4 DEF OthersKept, RowsOf
<1> QED  BY <1>2, <1>4, <1>5, <1>6, SameShown DEF CommentMoves

\* A report counts against a comment of anyone, and shows nowhere.
LEMMA ReportCommentStep ==
  ASSUME CommentsInv, ReportComment
  PROVE  /\ CommentMoves(actor')
         /\ \A v \in Users \ {actor'} : Shown(pg'["market"], v) = Shown(pg["market"], v)
<1> DEFINE db == pg["market"]
           new == pg'["market"]
<1>1. DOMAIN pg = {"market", "user"} /\ IsDb(db) /\ Numbered(db, "comments", now)
  BY DEF CommentsInv
<1>2. PICK u \in Users, id \in Ids :
        DOMAIN pg' = DOMAIN pg /\ now' = now + 1 /\ actor' = u /\ new = P!ReportComment(db, id)
  BY <1>1 DEF ReportComment, Call, Route, UserMethods
<1> DEFINE counted(x) == [x EXCEPT !.reports = x.reports + 1]
           after(x) == IF x.id = id /\ ~x.deleted THEN counted(x) ELSE x
           S == {after(x) : x \in db["comments"]}
<1>3. "comments" \in P!TableNames
  BY TheTables
<1>4. new = [db EXCEPT !["comments"] = S]
  BY <1>2 DEF P!ReportComment, P!Update
<1>5. IsDb(new) /\ new["comments"] = S
  <2> HIDE DEF db, new, S
  <2> QED  BY <1>1, <1>3, <1>4 DEF IsDb
<1>6. \A x : {"user", "id"} \subseteq DOMAIN x =>
        DOMAIN counted(x) = DOMAIN x /\ counted(x).id = x.id /\ counted(x).user = x.user
  OBVIOUS
<1>7. \A x : Bare(counted(x)) = Bare(x)
  BY DEF Bare
<1> HIDE DEF counted
<1>8. \A x \in db["comments"] : /\ {"user", "id"} \subseteq DOMAIN x /\ DOMAIN after(x) = DOMAIN x
                               /\ after(x).id = x.id /\ after(x).user = x.user
                               /\ Bare(after(x)) = Bare(x)
  BY <1>1, <1>6, <1>7 DEF Numbered
<1> HIDE DEF after
<1>9. Descend(S, db["comments"], u)
  <2>1. \A x \in S : \E y \in db["comments"] : DOMAIN x = DOMAIN y /\ x.id = y.id /\ x.user = y.user
    BY <1>8
  <2>2. \A y \in db["comments"] : {"user", "id"} \subseteq DOMAIN y
    BY <1>8
  <2> HIDE DEF S
  <2> QED  BY <2>1, <2>2, EditedDescend
<1>10. ASSUME NEW v \in Users
      PROVE  Shown(new, v) = Shown(db, v)
  <2>1. \A x \in new["comments"] : \E y \in db["comments"] : x.user = y.user /\ Bare(x) = Bare(y)
    BY <1>5, <1>8
  <2>2. \A y \in db["comments"] : \E x \in new["comments"] : x.user = y.user /\ Bare(x) = Bare(y)
    BY <1>5, <1>8
  <2> QED  BY <2>1, <2>2, CountNotShown
<1>11. CommentMoves(u)
  <2> HIDE DEF S
  <2> QED  BY <1>2, <1>5, <1>9 DEF CommentMoves
<1> QED  BY <1>2, <1>10, <1>11

LEMMA CommentsStep ==
  ASSUME CommentsInv, PostComment \/ PatchComment \/ DeleteComment \/ LikeComment \/ ReportComment
  PROVE  /\ CommentsInv'
         /\ actor' \in Users =>
              \A v \in Users \ {actor'} : Shown(pg'["market"], v) = Shown(pg["market"], v)
<1>1. \E u : CommentMoves(u)
  BY PostCommentStep, PatchCommentStep, DeleteCommentStep, LikeCommentStep, ReportCommentStep
<1>2. actor' \in Users => \A v \in Users \ {actor'} : Shown(pg'["market"], v) = Shown(pg["market"], v)
  BY PostCommentStep, PatchCommentStep, DeleteCommentStep, LikeCommentStep, ReportCommentStep
<1> QED  BY <1>1, <1>2, CommentMovesKeep

-----------------------------------------------------------------------------
(* The actions of a family, and the loss of the user database. *)

KeptActions == PostWatchlist \/ DeleteWatchlist \/ PutMyPrefs
NotesActions == PostNote \/ PatchNote \/ DeleteNote
AlertsActions == PostAlert \/ ReactivateAlert \/ DeleteAlert \/ FireAlert
HoldingsActions == PostHolding \/ DeleteHolding
ChatActions ==
  PostConversation \/ AppendTurn \/ PatchConversation \/ DeleteConversation \/ ClearStockThread
CommentsActions == PostComment \/ PatchComment \/ DeleteComment \/ LikeComment \/ ReportComment

\* The families whose rows are shown to their owners.
OwnFamilies == {"kept", "clips", "notes", "alerts", "holdings", "chat", "comments"}

CollectedFamilies == {"facts", "filed", "news", "social", "texts"}
BillingActions == SaveSubscription \/ SeeEvent \/ PostEvent

LEMMA CollectFamily == ASSUME Collect PROVE family \in CollectedFamilies /\ family' = family
<1> USE DEF Call, CollectedFamilies
<1>1. CASE SaveSecurity \/ SaveQuote \/ SaveSignal \/ SaveEarning
  BY <1>1 DEF SaveSecurity, SaveQuote, SaveSignal, SaveEarning
<1>2. CASE SaveFiling \/ SaveInsiderBuy \/ MarkSeen \/ PruneFiled
  BY <1>2 DEF SaveFiling, SaveInsiderBuy, MarkSeen, PruneFiled
<1>3. CASE SaveNewsItem \/ Translate \/ PruneNewsItems \/ CapNews
  BY <1>3 DEF SaveNewsItem, Translate, PruneNewsItems, CapNews
<1>4. CASE SavePost \/ PrunePosts \/ CapPosts
  BY <1>4 DEF SavePost, PrunePosts, CapPosts
<1>5. CASE SaveBoards
  <2>1. family \in {"news", "social"} /\ SaveBoard
    BY <1>5 DEF SaveBoards
  <2>2. family' = family
    BY <2>1 DEF SaveBoard
  <2> QED  BY <2>1, <2>2
<1>6. CASE SaveScore \/ SaveReport \/ SaveDigest
  BY <1>6 DEF SaveScore, SaveReport, SaveDigest
<1> QED  BY <1>1, <1>2, <1>3, <1>4, <1>5, <1>6 DEF Collect

LEMMA FamilyStep ==
  ASSUME StoresNext
  PROVE  /\ family' = family
         /\ \/ LoseUserDatabase
            \/ family \in CollectedFamilies
            \/ family = "meters" /\ Spend
            \/ family = "billing" /\ BillingActions
            \/ family = "kept" /\ KeptActions
            \/ family = "clips" /\ PostClip
            \/ family = "notes" /\ NotesActions
            \/ family = "alerts" /\ AlertsActions
            \/ family = "holdings" /\ HoldingsActions
            \/ family = "chat" /\ ChatActions
            \/ family = "comments" /\ CommentsActions
<1>1. KeptActions => family = "kept" /\ family' = family
  <2>1. PostWatchlist \/ DeleteWatchlist => family = "kept" /\ family' = family
    BY DEF PostWatchlist, DeleteWatchlist, Call
  <2>2. PutMyPrefs => family = "kept" /\ family' = family
    BY DEF PutMyPrefs, Call
  <2> QED  BY <2>1, <2>2 DEF KeptActions
<1>2. PostClip => family = "clips" /\ family' = family
  BY DEF PostClip, Call
<1>3. NotesActions => family = "notes" /\ family' = family
  BY DEF NotesActions, PostNote, PatchNote, DeleteNote, Call
<1>4. AlertsActions => family = "alerts" /\ family' = family
  BY DEF AlertsActions, PostAlert, ReactivateAlert, DeleteAlert, FireAlert, Call
<1>5. HoldingsActions => family = "holdings" /\ family' = family
  BY DEF HoldingsActions, PostHolding, DeleteHolding, Call
<1>6. ChatActions => family = "chat" /\ family' = family
  BY DEF ChatActions, PostConversation, AppendTurn, PatchConversation, DeleteConversation,
         ClearStockThread, Call
<1>7. CommentsActions => family = "comments" /\ family' = family
  BY DEF CommentsActions, PostComment, PatchComment, DeleteComment, LikeComment, ReportComment, Call
<1>8. /\ Spend => family = "meters" /\ family' = family
      /\ BillingActions => family = "billing" /\ family' = family
  BY DEF Spend, BillingActions, SaveSubscription, SeeEvent, PostEvent, Call
<1>9. LoseUserDatabase => family' = family
  BY DEF LoseUserDatabase
<1> QED
  BY <1>1, <1>2, <1>3, <1>4, <1>5, <1>6, <1>7, <1>8, <1>9, CollectFamily
  DEF StoresNext, Keep, Converse, KeptActions, NotesActions, AlertsActions, HoldingsActions,
      ChatActions, CommentsActions, BillingActions

\* What holds of the rows of a behaviour's family.
RowsInv ==
  /\ family = "kept" => KeptInv
  /\ family = "clips" => ClipsInv
  /\ family = "notes" => NotesInv
  /\ family = "alerts" => AlertsInv
  /\ family = "holdings" => HoldingsInv
  /\ family = "chat" => ChatInv
  /\ family = "comments" => CommentsInv

LEMMA EmptyTables == /\ \A t \in P!TableNames : P!EmptyDb[t] = {}
                     /\ IsDb(P!EmptyDb) /\ IsDb(M!EmptyDb) /\ \A t \in P!TableNames : M!EmptyDb[t] = {}
BY SameTables DEF P!EmptyDb, M!EmptyDb, IsDb

LEMMA RowsInvInit == ASSUME StoresInit PROVE RowsInv
<1> DEFINE db == pg["user"]
           market == pg["market"]
<1>1. /\ DOMAIN pg = {"market", "user"} /\ db = P!EmptyDb /\ market = P!EmptyDb
      /\ mem = M!EmptyDb /\ now = 1
  BY DEF StoresInit
<1>2. /\ IsDb(db) /\ IsDb(market) /\ IsDb(mem)
      /\ db["watch"] = {} /\ db["prefs"] = {} /\ db["clips"] = {} /\ db["notes"] = {}
      /\ db["alerts"] = {} /\ db["holdings"] = {} /\ db["convs"] = {} /\ db["msgs"] = {}
      /\ market["comments"] = {} /\ mem["convs"] = {}
  BY <1>1, EmptyTables, TheTables
<1> HIDE DEF db, market
<1>3. KeptInv /\ ClipsInv /\ NotesInv /\ AlertsInv /\ HoldingsInv
  BY <1>1, <1>2 DEF KeptInv, ClipsInv, NotesInv, AlertsInv, HoldingsInv, Owned, Numbered, db
<1>4. ChatInv /\ CommentsInv
  BY <1>1, <1>2 DEF ChatInv, CommentsInv, Numbered, db, market
<1> QED  BY <1>3, <1>4 DEF RowsInv

LEMMA LossStep ==
  ASSUME RowsInv, family \in OwnFamilies, LoseUserDatabase
  PROVE  RowsInv' /\ actor' \notin Users
<1> DEFINE db == pg'["user"]
<1>1. DOMAIN pg = {"market", "user"}
  BY DEF RowsInv, OwnFamilies, KeptInv, ClipsInv, NotesInv, AlertsInv, HoldingsInv, ChatInv, CommentsInv
<1>2. /\ DOMAIN pg' = {"market", "user"} /\ db = P!EmptyDb /\ pg'["market"] = pg["market"]
      /\ actor' = "loss" /\ now' = now + 1 /\ family' = family
  BY <1>1 DEF LoseUserDatabase
<1>3. /\ IsDb(db) /\ db["watch"] = {} /\ db["prefs"] = {} /\ db["clips"] = {} /\ db["notes"] = {}
      /\ db["alerts"] = {} /\ db["holdings"] = {} /\ db["convs"] = {} /\ db["msgs"] = {}
  BY <1>2, EmptyTables, TheTables
<1> HIDE DEF db
<1>4. KeptInv' /\ ClipsInv' /\ HoldingsInv'
  BY <1>2, <1>3 DEF KeptInv, ClipsInv, HoldingsInv, Owned, db
<1>5. now \in Nat => NotesInv' /\ AlertsInv'
  BY <1>2, <1>3 DEF NotesInv, AlertsInv, Numbered, db
<1>6. IsDb(mem) => IsDb(mem') /\ mem'["convs"] = {}
  BY TheTables DEF LoseUserDatabase, IsDb, Rebuildable
<1>7. ChatInv => ChatInv'
  BY <1>2, <1>3, <1>6 DEF ChatInv, Numbered, db
<1>8. CommentsInv => CommentsInv'
  BY <1>2 DEF CommentsInv, Numbered
<1>9. family \in {"notes", "alerts"} => now \in Nat
  BY DEF RowsInv, NotesInv, AlertsInv
<1>10. actor' \notin Users
  BY <1>2, UsersAssumption
<1> QED  BY <1>2, <1>4, <1>5, <1>7, <1>8, <1>9, <1>10 DEF RowsInv

LEMMA RowsInvNext == ASSUME RowsInv, [StoresNext]_storeVars PROVE RowsInv'
<1>1. CASE UNCHANGED storeVars
  BY <1>1 DEF storeVars, RowsInv, KeptInv, ClipsInv, NotesInv, AlertsInv, HoldingsInv, ChatInv,
              CommentsInv, Owned, Numbered, IsDb
<1>2. CASE StoresNext /\ family \notin OwnFamilies
  BY <1>2, FamilyStep DEF RowsInv, OwnFamilies
<1>3. CASE StoresNext /\ family \in OwnFamilies
  <2>1. CASE LoseUserDatabase
    BY <1>3, <2>1, LossStep
  <2>2. CASE ~LoseUserDatabase
    <3>1. /\ family' = family
          /\ \/ family = "kept" /\ KeptActions
             \/ family = "clips" /\ PostClip
             \/ family = "notes" /\ NotesActions
             \/ family = "alerts" /\ AlertsActions
             \/ family = "holdings" /\ HoldingsActions
             \/ family = "chat" /\ ChatActions
             \/ family = "comments" /\ CommentsActions
      BY <1>3, <2>2, FamilyStep DEF OwnFamilies, CollectedFamilies
    <3>2. CASE family = "kept"
      BY <3>1, <3>2, KeptStep DEF RowsInv, KeptActions
    <3>3. CASE family = "clips"
      BY <3>1, <3>3, ClipsStep DEF RowsInv
    <3>4. CASE family = "notes"
      BY <3>1, <3>4, NotesStep DEF RowsInv, NotesActions
    <3>5. CASE family = "alerts"
      BY <3>1, <3>5, AlertsStep DEF RowsInv, AlertsActions
    <3>6. CASE family = "holdings"
      BY <3>1, <3>6, HoldingsStep DEF RowsInv, HoldingsActions
    <3>7. CASE family = "chat"
      BY <3>1, <3>7, ChatStep DEF RowsInv, ChatActions
    <3>8. CASE family = "comments"
      BY <3>1, <3>8, CommentsStep DEF RowsInv, CommentsActions
    <3> QED  BY <1>3, <3>2, <3>3, <3>4, <3>5, <3>6, <3>7, <3>8 DEF OwnFamilies
  <2> QED  BY <2>1, <2>2
<1> QED  BY <1>1, <1>2, <1>3

-----------------------------------------------------------------------------
(* What a user is shown depends on the user's own rows. *)

ChatView(db, v) ==
  <<P!ListConversations(db, v),
    [id \in {c.id : c \in {x \in db.convs : x.user = v}} |-> P!ListChatMessages(db, id, 0)]>>

LEMMA KeptShown ==
  ASSUME NEW db, NEW new, NEW v, RowsOf(new, "watch", v) = RowsOf(db, "watch", v),
         RowsOf(new, "prefs", v) = RowsOf(db, "prefs", v)
  PROVE  P!Watchlist(new, v) = P!Watchlist(db, v) /\ P!GetPrefs(new, v) = P!GetPrefs(db, v)
BY DEF P!Watchlist, P!GetPrefs, RowsOf

LEMMA ClipsShown ==
  ASSUME NEW db, NEW new, NEW v, RowsOf(new, "clips", v) = RowsOf(db, "clips", v)
  PROVE  \A t : P!ListClips(new, v, t, 0) = P!ListClips(db, v, t, 0)
<1>1. ASSUME NEW t
      PROVE  {x \in P!Of(new, "clips", t) : x.user = v} = {x \in P!Of(db, "clips", t) : x.user = v}
  <2>1. \A x : x \in RowsOf(new, "clips", v) <=> x \in RowsOf(db, "clips", v)
    OBVIOUS
  <2> QED  BY <2>1 DEF P!Of, RowsOf
<1> QED  BY <1>1 DEF P!ListClips

LEMMA NotesShown ==
  ASSUME NEW db, NEW new, NEW v, RowsOf(new, "notes", v) = RowsOf(db, "notes", v)
  PROVE  P!ListNotes(new, v, "", 0, 0, 0) = P!ListNotes(db, v, "", 0, 0, 0)
<1> DEFINE onDay(x) == /\ 0 > 0 => x.date # 0 /\ x.date >= 0
                       /\ 0 > 0 => x.date # 0 /\ x.date <= 0
           wanted(d) == {x \in d["notes"] : x.user = v /\ ("" # "" => x.ticker = "") /\ onDay(x)}
<1>1. wanted(new) = wanted(db)
  <2>1. \A x : x \in RowsOf(new, "notes", v) <=> x \in RowsOf(db, "notes", v)
    OBVIOUS
  <2> HIDE DEF onDay
  <2> QED  BY <2>1 DEF RowsOf
<1>2. \A d : P!ListNotes(d, v, "", 0, 0, 0) =
               P!Limited(P!Descending({x \in wanted(d) : x.pinned}, "at") \o
                         P!Descending({x \in wanted(d) : ~x.pinned}, "at"), 0)
  BY DEF P!ListNotes
<1> HIDE DEF wanted
<1> QED  BY <1>1, <1>2

LEMMA AlertsShown ==
  ASSUME NEW db, NEW new, NEW v, RowsOf(new, "alerts", v) = RowsOf(db, "alerts", v)
  PROVE  P!ListAlerts(new, v) = P!ListAlerts(db, v)
BY DEF P!ListAlerts, RowsOf

LEMMA HoldingsShown ==
  ASSUME NEW db, NEW new, NEW v, RowsOf(new, "holdings", v) = RowsOf(db, "holdings", v)
  PROVE  P!ListHoldings(new, v) = P!ListHoldings(db, v)
BY DEF P!ListHoldings, RowsOf

LEMMA ChatShown ==
  ASSUME NEW db, NEW new, NEW v, RowsOf(new, "convs", v) = RowsOf(db, "convs", v),
         \A x \in RowsOf(db, "convs", v) : MsgsOf(new, x.id) = MsgsOf(db, x.id)
  PROVE  ChatView(new, v) = ChatView(db, v)
<1> DEFINE ids == {c.id : c \in RowsOf(db, "convs", v)}
<1>1. P!ListConversations(new, v) = P!ListConversations(db, v)
  BY DEF P!ListConversations, RowsOf
<1>2. \A id \in ids : P!ListChatMessages(new, id, 0) = P!ListChatMessages(db, id, 0)
  BY DEF P!ListChatMessages, MsgsOf
<1>3. \A d : ChatView(d, v) = <<P!ListConversations(d, v),
                               [id \in {c.id : c \in RowsOf(d, "convs", v)} |-> P!ListChatMessages(d, id, 0)]>>
  BY DEF ChatView, RowsOf
<1>4. /\ ChatView(db, v) = <<P!ListConversations(db, v), [id \in ids |-> P!ListChatMessages(db, id, 0)]>>
      /\ ChatView(new, v) = <<P!ListConversations(new, v), [id \in ids |-> P!ListChatMessages(new, id, 0)]>>
  BY <1>3
<1> HIDE DEF ids
<1>5. [id \in ids |-> P!ListChatMessages(new, id, 0)] = [id \in ids |-> P!ListChatMessages(db, id, 0)]
  BY <1>2
<1> QED  BY <1>1, <1>4, <1>5

ViewIsOfRows ==
  \A v : LET db == pg["user"] IN
    /\ family = "kept" => ViewOf(v) = <<P!Watchlist(db, v), P!GetPrefs(db, v)>>
    /\ family = "clips" => ViewOf(v) = [t \in Tickers |-> P!ListClips(db, v, t, 0)]
    /\ family = "notes" => ViewOf(v) = P!ListNotes(db, v, "", 0, 0, 0)
    /\ family = "alerts" => ViewOf(v) = P!ListAlerts(db, v)
    /\ family = "holdings" => ViewOf(v) = P!ListHoldings(db, v)
    /\ family = "chat" => ViewOf(v) = ChatView(db, v)
    /\ family = "comments" => ViewOf(v) = Shown(pg["market"], v)
    /\ family \notin OwnFamilies => ViewOf(v) = <<>>

LEMMA TheView == ViewIsOfRows
<1>1. ASSUME NEW v
      PROVE  LET db == pg["user"] IN
        /\ family = "kept" => ViewOf(v) = <<P!Watchlist(db, v), P!GetPrefs(db, v)>>
        /\ family = "clips" => ViewOf(v) = [t \in Tickers |-> P!ListClips(db, v, t, 0)]
        /\ family = "notes" => ViewOf(v) = P!ListNotes(db, v, "", 0, 0, 0)
        /\ family = "alerts" => ViewOf(v) = P!ListAlerts(db, v)
        /\ family = "holdings" => ViewOf(v) = P!ListHoldings(db, v)
        /\ family = "chat" => ViewOf(v) = ChatView(db, v)
        /\ family = "comments" => ViewOf(v) = Shown(pg["market"], v)
        /\ family \notin OwnFamilies => ViewOf(v) = <<>>
  BY DEF ViewOf, On, Route, UserMethods, ChatView, Shown, Bare, RowsOf, OwnFamilies
<1> QED  BY <1>1 DEF ViewIsOfRows

-----------------------------------------------------------------------------
\* A step by which only the actor's view changes.
OthersStep == \A u \in Users : actor' \in Users \ {u} => ViewOf(u)' = ViewOf(u)

LEMMA OthersNext ==
  ASSUME RowsInv, ViewIsOfRows, ViewIsOfRows', [StoresNext]_storeVars
  PROVE  [OthersStep]_storeVars
<1> DEFINE db == pg["user"]
           new == pg'["user"]
<1>1. SUFFICES ASSUME StoresNext, NEW v \in Users, actor' \in Users \ {v}
               PROVE  ViewOf(v)' = ViewOf(v)
  BY DEF OthersStep
<1>2. /\ family' = family
      /\ \/ LoseUserDatabase
         \/ family \notin OwnFamilies
         \/ family = "kept" /\ KeptActions
         \/ family = "clips" /\ PostClip
         \/ family = "notes" /\ NotesActions
         \/ family = "alerts" /\ AlertsActions
         \/ family = "holdings" /\ HoldingsActions
         \/ family = "chat" /\ ChatActions
         \/ family = "comments" /\ CommentsActions
  BY <1>1, FamilyStep DEF OwnFamilies, CollectedFamilies
<1>3. v \in Users \ {actor'} /\ ~(family \in OwnFamilies /\ LoseUserDatabase)
  BY <1>1, LossStep
<1>4. CASE family \notin OwnFamilies
  BY <1>2, <1>4 DEF ViewIsOfRows
<1>5. CASE family = "kept" /\ KeptActions
  <2>1. RowsOf(new, "watch", v) = RowsOf(db, "watch", v) /\ RowsOf(new, "prefs", v) = RowsOf(db, "prefs", v)
    BY <1>3, <1>5, KeptStep DEF RowsInv, KeptActions, OthersKept
  <2>2. P!Watchlist(new, v) = P!Watchlist(db, v) /\ P!GetPrefs(new, v) = P!GetPrefs(db, v)
    BY <2>1, KeptShown
  <2>3. /\ ViewOf(v) = <<P!Watchlist(db, v), P!GetPrefs(db, v)>>
        /\ ViewOf(v)' = <<P!Watchlist(new, v), P!GetPrefs(new, v)>>
    BY <1>2, <1>5 DEF ViewIsOfRows
  <2> QED  BY <2>2, <2>3
<1>6. CASE family = "clips" /\ PostClip
  <2>1. RowsOf(new, "clips", v) = RowsOf(db, "clips", v)
    BY <1>3, <1>6, ClipsStep DEF RowsInv, OthersKept
  <2>2. \A t \in Tickers : P!ListClips(new, v, t, 0) = P!ListClips(db, v, t, 0)
    BY <2>1, ClipsShown
  <2>3. /\ ViewOf(v) = [t \in Tickers |-> P!ListClips(db, v, t, 0)]
        /\ ViewOf(v)' = [t \in Tickers |-> P!ListClips(new, v, t, 0)]
    BY <1>2, <1>6 DEF ViewIsOfRows, Tickers
  <2> QED  BY <2>2, <2>3
<1>7. CASE family = "notes" /\ NotesActions
  <2>1. RowsOf(new, "notes", v) = RowsOf(db, "notes", v)
    BY <1>3, <1>7, NotesStep DEF RowsInv, NotesActions, OthersKept
  <2>2. P!ListNotes(new, v, "", 0, 0, 0) = P!ListNotes(db, v, "", 0, 0, 0)
    BY <2>1, NotesShown
  <2> QED  BY <1>2, <1>7, <2>2 DEF ViewIsOfRows
<1>8. CASE family = "alerts" /\ AlertsActions
  <2>1. RowsOf(new, "alerts", v) = RowsOf(db, "alerts", v)
    BY <1>1, <1>3, <1>8, AlertsStep DEF RowsInv, AlertsActions, OthersKept
  <2>2. P!ListAlerts(new, v) = P!ListAlerts(db, v)
    BY <2>1, AlertsShown
  <2> QED  BY <1>2, <1>8, <2>2 DEF ViewIsOfRows
<1>9. CASE family = "holdings" /\ HoldingsActions
  <2>1. RowsOf(new, "holdings", v) = RowsOf(db, "holdings", v)
    BY <1>3, <1>9, HoldingsStep DEF RowsInv, HoldingsActions, OthersKept
  <2>2. P!ListHoldings(new, v) = P!ListHoldings(db, v)
    BY <2>1, HoldingsShown
  <2> QED  BY <1>2, <1>9, <2>2 DEF ViewIsOfRows
<1>10. CASE family = "chat" /\ ChatActions
  <2>1. /\ RowsOf(new, "convs", v) = RowsOf(db, "convs", v)
        /\ \A x \in RowsOf(db, "convs", v) : MsgsOf(new, x.id) = MsgsOf(db, x.id)
    BY <1>3, <1>10, ChatStep DEF RowsInv, ChatActions, OthersKept
  <2>2. ChatView(new, v) = ChatView(db, v)
    BY <2>1, ChatShown
  <2> QED  BY <1>2, <1>10, <2>2 DEF ViewIsOfRows
<1>11. CASE family = "comments" /\ CommentsActions
  <2>1. Shown(pg'["market"], v) = Shown(pg["market"], v)
    BY <1>1, <1>3, <1>11, CommentsStep DEF RowsInv, CommentsActions
  <2> QED  BY <1>2, <1>11, <2>1 DEF ViewIsOfRows
<1> QED
  BY <1>2, <1>3, <1>4, <1>5, <1>6, <1>7, <1>8, <1>9, <1>10, <1>11 DEF OwnFamilies

\* No request of a user, whatever id it names, changes what another user is shown of their own:
\* for any users, tickers and number of calls (the WHERE user_id = $n of internal/store/postgres,
\* and the owner checks of the handlers).
THEOREM OthersKeepTheirOwn == ASSUME UsersAssumption PROVE StoresSpec => OthersUntouched
<1>1. StoresInit => RowsInv
  BY RowsInvInit
<1>2. RowsInv /\ [StoresNext]_storeVars => RowsInv'
  BY RowsInvNext
<1>3. RowsInv /\ ViewIsOfRows /\ ViewIsOfRows' /\ [StoresNext]_storeVars => [OthersStep]_storeVars
  BY OthersNext
<1>4. ViewIsOfRows
  BY TheView
<1>5. StoresSpec => [][OthersStep]_storeVars
  BY <1>1, <1>2, <1>3, <1>4, PTL DEF StoresSpec
<1> QED  BY <1>5, PTL DEF OthersUntouched, OthersStep

-----------------------------------------------------------------------------
(* Upserts that replace a row, and the sorts of both stores. *)

\* A record with these columns.
IsRow(x, cols) == x = [c \in cols |-> x[c]]

\* Writing every column in which the rows differ makes the row written.
LEMMA OverlayIs ==
  ASSUME NEW D, NEW x, NEW r, NEW C, IsRow(x, D), IsRow(r, D), \A c \in D \ C : x[c] = r[c]
  PROVE  P!Overlay(x, r, C) = r
BY DEF P!Overlay, IsRow

\* The rows after an upsert that writes every column its key does not fix.
LEMMA MergeReplaces ==
  ASSUME NEW db, IsDb(db), NEW t \in P!TableNames, NEW key, NEW r, NEW cols,
         \A x \in P!Matching(db, t, r, key) : P!Overlay(x, r, cols) = r
  PROVE  LET new == P!Merge(db, t, key, r, cols) IN
           /\ IsDb(new) /\ new[t] = (db[t] \ P!Matching(db, t, r, key)) \cup {r}
           /\ \A s \in P!TableNames \ {t} : new[s] = db[s]
<1> DEFINE old == P!Matching(db, t, r, key)
           put == IF old = {} THEN db[t] \cup {r}
                  ELSE (db[t] \ old) \cup {P!Overlay(x, r, cols) : x \in old}
<1>1. P!Merge(db, t, key, r, cols) = [db EXCEPT ![t] = put]
  BY DEF P!Merge
<1>2. put = (db[t] \ old) \cup {r}
  <2>1. \A x \in old : P!Overlay(x, r, cols) = r
    OBVIOUS
  <2> HIDE DEF old
  <2>2. old # {} => {P!Overlay(x, r, cols) : x \in old} = {r}
    BY <2>1
  <2> QED  BY <2>2
<1> HIDE DEF put, old
<1> QED  BY <1>1, <1>2 DEF IsDb, old

\* The same in the memory store.
LEMMA RowReplaced ==
  ASSUME NEW db, IsDb(db), NEW t \in P!TableNames, NEW key, NEW r
  PROVE  LET new == M!Replace(db, t, key, r) IN
           /\ IsDb(new) /\ new[t] = (db[t] \ P!Matching(db, t, r, key)) \cup {r}
           /\ \A s \in P!TableNames \ {t} : new[s] = db[s]
<1> DEFINE put == (db[t] \ P!Matching(db, t, r, key)) \cup {r}
<1>1. M!Matching(db, t, r, key) = P!Matching(db, t, r, key)
  BY DEF M!Matching, P!Matching
<1>2. M!Replace(db, t, key, r) = [db EXCEPT ![t] = put]
  BY <1>1 DEF M!Replace
<1> HIDE DEF put
<1>3. /\ IsDb(M!Replace(db, t, key, r)) /\ M!Replace(db, t, key, r)[t] = put
      /\ \A s \in P!TableNames \ {t} : M!Replace(db, t, key, r)[s] = db[s]
  BY <1>2 DEF IsDb
<1> QED  BY <1>3 DEF put

\* Each store instantiates the library of its own.
LEMMA SameDescending == ASSUME NEW S, NEW c PROVE M!Descending(S, c) = P!Descending(S, c)
<1>1. M!Cardinality(S) = P!Cardinality(S)
  BY DEF M!Cardinality, P!Cardinality
<1>2. M!SetToSeq(S) = P!SetToSeq(S)
  BY <1>1 DEF M!SetToSeq, P!SetToSeq, M!IsInjective, P!IsInjective
<1> QED  BY <1>2 DEF M!Descending, P!Descending, M!SetToSortSeq, P!SetToSortSeq

LEMMA SameAscending == ASSUME NEW S, NEW c PROVE M!Ascending(S, c) = P!Ascending(S, c)
<1>1. M!Cardinality(S) = P!Cardinality(S)
  BY DEF M!Cardinality, P!Cardinality
<1>2. M!SetToSeq(S) = P!SetToSeq(S)
  BY <1>1 DEF M!SetToSeq, P!SetToSeq, M!IsInjective, P!IsInjective
<1> QED  BY <1>2 DEF M!Ascending, P!Ascending, M!SetToSortSeq, P!SetToSortSeq

-----------------------------------------------------------------------------
\* Watchlists and preferences: the same rows in both deployments.
KeptTwin ==
  /\ IsDb(mem) /\ mem["watch"] = pg["user"]["watch"] /\ mem["prefs"] = pg["user"]["prefs"]
  /\ \A x \in pg["user"]["watch"] : IsRow(x, {"user", "ticker", "at"})
  /\ \A x \in pg["user"]["prefs"] : IsRow(x, {"user", "blob"})

LEMMA KeptTwinStep ==
  ASSUME KeptInv, KeptTwin, KeptActions
  PROVE  KeptTwin'
<1> DEFINE db == pg["user"]
           new == pg'["user"]
           W == {"user", "ticker", "at"}
<1>1. /\ "watch" \in P!TableNames /\ "prefs" \in P!TableNames
      /\ DOMAIN pg = {"market", "user"} /\ IsDb(db)
      /\ IsDb(mem) /\ mem["watch"] = db["watch"] /\ mem["prefs"] = db["prefs"]
      /\ \A x \in db["watch"] : IsRow(x, W)
      /\ \A x \in db["prefs"] : IsRow(x, {"user", "blob"})
  BY TheTables DEF KeptInv, KeptTwin
<1>2. SUFFICES /\ IsDb(mem') /\ mem'["watch"] = new["watch"] /\ mem'["prefs"] = new["prefs"]
               /\ \A x \in new["watch"] : IsRow(x, W)
               /\ \A x \in new["prefs"] : IsRow(x, {"user", "blob"})
  BY <1>2 DEF KeptTwin
<1>3. CASE PostWatchlist
  <2>1. PICK u \in Users, t \in Spellings :
          mem' = M!AddToWatchlist(mem, u, Key(t), now) /\ new = P!AddToWatchlist(db, u, Key(t), now)
    BY <1>1, <1>3 DEF PostWatchlist, Call, Route, UserMethods
  <2> DEFINE k == Key(t)
             r == [user |-> u, ticker |-> k, at |-> now]
             old == {x \in db["watch"] : x.user = u /\ x.ticker = k}
  <2>2. Key(k) = k /\ k # "" /\ u # ""
    BY KeyAssumption, UsersAssumption
  <2>3. IsRow(r, W)
    BY DEF IsRow
  <2>4. P!Matching(db, "watch", r, {"user", "ticker"}) = old
    BY DEF P!Matching
  <2>5. new = [db EXCEPT !["watch"] = IF old = {} THEN db["watch"] \cup {r}
                                      ELSE (db["watch"] \ old) \cup {P!Overlay(x, r, {}) : x \in old}]
    BY <2>1, <2>4 DEF P!AddToWatchlist, P!Merge
  <2>6. mem' = IF old = {} THEN [mem EXCEPT !["watch"] = mem["watch"] \cup {r}] ELSE mem
    BY <1>1, <2>1, <2>2 DEF M!AddToWatchlist, M!Has
  <2>7. \A x \in old : P!Overlay(x, r, {}) = x
    BY <1>1 DEF P!Overlay, IsRow
  <2>8. old # {} => (db["watch"] \ old) \cup {P!Overlay(x, r, {}) : x \in old} = db["watch"]
    BY <2>7
  <2> HIDE DEF old, r, W
  <2>9. CASE old = {}
    BY <1>1, <2>3, <2>5, <2>6, <2>9 DEF IsDb
  <2>10. CASE old # {}
    BY <1>1, <2>5, <2>6, <2>8, <2>10 DEF IsDb
  <2> QED  BY <2>9, <2>10
<1>4. CASE DeleteWatchlist
  <2>1. PICK u \in Users, t \in Spellings :
          mem' = M!RemoveFromWatchlist(mem, u, Key(t)) /\ new = P!RemoveFromWatchlist(db, u, Key(t))
    BY <1>1, <1>4 DEF DeleteWatchlist, Call, Route, UserMethods
  <2>2. Key(Key(t)) = Key(t)
    BY KeyAssumption
  <2> DEFINE S == {x \in db["watch"] : ~(x.user = u /\ x.ticker = Key(t))}
  <2>3. new = [db EXCEPT !["watch"] = S] /\ mem' = [mem EXCEPT !["watch"] = S]
    BY <1>1, <2>1, <2>2 DEF P!RemoveFromWatchlist, P!Drop, M!RemoveFromWatchlist, M!Drop
  <2>4. S \subseteq db["watch"]
    OBVIOUS
  <2> HIDE DEF S, W
  <2> QED  BY <1>1, <2>3, <2>4 DEF IsDb
<1>5. CASE PutMyPrefs
  <2>1. PICK u \in Users, k \in {"indicators", "chat"}, v \in Values :
          LET blobs == {x.blob : x \in M!GetPrefs(mem, u)}
              pgBlobs == {x.blob : x \in P!GetPrefs(On("GetPrefs"), u)}
              merged(B) == [[j \in {"indicators", "chat"} |-> 0] EXCEPT ![k] = v] IN
            Call("kept", u, "PutPrefs",
                 M!PutPrefs(mem, u, IF blobs = {} THEN merged(blobs)
                                    ELSE [(CHOOSE b \in blobs : TRUE) EXCEPT ![k] = v]),
                 LAMBDA d : P!PutPrefs(d, u, IF pgBlobs = {} THEN merged(pgBlobs)
                                             ELSE [(CHOOSE b \in pgBlobs : TRUE) EXCEPT ![k] = v]))
    BY <1>5 DEF PutMyPrefs
  <2> DEFINE blobs == {x.blob : x \in M!GetPrefs(mem, u)}
             pgBlobs == {x.blob : x \in P!GetPrefs(On("GetPrefs"), u)}
             blob(B) == IF B = {} THEN [[j \in {"indicators", "chat"} |-> 0] EXCEPT ![k] = v]
                        ELSE [(CHOOSE b \in B : TRUE) EXCEPT ![k] = v]
  <2>2. mem' = M!PutPrefs(mem, u, blob(blobs)) /\ new = P!PutPrefs(db, u, blob(pgBlobs))
    BY <1>1, <2>1 DEF Call, Route, UserMethods
  <2>3. blobs = pgBlobs
    BY <1>1 DEF M!GetPrefs, P!GetPrefs, On, Route, UserMethods
  <2> HIDE DEF blob, blobs
  <2> DEFINE r == [user |-> u, blob |-> blob(blobs)]
  <2>4. mem' = M!Replace(mem, "prefs", {"user"}, r) /\ new = P!Merge(db, "prefs", {"user"}, r, {"blob"})
    BY <2>2, <2>3 DEF M!PutPrefs, P!PutPrefs
  <2>5. IsRow(r, {"user", "blob"})
    BY DEF IsRow
  <2>6. \A x \in P!Matching(db, "prefs", r, {"user"}) : P!Overlay(x, r, {"blob"}) = r
    BY <1>1, <2>5 DEF P!Matching, P!Overlay, IsRow
  <2> HIDE DEF r, W, db, new
  <2>7. /\ IsDb(new) /\ new["prefs"] = (db["prefs"] \ P!Matching(db, "prefs", r, {"user"})) \cup {r}
        /\ new["watch"] = db["watch"]
    BY <1>1, <2>4, <2>6, MergeReplaces
  <2>8. /\ IsDb(mem') /\ mem'["prefs"] = (mem["prefs"] \ P!Matching(mem, "prefs", r, {"user"})) \cup {r}
        /\ mem'["watch"] = mem["watch"]
    BY <1>1, <2>4, RowReplaced
  <2>9. P!Matching(mem, "prefs", r, {"user"}) = P!Matching(db, "prefs", r, {"user"})
    BY <1>1 DEF P!Matching
  <2> QED  BY <1>1, <2>5, <2>7, <2>8, <2>9
<1> QED  BY <1>3, <1>4, <1>5 DEF KeptActions

LEMMA KeptAgree == ASSUME KeptTwin PROVE Agree("kept")
<1> DEFINE db == pg["user"]
<1>1. mem["watch"] = db["watch"] /\ mem["prefs"] = db["prefs"]
  BY DEF KeptTwin
<1>2. M!AllWatchlistTickers(mem) = P!AllWatchlistTickers(db)
  BY <1>1 DEF M!AllWatchlistTickers, P!AllWatchlistTickers
<1>3. \A u \in Users : M!GetPrefs(mem, u) = P!GetPrefs(db, u)
  BY <1>1 DEF M!GetPrefs, P!GetPrefs
<1>4. \A u \in Users : M!Watchlist(mem, u) = P!Watchlist(db, u)
  BY <1>1, SameAscending DEF M!Watchlist, P!Watchlist
<1> QED  BY <1>2, <1>3, <1>4 DEF Agree, On, Route, UserMethods

\* Clips: a link is saved once, under a ticker of the spelling key() gives.
ClipsTwin ==
  /\ IsDb(mem) /\ mem["clips"] = pg["user"]["clips"]
  /\ \A x \in pg["user"]["clips"] : x.ticker \in Tickers

LEMMA ClipsTwinStep ==
  ASSUME ClipsInv, ClipsTwin, PostClip
  PROVE  ClipsTwin'
<1> DEFINE db == pg["user"]
           new == pg'["user"]
<1>1. /\ "clips" \in P!TableNames /\ DOMAIN pg = {"market", "user"} /\ IsDb(db)
      /\ IsDb(mem) /\ mem["clips"] = db["clips"] /\ \A x \in db["clips"] : x.ticker \in Tickers
  BY TheTables DEF ClipsInv, ClipsTwin
<1>2. PICK u \in Users, t \in Spellings, url \in {"link"}, title \in Values :
        LET r == [id |-> <<u, url>>, user |-> u, ticker |-> Key(t), title |-> title, at |-> now] IN
          /\ \A x \in mem.clips : x.id # r.id
          /\ Call("clips", u, "SaveClip", M!SaveClip(mem, r), LAMBDA d : P!SaveClip(d, r))
  BY DEF PostClip
<1> DEFINE r == [id |-> <<u, url>>, user |-> u, ticker |-> Key(t), title |-> title, at |-> now]
<1>3. r.ticker \in Tickers
  BY DEF Tickers
<1>4. (\A x \in mem.clips : x.id # r.id) /\
      Call("clips", u, "SaveClip", M!SaveClip(mem, r), LAMBDA d : P!SaveClip(d, r))
  BY <1>2
<1> HIDE DEF r
<1>5. /\ mem' = M!Replace(mem, "clips", {"user", "id"}, r)
      /\ new = P!Merge(db, "clips", {"id"}, r, {"title"})
  BY <1>1, <1>4 DEF Call, Route, UserMethods, P!SaveClip, M!SaveClip
<1>6. P!Matching(db, "clips", r, {"id"}) = {} /\ P!Matching(mem, "clips", r, {"user", "id"}) = {}
  BY <1>1, <1>4 DEF P!Matching
<1> HIDE DEF db, new
<1>7. /\ IsDb(mem') /\ mem'["clips"] = mem["clips"] \cup {r} /\ new["clips"] = db["clips"] \cup {r}
  BY <1>1, <1>5, <1>6, MergeReplaces, RowReplaced
<1> QED  BY <1>1, <1>3, <1>7 DEF ClipsTwin, db, new

\* key() spells again the tickers it has spelled.
LEMMA KeyOfTicker == \A t \in Tickers : Key(t) = t /\ t # ""
BY KeyAssumption DEF Tickers

LEMMA ClipsAgree == ASSUME ClipsTwin PROVE Agree("clips")
<1> DEFINE db == pg["user"]
<1>1. mem["clips"] = db["clips"] /\ \A x \in db["clips"] : x.ticker \in Tickers
  BY DEF ClipsTwin
<1>2. ASSUME NEW u \in Users, NEW t \in Tickers, NEW n \in Limits
      PROVE  M!ListClips(mem, u, t, n) = P!ListClips(db, u, t, n)
  <2>1. {x \in M!Of(mem, "clips", t) : x.user = u} = {x \in P!Of(db, "clips", t) : x.user = u}
    BY <1>1, KeyOfTicker DEF M!Of, P!Of
  <2> DEFINE S == {x \in P!Of(db, "clips", t) : x.user = u}
  <2>2. M!ListClips(mem, u, t, n) = M!Limited(M!Descending(S, "at"), n)
    BY <2>1 DEF M!ListClips
  <2>3. P!ListClips(db, u, t, n) = P!Limited(P!Descending(S, "at"), n)
    BY DEF P!ListClips
  <2> HIDE DEF S
  <2> QED  BY <2>2, <2>3, SameDescending DEF M!Limited, P!Limited
<1> QED  BY <1>2 DEF Agree, On, Route, UserMethods

-----------------------------------------------------------------------------
\* Alerts: an id has one row.
AlertsTwin ==
  /\ IsDb(mem) /\ mem["alerts"] = pg["user"]["alerts"]
  /\ \A x, y \in pg["user"]["alerts"] : x.id = y.id => x = y

LEMMA AlertsTwinStep ==
  ASSUME AlertsInv, AlertsTwin, AlertsActions
  PROVE  AlertsTwin'
<1> DEFINE db == pg["user"]
           new == pg'["user"]
           rows == db["alerts"]
<1>1. /\ "alerts" \in P!TableNames /\ DOMAIN pg = {"market", "user"} /\ IsDb(db)
      /\ IsDb(mem) /\ mem["alerts"] = rows /\ \A x, y \in rows : x.id = y.id => x = y
      /\ now \in Nat /\ \A x \in rows : {"user", "id"} \subseteq DOMAIN x /\ x.id \in 0..(now - 1)
  BY TheTables DEF AlertsInv, AlertsTwin, Numbered
<1>2. SUFFICES \E S : /\ IsDb(mem') /\ mem'["alerts"] = S /\ new["alerts"] = S
                      /\ \A x, y \in S : x.id = y.id => x = y
  BY <1>2 DEF AlertsTwin
<1>3. CASE PostAlert
  <2>1. PICK u \in Users, t \in Spellings :
          LET r == [id |-> now, user |-> u, ticker |-> Key(t), kind |-> "price_above",
                    active |-> TRUE, at |-> now, fired |-> 0] IN
            Call("alerts", u, "SaveAlert", M!SaveAlert(mem, r), LAMBDA d : P!SaveAlert(d, r))
    BY <1>3 DEF PostAlert
  <2> DEFINE r == [id |-> now, user |-> u, ticker |-> Key(t), kind |-> "price_above",
                   active |-> TRUE, at |-> now, fired |-> 0]
             D == {"id", "user", "ticker", "kind", "active", "at", "fired"}
  <2>2. IsRow(r, D) /\ r.fired = 0 /\ r.id = now
    BY DEF IsRow
  <2>3. Call("alerts", u, "SaveAlert", M!SaveAlert(mem, r), LAMBDA d : P!SaveAlert(d, r))
    BY <2>1
  <2> HIDE DEF r
  <2>4. [r EXCEPT !.fired = 0] = r /\ r.id = now
    BY <2>2 DEF IsRow
  <2>5. /\ mem' = M!Replace(mem, "alerts", {"user", "id"}, r)
        /\ new = P!Merge(db, "alerts", {"id"}, r, {"ticker", "kind", "active"})
    BY <1>1, <2>4, <2>3 DEF Call, Route, UserMethods, P!SaveAlert, M!SaveAlert
  <2>6. P!Matching(db, "alerts", r, {"id"}) = {} /\ P!Matching(mem, "alerts", r, {"user", "id"}) = {}
    BY <1>1, <2>4 DEF P!Matching
  <2> HIDE DEF db, new
  <2>7. IsDb(mem') /\ mem'["alerts"] = rows \cup {r} /\ new["alerts"] = rows \cup {r}
    BY <1>1, <2>5, <2>6, MergeReplaces, RowReplaced
  <2>8. \A x, y \in rows \cup {r} : x.id = y.id => x = y
    BY <1>1, <2>4
  <2> QED  BY <2>7, <2>8
<1>4. CASE ReactivateAlert
  <2>1. PICK u \in Users, id \in Ids :
          mem' = M!ReactivateAlert(mem, u, id) /\ new = P!ReactivateAlert(db, u, id)
    BY <1>1, <1>4 DEF ReactivateAlert, Call, Route, UserMethods
  <2> DEFINE edited(x) == [x EXCEPT !.active = TRUE, !.fired = 0]
             S == {IF x.id = id /\ x.user = u THEN edited(x) ELSE x : x \in rows}
             T == {IF x.user = u /\ x.id = id THEN edited(x) ELSE x : x \in mem["alerts"]}
  <2>2. new = [db EXCEPT !["alerts"] = S] /\ mem' = [mem EXCEPT !["alerts"] = T]
    BY <2>1 DEF P!ReactivateAlert, P!Update, M!ReactivateAlert, M!Update
  <2>3. \A x \in rows : edited(x).id = x.id
    BY <1>1
  <2> HIDE DEF edited
  <2>4. T = S
    BY <1>1
  <2>5. \A x, y \in S : x.id = y.id => x = y
    BY <1>1, <2>3
  <2> HIDE DEF db, new, S, T, rows
  <2>6. IsDb(mem') /\ mem'["alerts"] = S /\ new["alerts"] = S
    BY <1>1, <2>2, <2>4 DEF IsDb
  <2> QED  BY <2>4, <2>5, <2>6
<1>5. CASE DeleteAlert
  <2>1. PICK u \in Users, id \in Ids : mem' = M!DeleteAlert(mem, u, id) /\ new = P!DeleteAlert(db, u, id)
    BY <1>1, <1>5 DEF DeleteAlert, Call, Route, UserMethods
  <2> DEFINE S == {x \in rows : ~(x.id = id /\ x.user = u)}
             T == {x \in mem["alerts"] : ~(x.user = u /\ x.id = id)}
  <2>2. new = [db EXCEPT !["alerts"] = S] /\ mem' = [mem EXCEPT !["alerts"] = T]
    BY <2>1 DEF P!DeleteAlert, P!Drop, M!DeleteAlert, M!Drop
  <2>3. T = S /\ \A x, y \in S : x.id = y.id => x = y
    BY <1>1
  <2> HIDE DEF db, new, S, T, rows
  <2>4. IsDb(mem') /\ mem'["alerts"] = S /\ new["alerts"] = S
    BY <1>1, <2>2, <2>3 DEF IsDb
  <2> QED  BY <2>3, <2>4
<1>6. CASE FireAlert
  <2>1. PICK a \in M!ListActiveAlerts(mem) :
          mem' = M!MarkAlertTriggered(mem, a.id, now) /\ new = P!MarkAlertTriggered(db, a.id, now)
    BY <1>1, <1>6 DEF FireAlert, Call, Route, UserMethods
  <2> DEFINE fired(x) == [x EXCEPT !.fired = now]
             S == {IF x.id = a.id /\ x.fired = 0 THEN fired(x) ELSE x : x \in rows}
             T == {IF x.id = a.id THEN fired(x) ELSE x : x \in mem["alerts"]}
  <2>2. new = [db EXCEPT !["alerts"] = S] /\ mem' = [mem EXCEPT !["alerts"] = T]
    BY <2>1 DEF P!MarkAlertTriggered, P!Update, M!MarkAlertTriggered, M!Update
  <2>3. \A x \in rows : fired(x).id = x.id
    BY <1>1
  <2>4. \A x \in rows : x.id = a.id => x.fired = 0
    BY <1>1, <2>1 DEF M!ListActiveAlerts
  <2> HIDE DEF fired
  <2>5. T = S
    BY <1>1, <2>4
  <2>6. \A x, y \in S : x.id = y.id => x = y
    BY <1>1, <2>3
  <2> HIDE DEF db, new, S, T, rows
  <2>7. IsDb(mem') /\ mem'["alerts"] = S /\ new["alerts"] = S
    BY <1>1, <2>2, <2>5 DEF IsDb
  <2> QED  BY <2>5, <2>6, <2>7
<1> QED  BY <1>3, <1>4, <1>5, <1>6 DEF AlertsActions

LEMMA AlertsAgree == ASSUME AlertsTwin PROVE Agree("alerts")
<1> DEFINE db == pg["user"]
<1>1. mem["alerts"] = db["alerts"]
  BY DEF AlertsTwin
<1>2. M!ListActiveAlerts(mem) = P!ListActiveAlerts(db)
  BY <1>1 DEF M!ListActiveAlerts, P!ListActiveAlerts
<1>3. \A u \in Users : M!ListAlerts(mem, u) = P!ListAlerts(db, u)
  BY <1>1, SameDescending DEF M!ListAlerts, P!ListAlerts
<1> QED  BY <1>2, <1>3 DEF Agree, On, Route, UserMethods

-----------------------------------------------------------------------------
\* Holdings: a user holds a ticker once.
HoldingColumns == {"id", "user", "ticker", "shares", "at", "edited"}
HoldingsTwin ==
  /\ IsDb(mem) /\ mem["holdings"] = pg["user"]["holdings"]
  /\ \A x \in pg["user"]["holdings"] : IsRow(x, HoldingColumns)
  /\ \A x, y \in pg["user"]["holdings"] : x.user = y.user /\ x.ticker = y.ticker => x = y

LEMMA HoldingsTwinStep ==
  ASSUME HoldingsInv, HoldingsTwin, HoldingsActions
  PROVE  HoldingsTwin'
<1> DEFINE db == pg["user"]
           new == pg'["user"]
           rows == db["holdings"]
           D == HoldingColumns
<1>1. /\ "holdings" \in P!TableNames /\ DOMAIN pg = {"market", "user"} /\ IsDb(db)
      /\ IsDb(mem) /\ mem["holdings"] = rows /\ \A x \in rows : IsRow(x, D)
      /\ \A x, y \in rows : x.user = y.user /\ x.ticker = y.ticker => x = y
  BY TheTables DEF HoldingsInv, HoldingsTwin
<1>2. SUFFICES \E S : /\ IsDb(mem') /\ mem'["holdings"] = S /\ new["holdings"] = S
                      /\ \A x \in S : IsRow(x, D)
                      /\ \A x, y \in S : x.user = y.user /\ x.ticker = y.ticker => x = y
  BY <1>2 DEF HoldingsTwin
<1>3. CASE PostHolding
  <2>1. PICK u \in Users, t \in Spellings, shares \in Values :
          LET r == [id |-> now, user |-> u, ticker |-> Key(t), shares |-> shares, at |-> now,
                    edited |-> now] IN
            Call("holdings", u, "SaveHolding", M!SaveHolding(mem, r), LAMBDA d : P!SaveHolding(d, r))
    BY <1>3 DEF PostHolding
  <2> DEFINE r == [id |-> now, user |-> u, ticker |-> Key(t), shares |-> shares, at |-> now,
                   edited |-> now]
             held == {x \in rows : x.user = r.user /\ x.ticker = r.ticker}
             kept(h) == [r EXCEPT !.id = h.id, !.at = h.at]
  <2>2. IsRow(r, D)
    BY DEF IsRow, HoldingColumns
  <2>3. Call("holdings", u, "SaveHolding", M!SaveHolding(mem, r), LAMBDA d : P!SaveHolding(d, r))
    BY <2>1
  <2> HIDE DEF r
  <2>4. P!Matching(db, "holdings", r, {"user", "ticker"}) = held /\ M!Matching(mem, "holdings", r, {"user", "ticker"}) = held
    BY <1>1 DEF P!Matching, M!Matching
  <2>5. mem' = [mem EXCEPT !["holdings"] = (mem["holdings"] \ held) \cup
                  {IF held = {} THEN r ELSE [r EXCEPT !.id = (CHOOSE x \in held : TRUE).id,
                                                     !.at = (CHOOSE x \in held : TRUE).at]}]
    BY <2>3, <2>4 DEF Call, M!SaveHolding
  <2>6. new = P!Merge(db, "holdings", {"user", "ticker"}, r, {"shares", "edited"})
    BY <1>1, <2>3 DEF Call, Route, UserMethods, P!SaveHolding
  <2>7. new = [db EXCEPT !["holdings"] =
                 IF held = {} THEN rows \cup {r}
                 ELSE (rows \ held) \cup {P!Overlay(x, r, {"shares", "edited"}) : x \in held}]
    BY <2>4, <2>6 DEF P!Merge
  <2>8. CASE held = {}
    <3> DEFINE S == rows \cup {r}
    <3>1. IsDb(mem') /\ mem'["holdings"] = S /\ new["holdings"] = S
      <4>1. (rows \ held) \cup {r} = S
        BY <2>8
      <4> HIDE DEF held, S
      <4> QED  BY <1>1, <2>5, <2>7, <2>8, <4>1 DEF IsDb, S
    <3>2. \A x \in S : IsRow(x, D)
      BY <1>1, <2>2
    <3>3. \A x, y \in S : x.user = y.user /\ x.ticker = y.ticker => x = y
      BY <1>1, <2>8
    <3> HIDE DEF S, D
    <3> QED  BY <3>1, <3>2, <3>3
  <2>9. CASE held # {}
    <3>1. PICK h : h \in held
      BY <2>9
    <3>2. held = {h}
      BY <1>1, <3>1
    <3> DEFINE q == kept(h)
               S == (rows \ held) \cup {q}
    <3>3. IsRow(q, D) /\ q.user = r.user /\ q.ticker = r.ticker
      BY <2>2 DEF IsRow, HoldingColumns
    <3>4. P!Overlay(h, r, {"shares", "edited"}) = q
      <4>1. IsRow(h, D) /\ h.user = r.user /\ h.ticker = r.ticker
        BY <1>1, <3>1
      <4>2. \A c \in D : q[c] = IF c \in {"shares", "edited"} THEN r[c] ELSE h[c]
        BY <2>2, <4>1 DEF IsRow, HoldingColumns
      <4> HIDE DEF q
      <4> QED  BY <3>3, <4>1, <4>2 DEF P!Overlay, IsRow
    <3>5. (CHOOSE x \in held : TRUE) = h
      BY <3>2
    <3> HIDE DEF held
    <3>6. mem' = [mem EXCEPT !["holdings"] = S]
      BY <1>1, <2>5, <2>9, <3>5
    <3>7. new = [db EXCEPT !["holdings"] = S]
      BY <2>7, <2>9, <3>2, <3>4
    <3> HIDE DEF q, D
    <3>8. \A x \in S : IsRow(x, D)
      BY <1>1, <3>3
    <3>9. \A x, y \in S : x.user = y.user /\ x.ticker = y.ticker => x = y
      BY <1>1, <3>3 DEF held
    <3> HIDE DEF S
    <3>10. IsDb(mem') /\ mem'["holdings"] = S /\ new["holdings"] = S
      BY <1>1, <3>6, <3>7 DEF IsDb
    <3> QED  BY <3>8, <3>9, <3>10
  <2> QED  BY <2>8, <2>9
<1>4. CASE DeleteHolding
  <2>1. PICK u \in Users, id \in Ids : mem' = M!DeleteHolding(mem, u, id) /\ new = P!DeleteHolding(db, u, id)
    BY <1>1, <1>4 DEF DeleteHolding, Call, Route, UserMethods
  <2> DEFINE S == {x \in rows : ~(x.id = id /\ x.user = u)}
             T == {x \in mem["holdings"] : ~(x.user = u /\ x.id = id)}
  <2>2. new = [db EXCEPT !["holdings"] = S] /\ mem' = [mem EXCEPT !["holdings"] = T]
    BY <2>1 DEF P!DeleteHolding, P!Drop, M!DeleteHolding, M!Drop
  <2>3. /\ T = S /\ \A x \in S : IsRow(x, D)
        /\ \A x, y \in S : x.user = y.user /\ x.ticker = y.ticker => x = y
    BY <1>1
  <2> HIDE DEF db, new, S, T, rows, D
  <2>4. IsDb(mem') /\ mem'["holdings"] = S /\ new["holdings"] = S
    BY <1>1, <2>2, <2>3 DEF IsDb
  <2> QED  BY <2>3, <2>4
<1> QED  BY <1>3, <1>4 DEF HoldingsActions

LEMMA HoldingsAgree == ASSUME HoldingsTwin PROVE Agree("holdings")
<1>1. \A u \in Users : M!ListHoldings(mem, u) = P!ListHoldings(pg["user"], u)
  BY DEF HoldingsTwin, M!ListHoldings, P!ListHoldings
<1> QED  BY <1>1 DEF Agree, On, Route, UserMethods

-----------------------------------------------------------------------------
\* Meters.
MeterColumns == {"meter", "user", "period", "n"}
MetersTwin ==
  /\ DOMAIN pg = {"market", "user"} /\ IsDb(pg["user"])
  /\ IsDb(mem) /\ mem["meters"] = pg["user"]["meters"]
  /\ \A x \in pg["user"]["meters"] : IsRow(x, MeterColumns)

LEMMA SameUsed ==
  ASSUME NEW m, NEW d, m["meters"] = d["meters"], NEW meter, NEW u, NEW period
  PROVE  M!Used(m, meter, u, period) = P!Used(d, meter, u, period)
<1> DEFINE row(e) == {x \in e["meters"] : x.meter = meter /\ x.user = u /\ x.period = period}
           n(R) == IF R = {} THEN 0 ELSE (CHOOSE x \in R : TRUE).n
<1>1. M!Used(m, meter, u, period) = n(row(m)) /\ P!Used(d, meter, u, period) = n(row(d))
  BY DEF M!Used, P!Used
<1>2. row(m) = row(d)
  OBVIOUS
<1> HIDE DEF row, n
<1> QED  BY <1>1, <1>2

LEMMA MetersTwinStep == ASSUME MetersTwin, Spend PROVE MetersTwin'
<1> DEFINE db == pg["user"]
           new == pg'["user"]
           D == MeterColumns
           K == {"meter", "user", "period"}
<1>1. /\ "meters" \in P!TableNames /\ DOMAIN pg = {"market", "user"} /\ IsDb(db)
      /\ IsDb(mem) /\ mem["meters"] = db["meters"] /\ \A x \in db["meters"] : IsRow(x, D)
  BY TheTables DEF MetersTwin
<1>2. PICK u \in Users, meter \in {"deep", "chat", "tokens", "backtest"}, n \in 0..2 :
        LET period == IF meter = "backtest" THEN "ever" ELSE "month" IN
          Call("meters", u, "IncrMeter", M!Incr(mem, meter, u, period, n),
               LAMBDA d : P!Incr(d, meter, u, period, n))
  BY DEF Spend
<1> DEFINE period == IF meter = "backtest" THEN "ever" ELSE "month"
<1>3. /\ DOMAIN pg' = DOMAIN pg
      /\ mem' = M!Incr(mem, meter, u, period, n) /\ new = P!Incr(db, meter, u, period, n)
  BY <1>1, <1>2 DEF Call, Route, UserMethods
<1> HIDE DEF period
<1>4. CASE n <= 0
  BY <1>1, <1>3, <1>4 DEF M!Incr, P!Incr, MetersTwin
<1>5. CASE ~(n <= 0)
  <2> DEFINE r == [meter |-> meter, user |-> u, period |-> period, n |-> P!Used(db, meter, u, period) + n]
  <2>1. M!Used(mem, meter, u, period) = P!Used(db, meter, u, period)
    BY <1>1, SameUsed
  <2>2. mem' = M!Replace(mem, "meters", K, r) /\ new = P!Merge(db, "meters", K, r, {"n"})
    BY <1>3, <1>5, <2>1 DEF M!Incr, P!Incr
  <2>3. IsRow(r, D)
    BY DEF IsRow, MeterColumns
  <2> HIDE DEF r
  <2>4. \A x \in P!Matching(db, "meters", r, K) : P!Overlay(x, r, {"n"}) = r
    BY <1>1, <2>3, OverlayIs DEF P!Matching, MeterColumns
  <2>5. P!Matching(mem, "meters", r, K) = P!Matching(db, "meters", r, K)
    BY <1>1 DEF P!Matching
  <2> HIDE DEF db, new, D, K
  <2>6. IsDb(new) /\ new["meters"] = (db["meters"] \ P!Matching(db, "meters", r, K)) \cup {r}
    BY <1>1, <2>2, <2>4, MergeReplaces
  <2>7. IsDb(mem') /\ mem'["meters"] = (mem["meters"] \ P!Matching(mem, "meters", r, K)) \cup {r}
    BY <1>1, <2>2, RowReplaced
  <2>8. mem'["meters"] = new["meters"]
    BY <1>1, <2>5, <2>6, <2>7
  <2>9. \A x \in new["meters"] : IsRow(x, D)
    BY <1>1, <2>3, <2>6
  <2> QED  BY <1>1, <1>3, <2>8, <2>9, <2>6, <2>7 DEF MetersTwin, db, new, D
<1> QED  BY <1>4, <1>5

LEMMA MetersAgree == ASSUME MetersTwin PROVE Agree("meters")
<1>1. \A u, m, p : M!Used(mem, m, u, p) = P!Used(pg["user"], m, u, p)
  BY SameUsed DEF MetersTwin
<1> QED  BY <1>1 DEF Agree, On, Route, UserMethods

-----------------------------------------------------------------------------
\* Subscriptions, events and the funnel.
SubColumns == {"user", "customer", "tier", "status", "end"}
BillingTwin ==
  /\ DOMAIN pg = {"market", "user"} /\ IsDb(pg["market"]) /\ IsDb(mem)
  /\ \A t \in {"subs", "events", "funnel"} : mem[t] = pg["market"][t]
  /\ \A x \in pg["market"]["subs"] : IsRow(x, SubColumns)

\* The row q of a subscription is saved in both stores.
SavedInBoth(m, m2, d, d2, q) ==
  /\ IsDb(m) /\ IsDb(d) /\ \A t \in {"subs", "events", "funnel"} : m[t] = d[t]
  /\ \A x \in d["subs"] : IsRow(x, SubColumns)
  /\ IsRow(q, SubColumns)
  /\ m2 = M!Replace(m, "subs", {"user"}, q)
  /\ d2 = P!Merge(d, "subs", {"user"}, q, {"customer", "status", "tier", "end"})

LEMMA SubscriptionSaved ==
  ASSUME NEW m, NEW m2, NEW d, NEW d2, NEW q, SavedInBoth(m, m2, d, d2, q)
  PROVE  /\ IsDb(m2) /\ IsDb(d2) /\ \A t \in {"subs", "events", "funnel"} : m2[t] = d2[t]
         /\ \A x \in d2["subs"] : IsRow(x, SubColumns)
<1>1. PICK K, C : K = {"user"} /\ C = {"customer", "status", "tier", "end"}
  OBVIOUS
<1>2. /\ IsDb(m) /\ IsDb(d) /\ \A t \in {"subs", "events", "funnel"} : m[t] = d[t]
      /\ \A x \in d["subs"] : IsRow(x, SubColumns)
      /\ IsRow(q, SubColumns) /\ m2 = M!Replace(m, "subs", K, q) /\ d2 = P!Merge(d, "subs", K, q, C)
  BY <1>1 DEF SavedInBoth
<1>3. \A x \in P!Matching(d, "subs", q, K) : P!Overlay(x, q, C) = q
  BY <1>1, <1>2, OverlayIs DEF P!Matching, SubColumns
<1>4. "subs" \in P!TableNames /\ {"events", "funnel"} \subseteq P!TableNames \ {"subs"}
  BY TheTables
<1>5. /\ IsDb(d2) /\ d2["subs"] = (d["subs"] \ P!Matching(d, "subs", q, K)) \cup {q}
      /\ \A s \in P!TableNames \ {"subs"} : d2[s] = d[s]
  BY <1>2, <1>3, <1>4, MergeReplaces
<1>6. /\ IsDb(m2) /\ m2["subs"] = (m["subs"] \ P!Matching(m, "subs", q, K)) \cup {q}
      /\ \A s \in P!TableNames \ {"subs"} : m2[s] = m[s]
  BY <1>2, <1>4, RowReplaced
<1>7. P!Matching(m, "subs", q, K) = P!Matching(d, "subs", q, K)
  BY <1>2 DEF P!Matching
<1> QED  BY <1>2, <1>4, <1>5, <1>6, <1>7

LEMMA BillingTwinStep ==
  ASSUME BillingTwin, SaveSubscription \/ SeeEvent \/ PostEvent
  PROVE  BillingTwin'
<1> DEFINE db == pg["market"]
           new == pg'["market"]
           D == SubColumns
<1>1. /\ {"subs", "events", "funnel"} \subseteq P!TableNames /\ DOMAIN pg = {"market", "user"} /\ IsDb(db)
      /\ IsDb(mem) /\ \A t \in {"subs", "events", "funnel"} : mem[t] = db[t]
      /\ \A x \in db["subs"] : IsRow(x, D)
  BY TheTables DEF BillingTwin
<1>2. CASE SaveSubscription
  <2>1. PICK u \in Users, cus \in {"cus", ""}, tier \in {"pro", "free"}, status \in {"active", "canceled"},
             end \in 0..1 :
          LET r == [user |-> u, customer |-> IF cus = "" THEN "" ELSE cus \o u, tier |-> tier,
                    status |-> status, end |-> end] IN
            Call("billing", "none", "UpsertSubscription", M!UpsertSubscription(mem, r, now),
                 LAMBDA d : P!UpsertSubscription(d, r, now))
    BY <1>2 DEF SaveSubscription
  <2> DEFINE r == [user |-> u, customer |-> IF cus = "" THEN "" ELSE cus \o u, tier |-> tier,
                   status |-> status, end |-> end]
             q == [r EXCEPT !.end = IF @ = 0 THEN now ELSE @]
  <2>2. IsRow(r, D)
    BY DEF IsRow, SubColumns
  <2>3. Call("billing", "none", "UpsertSubscription", M!UpsertSubscription(mem, r, now),
             LAMBDA d : P!UpsertSubscription(d, r, now))
    BY <2>1
  <2> HIDE DEF r
  <2>4. IsRow(q, D)
    BY <2>2 DEF IsRow, SubColumns
  <2>5. /\ DOMAIN pg' = DOMAIN pg
        /\ mem' = M!Replace(mem, "subs", {"user"}, q)
        /\ new = P!Merge(db, "subs", {"user"}, q, {"customer", "status", "tier", "end"})
    BY <1>1, <2>3 DEF Call, Route, UserMethods, M!UpsertSubscription, P!UpsertSubscription
  <2> HIDE DEF q
  <2> HIDE DEF db, new
  <2>6. /\ IsDb(mem') /\ IsDb(new) /\ \A t \in {"subs", "events", "funnel"} : mem'[t] = new[t]
        /\ \A x \in new["subs"] : IsRow(x, SubColumns)
    <3>1. SavedInBoth(mem, mem', db, new, q)
      BY <1>1, <2>4, <2>5 DEF SavedInBoth
    <3> QED  BY <3>1, SubscriptionSaved
  <2> QED  BY <1>1, <2>5, <2>6 DEF BillingTwin, new, D
<1>3. CASE SeeEvent
  <2>1. PICK e \in {"evt"} :
          /\ DOMAIN pg' = DOMAIN pg
          /\ mem' = [mem EXCEPT !["events"] = mem["events"] \cup {e}]
          /\ new = [db EXCEPT !["events"] = db["events"] \cup {e}]
    BY <1>1, <1>3 DEF SeeEvent, Call, Route, UserMethods, M!MarkStripeEventSeen, P!MarkStripeEventSeen
  <2> HIDE DEF db, new
  <2>2. /\ IsDb(mem') /\ IsDb(new) /\ new["subs"] = db["subs"]
        /\ \A t \in {"subs", "events", "funnel"} : mem'[t] = new[t]
    BY <1>1, <2>1 DEF IsDb
  <2> QED  BY <1>1, <2>1, <2>2 DEF BillingTwin, new
<1>4. CASE PostEvent
  <2>1. \E r : /\ DOMAIN pg' = DOMAIN pg
               /\ mem' = [mem EXCEPT !["funnel"] = mem["funnel"] \cup {r}]
               /\ new = [db EXCEPT !["funnel"] = db["funnel"] \cup {r}]
    <3>1. PICK e \in {"pro_view", "paywall_view"}, s \in {"chat", ""} :
            LET r == [id |-> now, event |-> e, surface |-> s, at |-> 0] IN
              Call("billing", "none", "SaveFunnelEvent", M!SaveFunnelEvent(mem, r, now),
                   LAMBDA d : P!SaveFunnelEvent(d, r, now))
      BY <1>4 DEF PostEvent
    <3> DEFINE r == [id |-> now, event |-> e, surface |-> s, at |-> 0]
    <3>2. Call("billing", "none", "SaveFunnelEvent", M!SaveFunnelEvent(mem, r, now),
               LAMBDA d : P!SaveFunnelEvent(d, r, now))
      BY <3>1
    <3> HIDE DEF r
    <3>3. /\ DOMAIN pg' = DOMAIN pg
          /\ mem' = [mem EXCEPT !["funnel"] = mem["funnel"] \cup {[r EXCEPT !.at = now]}]
          /\ new = [db EXCEPT !["funnel"] = db["funnel"] \cup {[r EXCEPT !.at = now]}]
      BY <1>1, <3>2 DEF Call, Route, UserMethods, M!SaveFunnelEvent, P!SaveFunnelEvent
    <3> HIDE DEF db, new
    <3> QED  BY <3>3
  <2> HIDE DEF db, new
  <2>2. /\ IsDb(mem') /\ IsDb(new) /\ new["subs"] = db["subs"] /\ DOMAIN pg' = DOMAIN pg
        /\ \A t \in {"subs", "events", "funnel"} : mem'[t] = new[t]
    BY <1>1, <2>1 DEF IsDb
  <2> QED  BY <1>1, <2>2 DEF BillingTwin, new
<1> QED  BY <1>2, <1>3, <1>4

LEMMA SameCardinality == \A S : M!Cardinality(S) = P!Cardinality(S)
BY DEF M!Cardinality, P!Cardinality

LEMMA BillingAgree == ASSUME BillingTwin PROVE Agree("billing")
<1> DEFINE db == pg["market"]
<1>1. mem["subs"] = db["subs"] /\ mem["events"] = db["events"] /\ mem["funnel"] = db["funnel"]
  BY DEF BillingTwin
<1>2. M!ListProSubscriptions(mem) = P!ListProSubscriptions(db)
  BY <1>1 DEF M!ListProSubscriptions, P!ListProSubscriptions
<1>3. M!StripeEventSeen(mem, "evt") = P!StripeEventSeen(db, "evt")
  BY <1>1 DEF M!StripeEventSeen, P!StripeEventSeen
<1>4. \A u : M!GetSubscription(mem, u) = P!GetSubscription(db, u)
  BY <1>1 DEF M!GetSubscription, P!GetSubscription
<1>5. ASSUME NEW u \in Users
      PROVE  M!GetSubscriptionByCustomer(mem, "cus" \o u) = P!GetSubscriptionByCustomer(db, "cus" \o u)
  <2> DEFINE c == "cus" \o u
  <2>1. c # ""
    BY CustomerAssumption
  <2> HIDE DEF c
  <2>2. M!GetSubscriptionByCustomer(mem, c) = P!GetSubscriptionByCustomer(db, c)
    BY <1>1, <2>1 DEF M!GetSubscriptionByCustomer, P!GetSubscriptionByCustomer
  <2> QED  BY <2>2 DEF c
<1>6. ASSUME NEW since
      PROVE  M!FunnelSummary(mem, since) = P!FunnelSummary(db, since)
  <2> DEFINE recent == {x \in db["funnel"] : x.at >= since}
             n(e, s) == P!Cardinality({x \in recent : x.event = e /\ x.surface = s})
             line(e, s) == [event |-> e, surface |-> s, n |-> n(e, s)]
  <2>1. M!FunnelSummary(mem, since) = {line(x.event, x.surface) : x \in recent}
    BY <1>1, SameCardinality DEF M!FunnelSummary
  <2>2. P!FunnelSummary(db, since) = {line(g[1], g[2]) : g \in {<<x.event, x.surface>> : x \in recent}}
    BY DEF P!FunnelSummary
  <2> HIDE DEF recent, line
  <2> DEFINE groups == {<<x.event, x.surface>> : x \in recent}
  <2>3. \A g \in groups : \E x \in recent : g[1] = x.event /\ g[2] = x.surface
    OBVIOUS
  <2>4. ASSUME NEW x \in recent
        PROVE  \E g \in groups : g[1] = x.event /\ g[2] = x.surface
    <3>1. <<x.event, x.surface>> \in groups
      OBVIOUS
    <3> QED  BY <3>1
  <2> HIDE DEF groups
  <2>5. {line(g[1], g[2]) : g \in groups} = {line(x.event, x.surface) : x \in recent}
    BY <2>3, <2>4
  <2> QED  BY <2>1, <2>2, <2>5 DEF groups
<1> QED  BY <1>2, <1>3, <1>4, <1>5, <1>6 DEF Agree, On, Route, UserMethods

-----------------------------------------------------------------------------
\* Comments: the live rows of the table and the mentions are the comments of the memory store.
Blank == ""   \* no ticker, or nobody
CommentColumns == {"id", "user", "ticker", "body", "at", "edited", "deleted", "reports"}
MentionsOf(mentions, id) == {z.ticker : z \in {y \in mentions : y.comment = id}}
Whole(mentions, x) ==
  [id |-> x.id, user |-> x.user, ticker |-> x.ticker, body |-> x.body, at |-> x.at,
   edited |-> x.edited, mentions |-> MentionsOf(mentions, x.id)]
Live(db) == {x \in db["comments"] : ~x.deleted}
CommentsTwins(m, d) ==
  /\ IsDb(m) /\ IsDb(d) /\ m["likes"] = d["likes"]
  /\ m["comments"] = {Whole(d["mentions"], x) : x \in Live(d)}

\* The rows of both tables, with ids older than n.
CommentRows(d, n) ==
  /\ \A x \in d["comments"] : IsRow(x, CommentColumns) /\ x.id \in 0..(n - 1) /\ x.ticker \in Tickers \cup {Blank}
  /\ \A x, y \in d["comments"] : x.id = y.id => x = y
  /\ \A z \in d["mentions"] : IsRow(z, {"comment", "ticker"}) /\ z.comment \in 0..(n - 1)

CommentsTwin ==
  /\ DOMAIN pg = {"market", "user"} /\ now \in Nat
  /\ CommentsTwins(mem, pg["market"]) /\ CommentRows(pg["market"], now)

CommentTables == {"comments", "mentions", "likes"}

\* The comment PostComment saves. The ticker is picked before any SMT step reads it.
LEMMA PostCommentSaves ==
  ASSUME PostComment, DOMAIN pg = {"market", "user"}
  PROVE  /\ DOMAIN pg' = DOMAIN pg /\ now' = now + 1
         /\ \E u, tk, ms, r :
              /\ tk \in Tickers \cup {Blank}
              /\ r = [id |-> now, user |-> u, ticker |-> tk, body |-> 0, at |-> now, edited |-> 0,
                      mentions |-> ms]
              /\ mem' = M!SaveComment(mem, r)
              /\ pg'["market"] = P!SaveComment(pg["market"], r)
<1>1. PICK u \in Users, t \in Spellings \cup {""}, mentions \in SUBSET Tickers :
        LET r == [id |-> now, user |-> u, ticker |-> IF t = "" THEN "" ELSE Key(t), body |-> 0,
                  at |-> now, edited |-> 0, mentions |-> mentions] IN
          Call("comments", u, "SaveComment", M!SaveComment(mem, r), LAMBDA d : P!SaveComment(d, r))
  BY DEF PostComment
<1> DEFINE tk == IF t = "" THEN "" ELSE Key(t)
           r == [id |-> now, user |-> u, ticker |-> tk, body |-> 0,
                 at |-> now, edited |-> 0, mentions |-> mentions]
<1>2. tk \in Tickers \cup {Blank}
  BY DEF Tickers, Blank
<1>3. /\ DOMAIN pg' = DOMAIN pg /\ now' = now + 1 /\ mem' = M!SaveComment(mem, r)
      /\ pg'["market"] = P!SaveComment(pg["market"], r)
  BY <1>1 DEF Call, Route, UserMethods
<1> HIDE DEF tk
<1> QED  BY <1>2, <1>3

LEMMA PostCommentTwin == ASSUME CommentsTwin, PostComment PROVE CommentsTwin'
<1> DEFINE db == pg["market"]
           new == pg'["market"]
<1>1. /\ CommentTables \subseteq P!TableNames /\ DOMAIN pg = {"market", "user"} /\ now \in Nat
      /\ CommentsTwins(mem, db) /\ CommentRows(db, now)
  BY TheTables DEF CommentsTwin, CommentTables
<1>2. PICK u, tk, ms, r0 :
        /\ tk \in Tickers \cup {Blank}
        /\ r0 = [id |-> now, user |-> u, ticker |-> tk, body |-> 0, at |-> now, edited |-> 0,
                 mentions |-> ms]
        /\ mem' = M!SaveComment(mem, r0) /\ new = P!SaveComment(db, r0)
  BY <1>1, PostCommentSaves
<1> DEFINE r == [id |-> now, user |-> u, ticker |-> tk, body |-> 0,
                 at |-> now, edited |-> 0, mentions |-> ms]
           q == [id |-> now, user |-> u, ticker |-> tk, body |-> 0, at |-> now,
                 edited |-> 0, deleted |-> FALSE, reports |-> 0]
           C == db["comments"] \cup {q}
           N == db["mentions"] \cup {[comment |-> now, ticker |-> k] : k \in ms}
<1>3. DOMAIN pg' = DOMAIN pg /\ now' = now + 1 /\ mem' = M!SaveComment(mem, r) /\ new = P!SaveComment(db, r)
  BY <1>1, <1>2, PostCommentSaves
<1>4. /\ r.id = now /\ r.user = u /\ r.ticker = tk /\ r.body = 0 /\ r.at = now
      /\ r.mentions = ms
  OBVIOUS
<1>5. IsRow(q, CommentColumns) /\ q.id = now /\ ~q.deleted /\ q.ticker \in Tickers \cup {Blank}
  BY <1>2 DEF IsRow, CommentColumns
<1>6. mem' = M!Replace(mem, "comments", {"id"}, r)
  BY <1>3 DEF M!SaveComment
<1> DEFINE d1 == [db EXCEPT !["comments"] = C]
<1>7. new = P!Mention(d1, now, ms)
  <2>1. q = [id |-> r.id, user |-> r.user, ticker |-> r.ticker, body |-> r.body, at |-> r.at,
             edited |-> 0, deleted |-> FALSE, reports |-> 0]
    BY <1>4
  <2> HIDE DEF r, q
  <2> QED  BY <1>3, <1>4, <2>1 DEF P!SaveComment
<1>8. IsDb(d1) /\ d1["comments"] = C /\ \A t \in P!TableNames \ {"comments"} : d1[t] = db[t]
  BY <1>1 DEF IsDb, CommentsTwins, CommentTables
<1> HIDE DEF db, new, C, d1
<1>9. new = [d1 EXCEPT !["mentions"] = d1["mentions"] \cup {[comment |-> now, ticker |-> k] : k \in ms}]
  BY <1>7 DEF P!Mention
<1>10. IsDb(new) /\ new["comments"] = C /\ new["likes"] = db["likes"] /\ new["mentions"] = N
  BY <1>1, <1>8, <1>9 DEF IsDb, CommentTables
<1>11. P!Matching(mem, "comments", r, {"id"}) = {}
  <2> HIDE DEF r
  <2>1. \A x \in mem["comments"] : x.id # now
    BY <1>1 DEF CommentsTwins, CommentRows, Live, Whole
  <2> QED  BY <1>4, <2>1 DEF P!Matching
<1>12. IsDb(mem') /\ mem'["comments"] = mem["comments"] \cup {r} /\ mem'["likes"] = mem["likes"]
  <2> HIDE DEF r
  <2>1. "comments" \in P!TableNames /\ "likes" \in P!TableNames \ {"comments"} /\ IsDb(mem)
    BY <1>1 DEF CommentTables, CommentsTwins
  <2> QED  BY <2>1, <1>6, <1>11, RowReplaced
<1> HIDE DEF N
<1>13. MentionsOf(N, now) = ms /\ \A id \in 0..(now - 1) : MentionsOf(N, id) = MentionsOf(db["mentions"], id)
  <2>1. \A z \in db["mentions"] : z.comment \in 0..(now - 1) /\ z.comment # now
    BY <1>1 DEF CommentRows
  <2>2. \A id \in 0..(now - 1) : id # now
    BY <1>1
  <2>3. MentionsOf(N, now) = ms
    <3>1. {y \in N : y.comment = now} = {[comment |-> now, ticker |-> k] : k \in ms}
      BY <2>1 DEF N
    <3> DEFINE S == {[comment |-> now, ticker |-> k] : k \in ms}
    <3>2. \A z \in S : z.ticker \in ms
      OBVIOUS
    <3>3. ASSUME NEW k \in ms PROVE \E z \in S : z.ticker = k
      <4>1. [comment |-> now, ticker |-> k] \in S
        OBVIOUS
      <4> QED  BY <4>1
    <3> HIDE DEF S
    <3>4. {z.ticker : z \in S} = ms
      BY <3>2, <3>3
    <3> QED  BY <3>1, <3>4 DEF MentionsOf, S
  <2>4. ASSUME NEW id \in 0..(now - 1) PROVE MentionsOf(N, id) = MentionsOf(db["mentions"], id)
    <3>1. {y \in N : y.comment = id} = {y \in db["mentions"] : y.comment = id}
      BY <2>2 DEF N
    <3> QED  BY <3>1 DEF MentionsOf
  <2> QED  BY <2>3, <2>4
<1>14. Whole(N, q) = r
  BY <1>13 DEF Whole
<1>15. \A x \in Live(db) : Whole(N, x) = Whole(db["mentions"], x)
  BY <1>1, <1>13 DEF Whole, Live, CommentRows
<1>16. Live(new) = Live(db) \cup {q}
  BY <1>5, <1>10 DEF Live, C
<1>17. CommentsTwins(mem', new)
  <2> HIDE DEF q, r
  <2> QED  BY <1>1, <1>10, <1>12, <1>14, <1>15, <1>16 DEF CommentsTwins
<1>18. CommentRows(new, now')
  <2>1. \A x \in C : IsRow(x, CommentColumns) /\ x.id \in 0..now /\ x.ticker \in Tickers \cup {Blank}
    <3> HIDE DEF q
    <3> QED  BY <1>1, <1>5 DEF CommentRows, C
  <2>2. \A x, y \in C : x.id = y.id => x = y
    <3> HIDE DEF q
    <3> QED  BY <1>1, <1>5 DEF CommentRows, C
  <2>3. \A z \in N : IsRow(z, {"comment", "ticker"}) /\ z.comment \in 0..now
    <3>1. \A z \in db["mentions"] : IsRow(z, {"comment", "ticker"}) /\ z.comment \in 0..now
      BY <1>1 DEF CommentRows
    <3>2. \A k \in ms : LET z == [comment |-> now, ticker |-> k] IN
                                IsRow(z, {"comment", "ticker"}) /\ z.comment \in 0..now
      BY <1>1 DEF IsRow
    <3> QED  BY <3>1, <3>2 DEF N
  <2>4. now' - 1 = now
    BY <1>1, <1>3
  <2> HIDE DEF q, r
  <2> QED  BY <1>10, <2>1, <2>2, <2>3, <2>4 DEF CommentRows
<1> QED  BY <1>1, <1>3, <1>17, <1>18 DEF CommentsTwin, new

\* An edit that keeps the ids and the tickers of comments.
Edits(d, f) ==
  \A x \in d["comments"] : IsRow(f[x], CommentColumns) /\ f[x].id = x.id /\ f[x].ticker = x.ticker
Edited(d, f) == {f[x] : x \in d["comments"]}

LEMMA EditedComments ==
  ASSUME NEW d, NEW n \in Nat, CommentRows(d, n), NEW f, Edits(d, f)
  PROVE  /\ \A x \in Edited(d, f) : IsRow(x, CommentColumns) /\ x.id \in 0..n /\ x.ticker \in Tickers \cup {Blank}
         /\ \A x, y \in Edited(d, f) : x.id = y.id => x = y
<1>1. \A x \in d["comments"] : x.id \in 0..n /\ x.ticker \in Tickers \cup {Blank}
  BY DEF CommentRows
<1>2. \A x, y \in d["comments"] : x.id = y.id => x = y
  BY DEF CommentRows
<1> QED  BY <1>1, <1>2 DEF Edits, Edited

LEMMA LaterMentions ==
  ASSUME NEW d, NEW n \in Nat, CommentRows(d, n)
  PROVE  \A z \in d["mentions"] : IsRow(z, {"comment", "ticker"}) /\ z.comment \in 0..n
BY DEF CommentRows

LEMMA LikeCommentTwin == ASSUME CommentsTwin, LikeComment PROVE CommentsTwin'
<1> DEFINE db == pg["market"]
           new == pg'["market"]
<1>1. /\ CommentTables \subseteq P!TableNames /\ DOMAIN pg = {"market", "user"} /\ now \in Nat
      /\ CommentsTwins(mem, db) /\ CommentRows(db, now)
  BY TheTables DEF CommentsTwin, CommentTables
<1>2. PICK u \in Users, id \in Ids :
        /\ DOMAIN pg' = DOMAIN pg /\ now' = now + 1
        /\ mem' = M!LikeComment(mem, id, u) /\ new = P!LikeComment(db, id, u)
  BY <1>1 DEF LikeComment, Call, Route, UserMethods
<1>3. (\E x \in mem["comments"] : x.id = id) <=> (\E x \in db["comments"] : x.id = id /\ ~x.deleted)
  <2>1. \A x : Whole(db["mentions"], x).id = x.id
    BY DEF Whole
  <2> QED  BY <1>1, <2>1 DEF CommentsTwins, Live
<1> DEFINE like == [comment |-> id, user |-> u]
           L == IF like \in db["likes"] THEN db["likes"] \ {like} ELSE db["likes"] \cup {like}
<1>4. CASE \E x \in mem["comments"] : x.id = id
  <2>1. /\ mem' = [mem EXCEPT !["likes"] = M!Toggle(mem["likes"], like)]
        /\ new = [db EXCEPT !["likes"] = L]
    BY <1>2, <1>3, <1>4 DEF M!LikeComment, P!LikeComment, M!Has, P!Has
  <2>2. M!Toggle(mem["likes"], like) = L
    BY <1>1 DEF M!Toggle, CommentsTwins
  <2> HIDE DEF db, new, L
  <2>3. /\ IsDb(mem') /\ IsDb(new) /\ mem'["likes"] = new["likes"] /\ mem'["comments"] = mem["comments"]
        /\ new["comments"] = db["comments"] /\ new["mentions"] = db["mentions"]
    BY <1>1, <2>1, <2>2 DEF IsDb, CommentsTwins, CommentTables
  <2>4. CommentsTwins(mem', new)
    BY <1>1, <2>3 DEF CommentsTwins, Live
  <2>5. CommentRows(new, now')
    BY <1>1, <1>2, <2>3 DEF CommentRows
  <2> QED  BY <1>1, <1>2, <2>4, <2>5 DEF CommentsTwin, new
<1>5. CASE ~\E x \in mem["comments"] : x.id = id
  <2>1. mem' = mem /\ new = db
    BY <1>2, <1>3, <1>5 DEF M!LikeComment, P!LikeComment, M!Has, P!Has
  <2>2. CommentRows(db, now')
    BY <1>1, <1>2 DEF CommentRows
  <2> QED  BY <1>1, <1>2, <2>1, <2>2 DEF CommentsTwin
<1> QED  BY <1>4, <1>5

LEMMA ReportCommentTwin == ASSUME CommentsTwin, ReportComment PROVE CommentsTwin'
<1> DEFINE db == pg["market"]
           new == pg'["market"]
<1>1. /\ CommentTables \subseteq P!TableNames /\ DOMAIN pg = {"market", "user"} /\ now \in Nat
      /\ CommentsTwins(mem, db) /\ CommentRows(db, now)
  BY TheTables DEF CommentsTwin, CommentTables
<1>2. PICK u \in Users, id \in Ids :
        DOMAIN pg' = DOMAIN pg /\ now' = now + 1 /\ mem' = mem /\ new = P!ReportComment(db, id)
  BY <1>1 DEF ReportComment, Call, Route, UserMethods
<1> DEFINE counted(x) == [x EXCEPT !.reports = x.reports + 1]
           after(x) == IF x.id = id /\ ~x.deleted THEN counted(x) ELSE x
           f == [x \in db["comments"] |-> after(x)]
           C == {f[x] : x \in db["comments"]}
<1>3. new = [db EXCEPT !["comments"] = C]
  <2>1. new = [db EXCEPT !["comments"] = {after(x) : x \in db["comments"]}]
    BY <1>2 DEF P!ReportComment, P!Update
  <2>2. {after(x) : x \in db["comments"]} = C
    OBVIOUS
  <2> QED  BY <2>1, <2>2
<1>4. ASSUME NEW x \in db["comments"]
      PROVE  /\ IsRow(f[x], CommentColumns) /\ f[x].id = x.id /\ f[x].ticker = x.ticker
             /\ f[x].deleted = x.deleted /\ \A mentions : Whole(mentions, f[x]) = Whole(mentions, x)
  <2>1. IsRow(x, CommentColumns)
    BY <1>1 DEF CommentRows
  <2>2. IsRow(counted(x), CommentColumns)
    BY <2>1 DEF IsRow, CommentColumns
  <2>3. /\ counted(x).id = x.id /\ counted(x).ticker = x.ticker /\ counted(x).deleted = x.deleted
        /\ counted(x).user = x.user /\ counted(x).body = x.body /\ counted(x).at = x.at
        /\ counted(x).edited = x.edited
    BY <2>1 DEF IsRow, CommentColumns
  <2>4. f[x] = counted(x) \/ f[x] = x
    OBVIOUS
  <2> HIDE DEF counted, f
  <2> QED  BY <2>1, <2>2, <2>3, <2>4 DEF Whole
<1> HIDE DEF db, new, C, f
<1>5. /\ IsDb(new) /\ new["comments"] = C /\ new["likes"] = db["likes"] /\ new["mentions"] = db["mentions"]
  BY <1>1, <1>3 DEF IsDb, CommentsTwins, CommentTables
<1>6. Live(new) = {f[x] : x \in Live(db)}
  BY <1>4, <1>5 DEF Live, C
<1>7. CommentsTwins(mem', new)
  <2>1. {Whole(new["mentions"], y) : y \in Live(new)} = {Whole(db["mentions"], x) : x \in Live(db)}
    <3>1. \A x \in Live(db) : Whole(db["mentions"], f[x]) = Whole(db["mentions"], x)
      BY <1>4 DEF Live
    <3> QED  BY <1>5, <1>6, <3>1
  <2> QED  BY <1>1, <1>2, <1>5, <2>1 DEF CommentsTwins
<1>8. CommentRows(new, now')
  <2>1. /\ \A x \in C : IsRow(x, CommentColumns) /\ x.id \in 0..now /\ x.ticker \in Tickers \cup {Blank}
        /\ \A x, y \in C : x.id = y.id => x = y
    <3>1. Edits(db, f)
      BY <1>4 DEF Edits
    <3>2. C = Edited(db, f)
      BY DEF C, Edited
    <3> QED  BY <1>1, <3>1, <3>2, EditedComments
  <2>2. \A z \in db["mentions"] : IsRow(z, {"comment", "ticker"}) /\ z.comment \in 0..now
    BY <1>1, LaterMentions
  <2>3. now' - 1 = now
    BY <1>1, <1>2
  <2> QED  BY <1>5, <2>1, <2>2, <2>3 DEF CommentRows
<1> QED  BY <1>1, <1>2, <1>7, <1>8 DEF CommentsTwin, new

LEMMA DeleteCommentTwin == ASSUME CommentsTwin, DeleteComment PROVE CommentsTwin'
<1> DEFINE db == pg["market"]
           new == pg'["market"]
<1>1. /\ CommentTables \subseteq P!TableNames /\ DOMAIN pg = {"market", "user"} /\ now \in Nat
      /\ CommentsTwins(mem, db) /\ CommentRows(db, now)
  BY TheTables DEF CommentsTwin, CommentTables
<1>2. PICK u \in Users, id \in Ids, admin \in BOOLEAN :
        /\ DOMAIN pg' = DOMAIN pg /\ now' = now + 1
        /\ mem' = M!DeleteComment(mem, id, u, admin) /\ new = P!DeleteComment(db, id, u, admin)
  BY <1>1 DEF DeleteComment, Call, Route, UserMethods
<1> DEFINE named(x) == x.id = id /\ (admin \/ x.user = u)
           gone(x) == [x EXCEPT !.deleted = TRUE]
           f == [x \in db["comments"] |-> IF ~x.deleted /\ named(x) THEN gone(x) ELSE x]
           C == {f[x] : x \in db["comments"]}
           S == {y \in mem["comments"] : ~named(y)}
<1>3. new = [db EXCEPT !["comments"] = C] /\ mem' = [mem EXCEPT !["comments"] = S]
  <2>1. /\ new = [db EXCEPT !["comments"] = {IF x.id = id /\ ~x.deleted /\ (admin \/ x.user = u) THEN gone(x)
                                            ELSE x : x \in db["comments"]}]
        /\ mem' = [mem EXCEPT !["comments"] = S]
    BY <1>2 DEF P!DeleteComment, P!Update, M!DeleteComment, M!Drop
  <2>2. {IF x.id = id /\ ~x.deleted /\ (admin \/ x.user = u) THEN gone(x) ELSE x : x \in db["comments"]} = C
    <3> HIDE DEF gone
    <3> QED  OBVIOUS
  <2> QED  BY <2>1, <2>2
<1>4. ASSUME NEW x \in db["comments"]
      PROVE  /\ IsRow(f[x], CommentColumns) /\ f[x].id = x.id /\ f[x].ticker = x.ticker
             /\ ~x.deleted /\ named(x) => f[x].deleted
             /\ ~(~x.deleted /\ named(x)) => f[x] = x
  <2>1. IsRow(x, CommentColumns)
    BY <1>1 DEF CommentRows
  <2>2. IsRow(gone(x), CommentColumns)
    BY <2>1 DEF IsRow, CommentColumns
  <2>3. gone(x).id = x.id /\ gone(x).ticker = x.ticker /\ gone(x).deleted
    BY <2>1 DEF IsRow, CommentColumns
  <2>4. ~x.deleted /\ named(x) => f[x] = gone(x)
    BY DEF named
  <2>5. ~(~x.deleted /\ named(x)) => f[x] = x
    OBVIOUS
  <2> HIDE DEF gone, f, named
  <2> QED  BY <2>1, <2>2, <2>3, <2>4, <2>5
<1>5. \A mentions, x : named(Whole(mentions, x)) <=> named(x)
  BY DEF Whole
<1> HIDE DEF db, new, C, f, S, named
<1>6. /\ IsDb(new) /\ new["comments"] = C /\ new["likes"] = db["likes"] /\ new["mentions"] = db["mentions"]
      /\ IsDb(mem') /\ mem'["comments"] = S /\ mem'["likes"] = mem["likes"]
  BY <1>1, <1>3 DEF IsDb, CommentsTwins, CommentTables
<1>7. Live(new) = {x \in Live(db) : ~named(x)}
  <2>1. ASSUME NEW y \in Live(new) PROVE y \in Live(db) /\ ~named(y)
    <3>1. PICK x \in db["comments"] : y = f[x]
      BY <1>6 DEF Live, C
    <3>2. ~y.deleted
      BY DEF Live
    <3> QED  BY <1>4, <3>1, <3>2 DEF Live
  <2>2. ASSUME NEW x \in Live(db), ~named(x) PROVE x \in Live(new)
    <3>1. x \in db["comments"] /\ ~x.deleted
      BY DEF Live
    <3>2. f[x] = x
      BY <1>4, <2>2, <3>1
    <3>3. x \in C
      BY <3>1, <3>2 DEF C
    <3> QED  BY <1>6, <3>1, <3>3 DEF Live
  <2> QED  BY <2>1, <2>2
<1>8. CommentsTwins(mem', new)
  <2>1. {Whole(db["mentions"], x) : x \in Live(new)} = S
    BY <1>1, <1>7, <1>5 DEF CommentsTwins, S
  <2> QED  BY <1>1, <1>6, <2>1 DEF CommentsTwins
<1>9. CommentRows(new, now')
  <2>1. /\ \A x \in C : IsRow(x, CommentColumns) /\ x.id \in 0..now /\ x.ticker \in Tickers \cup {Blank}
        /\ \A x, y \in C : x.id = y.id => x = y
    <3>1. Edits(db, f)
      BY <1>4 DEF Edits
    <3>2. C = Edited(db, f)
      BY DEF C, Edited
    <3> QED  BY <1>1, <3>1, <3>2, EditedComments
  <2>2. \A z \in db["mentions"] : IsRow(z, {"comment", "ticker"}) /\ z.comment \in 0..now
    BY <1>1, LaterMentions
  <2>3. now' - 1 = now
    BY <1>1, <1>2
  <2> QED  BY <1>6, <2>1, <2>2, <2>3 DEF CommentRows
<1> QED  BY <1>1, <1>2, <1>8, <1>9 DEF CommentsTwin, new

LEMMA PatchCommentTwin == ASSUME CommentsTwin, PatchComment PROVE CommentsTwin'
<1> DEFINE db == pg["market"]
           new == pg'["market"]
<1>1. /\ CommentTables \subseteq P!TableNames /\ DOMAIN pg = {"market", "user"} /\ now \in Nat
      /\ CommentsTwins(mem, db) /\ CommentRows(db, now)
  BY TheTables DEF CommentsTwin, CommentTables
<1>2. PICK u \in Users, id \in Ids, ms \in SUBSET Tickers :
        /\ DOMAIN pg' = DOMAIN pg /\ now' = now + 1
        /\ mem' = M!UpdateComment(mem, id, u, 1, ms, now) /\ new = P!UpdateComment(db, id, u, 1, ms, now)
  BY <1>1 DEF PatchComment, Call, Route, UserMethods
<1> DEFINE retold(y) == [y EXCEPT !.body = 1, !.mentions = ms, !.edited = now]
           own(x) == x.id = id /\ x.user = u
           S == {IF own(y) THEN retold(y) ELSE y : y \in mem["comments"]}
<1>3. mem' = [mem EXCEPT !["comments"] = S]
  BY <1>2 DEF M!UpdateComment, M!Update
<1>4. \A m, x : own(Whole(m, x)) <=> own(x)
  BY DEF Whole
<1>5. CASE ~\E x \in db["comments"] : x.id = id /\ x.user = u /\ ~x.deleted
  <2>1. new = db
    BY <1>2, <1>5 DEF P!UpdateComment, P!Has
  <2>2. \A y \in mem["comments"] : ~own(y)
    <3>1. \A x \in Live(db) : ~own(x)
      BY <1>5 DEF Live
    <3> HIDE DEF own
    <3> QED  BY <1>1, <1>4, <3>1 DEF CommentsTwins
  <2>3. S = mem["comments"]
    <3> HIDE DEF own, retold
    <3> QED  BY <2>2
  <2>4. CommentsTwins(mem', db)
    <3>1. IsDb(mem') /\ mem'["comments"] = S /\ mem'["likes"] = mem["likes"]
      <4> HIDE DEF S
      <4> QED  BY <1>1, <1>3 DEF IsDb, CommentsTwins, CommentTables
    <3> HIDE DEF S
    <3> QED  BY <1>1, <2>3, <3>1 DEF CommentsTwins
  <2>5. CommentRows(db, now')
    BY <1>1, <1>2 DEF CommentRows
  <2> QED  BY <1>1, <1>2, <2>1, <2>4, <2>5 DEF CommentsTwin
<1>6. CASE \E x \in db["comments"] : x.id = id /\ x.user = u /\ ~x.deleted
  <2> DEFINE edited(x) == [x EXCEPT !.body = 1, !.edited = now]
             f == [x \in db["comments"] |-> IF x.id = id THEN edited(x) ELSE x]
             C == {f[x] : x \in db["comments"]}
             d1 == [db EXCEPT !["comments"] = C]
             R == {z \in d1["mentions"] : ~(z.comment = id)}
             d2 == [d1 EXCEPT !["mentions"] = R]
             T == {[comment |-> id, ticker |-> k] : k \in ms}
             N == {z \in db["mentions"] : z.comment # id} \cup T
  <2>1. PICK c \in db["comments"] : c.id = id /\ c.user = u /\ ~c.deleted
    BY <1>6
  <2>2. \A x \in db["comments"] : x.id = id => x = c
    BY <1>1, <2>1 DEF CommentRows
  <2>3. new = P!Mention(d2, id, ms)
    <3>1. {IF x.id = id THEN edited(x) ELSE x : x \in db["comments"]} = C
      <4> HIDE DEF edited
      <4> QED  OBVIOUS
    <3>2. P!Update(db, "comments", LAMBDA x : x.id = id, LAMBDA x : [x EXCEPT !.body = 1, !.edited = now]) = d1
      BY <3>1 DEF P!Update
    <3>3. P!Drop(d1, "mentions", LAMBDA x : x.comment = id) = d2
      BY DEF P!Drop
    <3>4. P!Has(db, "comments", LAMBDA x : x.id = id /\ x.user = u /\ ~x.deleted)
      BY <1>6 DEF P!Has
    <3> HIDE DEF d1, d2
    <3> QED  BY <1>2, <3>2, <3>3, <3>4 DEF P!UpdateComment
  <2>4. ASSUME NEW x \in db["comments"]
        PROVE  /\ IsRow(f[x], CommentColumns) /\ f[x].id = x.id /\ f[x].ticker = x.ticker
               /\ f[x].deleted = x.deleted
               /\ x.id # id => f[x] = x
    <3>1. IsRow(x, CommentColumns)
      BY <1>1 DEF CommentRows
    <3>2. IsRow(edited(x), CommentColumns)
      BY <3>1 DEF IsRow, CommentColumns
    <3>3. edited(x).id = x.id /\ edited(x).ticker = x.ticker /\ edited(x).deleted = x.deleted
      BY <3>1 DEF IsRow, CommentColumns
    <3>4. (x.id = id => f[x] = edited(x)) /\ (x.id # id => f[x] = x)
      OBVIOUS
    <3> HIDE DEF edited, f
    <3> QED  BY <3>1, <3>2, <3>3, <3>4
  <2>5. /\ f[c].id = id /\ f[c].user = u /\ f[c].ticker = c.ticker /\ f[c].body = 1 /\ f[c].at = c.at
        /\ f[c].edited = now
    <3>1. IsRow(c, CommentColumns)
      BY <1>1, <2>1 DEF CommentRows
    <3>2. f[c] = edited(c)
      BY <2>1
    <3>3. /\ edited(c).id = c.id /\ edited(c).user = c.user /\ edited(c).ticker = c.ticker
          /\ edited(c).body = 1 /\ edited(c).at = c.at /\ edited(c).edited = now
      BY <3>1 DEF IsRow, CommentColumns
    <3> HIDE DEF edited, f
    <3> QED  BY <2>1, <3>2, <3>3
  <2> HIDE DEF edited, f
  <2>6. IsDb(d1) /\ d1["comments"] = C /\ d1["likes"] = db["likes"] /\ d1["mentions"] = db["mentions"]
    BY <1>1 DEF IsDb, CommentsTwins, CommentTables
  <2> HIDE DEF db, new, C, d1
  <2>7. IsDb(d2) /\ d2["comments"] = C /\ d2["likes"] = db["likes"] /\ d2["mentions"] = R
    BY <1>1, <2>6 DEF IsDb, CommentTables
  <2> HIDE DEF d2
  <2>8. new = [d2 EXCEPT !["mentions"] = d2["mentions"] \cup T]
    BY <2>3 DEF P!Mention
  <2>9. d2["mentions"] \cup T = N
    BY <2>6, <2>7
  <2> HIDE DEF T, R, N
  <2>10. IsDb(new) /\ new["comments"] = C /\ new["likes"] = db["likes"] /\ new["mentions"] = N
    BY <1>1, <2>7, <2>8, <2>9 DEF IsDb, CommentTables
  <2> HIDE DEF S
  <2>11. IsDb(mem') /\ mem'["comments"] = S /\ mem'["likes"] = mem["likes"]
    BY <1>1, <1>3 DEF IsDb, CommentsTwins, CommentTables
  <2>12. MentionsOf(N, id) = ms
    <3>1. {y \in N : y.comment = id} = T
      BY DEF N, T
    <3>2. \A z \in T : z.ticker \in ms
      BY DEF T
    <3>3. ASSUME NEW k \in ms PROVE \E z \in T : z.ticker = k
      <4>1. [comment |-> id, ticker |-> k] \in T
        BY DEF T
      <4> QED  BY <4>1
    <3>4. {z.ticker : z \in T} = ms
      BY <3>2, <3>3
    <3> QED  BY <3>1, <3>4 DEF MentionsOf
  <2>13. ASSUME NEW i, i # id PROVE MentionsOf(N, i) = MentionsOf(db["mentions"], i)
    <3>1. {y \in N : y.comment = i} = {y \in db["mentions"] : y.comment = i}
      BY <2>13 DEF N, T
    <3> QED  BY <3>1 DEF MentionsOf
  <2> DEFINE W(x) == Whole(db["mentions"], x)
             V(x) == Whole(N, f[x])
  <2>14. ASSUME NEW x \in Live(db) PROVE V(x) = IF own(W(x)) THEN retold(W(x)) ELSE W(x)
    <3>1. x \in db["comments"]
      BY DEF Live
    <3>2. CASE x.id # id
      <4>1. f[x] = x /\ ~own(x)
        BY <2>4, <3>1, <3>2
      <4>2. V(x) = W(x)
        BY <2>13, <3>2, <4>1 DEF Whole
      <4>3. ~own(W(x))
        BY <1>4, <4>1
      <4> HIDE DEF own, retold, W, V
      <4> QED  BY <4>2, <4>3
    <3>3. CASE x.id = id
      <4>1. x = c /\ own(x)
        BY <2>1, <2>2, <3>1, <3>3
      <4>2. V(x) = [id |-> id, user |-> u, ticker |-> c.ticker, body |-> 1, at |-> c.at, edited |-> now,
                    mentions |-> ms]
        BY <2>5, <2>12, <4>1 DEF Whole
      <4>3. retold(W(x)) = [id |-> id, user |-> u, ticker |-> c.ticker, body |-> 1, at |-> c.at,
                            edited |-> now, mentions |-> ms]
        <5> DEFINE D == {"id", "user", "ticker", "body", "at", "edited", "mentions"}
                   e == [id |-> id, user |-> u, ticker |-> c.ticker, body |-> 1, at |-> c.at,
                         edited |-> now, mentions |-> ms]
        <5>1. IsRow(W(x), D) /\ IsRow(e, D)
          BY DEF IsRow, Whole
        <5>2. W(x).id = id /\ W(x).user = u /\ W(x).ticker = c.ticker /\ W(x).at = c.at
          BY <2>1, <4>1 DEF Whole
        <5> HIDE DEF W
        <5>3. IsRow(retold(W(x)), D)
          BY <5>1 DEF IsRow
        <5>4. /\ retold(W(x)).id = id /\ retold(W(x)).user = u /\ retold(W(x)).ticker = c.ticker
              /\ retold(W(x)).body = 1 /\ retold(W(x)).at = c.at /\ retold(W(x)).edited = now
              /\ retold(W(x)).mentions = ms
          BY <5>1, <5>2 DEF IsRow
        <5>5. /\ e.id = id /\ e.user = u /\ e.ticker = c.ticker /\ e.body = 1 /\ e.at = c.at
              /\ e.edited = now /\ e.mentions = ms
          OBVIOUS
        <5> HIDE DEF retold, e
        <5>6. \A k \in D : retold(W(x))[k] = e[k]
          BY <5>4, <5>5
        <5>7. retold(W(x)) = e
          <6> HIDE DEF D
          <6> QED  BY <5>1, <5>3, <5>6 DEF IsRow
        <5> QED  BY <5>7 DEF e
      <4>4. own(W(x))
        BY <1>4, <4>1
      <4> HIDE DEF own, retold, W, V
      <4> QED  BY <4>2, <4>3, <4>4
    <3> QED  BY <3>2, <3>3
  <2>15. Live(new) = {f[x] : x \in Live(db)}
    BY <2>4, <2>10 DEF Live, C
  <2>16. CommentsTwins(mem', new)
    <3>1. mem["comments"] = {W(x) : x \in Live(db)}
      BY <1>1 DEF CommentsTwins
    <3>2. {Whole(N, y) : y \in Live(new)} = {V(x) : x \in Live(db)}
      BY <2>15
    <3> HIDE DEF own, retold, W, V
    <3>3. {V(x) : x \in Live(db)} = S
      BY <2>14, <3>1 DEF S
    <3> QED  BY <1>1, <2>10, <2>11, <3>2, <3>3 DEF CommentsTwins
  <2>17. CommentRows(new, now')
    <3>1. /\ \A x \in C : IsRow(x, CommentColumns) /\ x.id \in 0..now /\ x.ticker \in Tickers \cup {Blank}
          /\ \A x, y \in C : x.id = y.id => x = y
      <4>1. Edits(db, f)
        BY <2>4 DEF Edits
      <4>2. C = Edited(db, f)
        BY DEF C, Edited
      <4> QED  BY <1>1, <4>1, <4>2, EditedComments
    <3>2. \A z \in N : IsRow(z, {"comment", "ticker"}) /\ z.comment \in 0..now
      <4>1. \A z \in db["mentions"] : IsRow(z, {"comment", "ticker"}) /\ z.comment \in 0..now
        BY <1>1, LaterMentions
      <4>2. id \in 0..now
        BY <1>1 DEF Ids
      <4>3. \A k : LET z == [comment |-> id, ticker |-> k] IN
                     IsRow(z, {"comment", "ticker"}) /\ z.comment = id
        BY DEF IsRow
      <4> QED  BY <4>1, <4>2, <4>3 DEF N, T
    <3>3. now' - 1 = now
      BY <1>1, <1>2
    <3> QED  BY <2>10, <3>1, <3>2, <3>3 DEF CommentRows
  <2> QED  BY <1>1, <1>2, <2>16, <2>17 DEF CommentsTwin, new
<1> QED  BY <1>5, <1>6

LEMMA BlankIsNobody == Key(Blank) = Blank /\ \A u \in Users : u # Blank
BY KeyAssumption, UsersAssumption DEF Blank

LEMMA CommentsAgree == ASSUME CommentsTwin PROVE Agree("comments")
<1> DEFINE db == pg["market"]
<1>1. CommentsTwins(mem, db) /\ CommentRows(db, now)
  BY DEF CommentsTwin
<1>2. ASSUME NEW u \in Users, NEW t \in Tickers \cup {Blank}, NEW n \in Limits
      PROVE  M!ListComments(mem, t, n, u) = P!ListComments(db, t, n, u)
  <2> DEFINE heard(y) == Key(y.ticker) = Key(t) \/ (Key(t) # Blank /\ Key(t) \in y.mentions)
             about(x) == x.ticker = t \/ (t # Blank /\ [comment |-> x.id, ticker |-> t] \in db["mentions"])
             likers(id) == {x.user : x \in {y \in db["likes"] : y.comment = id}}
             line(x) == [id |-> x.id, user |-> x.user, ticker |-> x.ticker, body |-> x.body, at |-> x.at,
                         edited |-> x.edited, likes |-> P!Cardinality(likers(x.id)),
                         liked |-> u \in likers(x.id)]
             W(x) == Whole(db["mentions"], x)
  <2>1. M!ListComments(mem, t, n, u) = M!Limited(M!Descending({line(y) : y \in {y \in mem["comments"] : heard(y)}}, "at"), n)
    <3>1. \A id : M!LikesOf(mem, id) = likers(id)
      BY <1>1 DEF M!LikesOf, CommentsTwins
    <3>2. \A id : M!Cardinality(M!LikesOf(mem, id)) = P!Cardinality(likers(id))
      BY <3>1, SameCardinality
    <3>3. ASSUME NEW y
          PROVE  [id |-> y.id, user |-> y.user, ticker |-> y.ticker, body |-> y.body, at |-> y.at,
                  edited |-> y.edited, likes |-> M!Cardinality(M!LikesOf(mem, y.id)),
                  liked |-> u # Blank /\ u \in M!LikesOf(mem, y.id)] = line(y)
      <4>1. (u # Blank /\ u \in M!LikesOf(mem, y.id)) = (u \in likers(y.id))
        BY <3>1, BlankIsNobody
      <4> QED  BY <3>2, <4>1
    <3> DEFINE shown == {[id |-> y.id, user |-> y.user, ticker |-> y.ticker, body |-> y.body, at |-> y.at,
                         edited |-> y.edited, likes |-> M!Cardinality(M!LikesOf(mem, y.id)),
                         liked |-> u # Blank /\ u \in M!LikesOf(mem, y.id)] :
                            y \in {z \in mem["comments"] : heard(z)}}
    <3>4. shown = {line(y) : y \in {y \in mem["comments"] : heard(y)}}
      <4> HIDE DEF line, heard
      <4> QED  BY <3>3
    <3>5. M!ListComments(mem, t, n, u) = M!Limited(M!Descending(shown, "at"), n)
      BY DEF M!ListComments, Blank
    <3> HIDE DEF shown
    <3> QED  BY <3>4, <3>5
  <2>2. P!ListComments(db, t, n, u) =
          P!Limited(P!Descending({line(x) : x \in {y \in db["comments"] : about(y) /\ ~y.deleted}}, "at"), n)
    BY DEF P!ListComments, P!LikesOf, Blank
  <2>3. Key(t) = t
    BY KeyOfTicker, BlankIsNobody
  <2>4. ASSUME NEW x \in Live(db)
        PROVE  (heard(W(x)) <=> about(x)) /\ line(W(x)) = line(x)
    <3>1. x.ticker \in Tickers \cup {Blank}
      BY <1>1 DEF CommentRows, Live
    <3>2. Key(x.ticker) = x.ticker
      BY <3>1, KeyOfTicker, BlankIsNobody
    <3>3. /\ W(x).id = x.id /\ W(x).user = x.user /\ W(x).ticker = x.ticker /\ W(x).body = x.body
          /\ W(x).at = x.at /\ W(x).edited = x.edited /\ W(x).mentions = MentionsOf(db["mentions"], x.id)
      BY DEF Whole
    <3>4. t \in MentionsOf(db["mentions"], x.id) <=> [comment |-> x.id, ticker |-> t] \in db["mentions"]
      <4>1. ASSUME NEW z \in db["mentions"], z.comment = x.id, z.ticker = t
            PROVE  z = [comment |-> x.id, ticker |-> t]
        BY <1>1, <4>1 DEF CommentRows, IsRow
      <4>2. [comment |-> x.id, ticker |-> t] \in db["mentions"] => t \in MentionsOf(db["mentions"], x.id)
        <5> DEFINE z == [comment |-> x.id, ticker |-> t]
        <5>1. z.comment = x.id /\ z.ticker = t
          OBVIOUS
        <5> HIDE DEF z
        <5>2. z \in db["mentions"] => t \in MentionsOf(db["mentions"], x.id)
          BY <5>1 DEF MentionsOf
        <5> QED  BY <5>2 DEF z
      <4> QED  BY <4>1, <4>2 DEF MentionsOf
    <3>5. heard(W(x)) <=> about(x)
      <4> HIDE DEF W
      <4> QED  BY <2>3, <3>2, <3>3, <3>4
    <3>6. line(W(x)) = line(x)
      <4> HIDE DEF W, likers
      <4> QED  BY <3>3
    <3> QED  BY <3>5, <3>6
  <2> DEFINE S == {line(x) : x \in {y \in db["comments"] : about(y) /\ ~y.deleted}}
  <2>5. {line(y) : y \in {y \in mem["comments"] : heard(y)}} = S
    <3>1. mem["comments"] = {W(x) : x \in Live(db)}
      BY <1>1 DEF CommentsTwins
    <3>2. S = {line(x) : x \in {y \in Live(db) : about(y)}}
      <4>1. {y \in db["comments"] : about(y) /\ ~y.deleted} = {y \in Live(db) : about(y)}
        BY DEF Live
      <4> HIDE DEF line, about
      <4> QED  BY <4>1
    <3> HIDE DEF line, heard, about, W
    <3> QED  BY <2>4, <3>1, <3>2
  <2> HIDE DEF S
  <2> QED  BY <2>1, <2>2, <2>5, SameDescending DEF M!Limited, P!Limited, S
<1> QED  BY <1>2 DEF Agree, On, Route, UserMethods, Blank

-----------------------------------------------------------------------------
(* Both deployments, family by family. *)

TwinsInv ==
  /\ family = "kept" => KeptTwin
  /\ family = "clips" => ClipsTwin
  /\ family = "alerts" => AlertsTwin
  /\ family = "holdings" => HoldingsTwin
  /\ family = "meters" => MetersTwin
  /\ family = "billing" => BillingTwin
  /\ family = "comments" => CommentsTwin

TwinFamilies == {"kept", "clips", "alerts", "holdings", "meters", "billing", "comments"}

LEMMA TwinsInit == ASSUME StoresInit PROVE TwinsInv
<1> DEFINE db == pg["user"]
           market == pg["market"]
<1>1. /\ DOMAIN pg = {"market", "user"} /\ db = P!EmptyDb /\ market = P!EmptyDb
      /\ mem = M!EmptyDb /\ now = 1
  BY DEF StoresInit
<1>2. /\ IsDb(db) /\ IsDb(market) /\ IsDb(mem)
      /\ \A t \in P!TableNames : db[t] = {} /\ market[t] = {} /\ mem[t] = {}
  BY <1>1, EmptyTables
<1> HIDE DEF db, market
<1>3. KeptTwin /\ ClipsTwin /\ AlertsTwin /\ HoldingsTwin /\ MetersTwin
  BY <1>1, <1>2, TheTables DEF KeptTwin, ClipsTwin, AlertsTwin, HoldingsTwin, MetersTwin, db
<1>4. BillingTwin
  BY <1>1, <1>2, TheTables DEF BillingTwin, market
<1>5. CommentsTwins(mem, market) /\ CommentRows(market, now)
  BY <1>2, TheTables DEF CommentsTwins, CommentRows, Live
<1>6. CommentsTwin
  BY <1>1, <1>5 DEF CommentsTwin, market
<1> QED  BY <1>3, <1>4, <1>6 DEF TwinsInv

LEMMA TwinsLoss == ASSUME TwinsInv, family' = family, DOMAIN pg = {"market", "user"}, LoseUserDatabase
                   PROVE  TwinsInv'
<1> DEFINE db == pg'["user"]
<1>1. /\ DOMAIN pg' = {"market", "user"} /\ db = P!EmptyDb /\ pg'["market"] = pg["market"]
      /\ now' = now + 1
  BY DEF LoseUserDatabase
<1>2. IsDb(db) /\ \A t \in P!TableNames : db[t] = {}
  BY <1>1, EmptyTables
<1>3. IsDb(mem) => /\ IsDb(mem')
                   /\ \A t \in {"watch", "prefs", "clips", "alerts", "holdings", "meters"} : mem'[t] = {}
                   /\ \A t \in {"subs", "events", "funnel", "comments", "likes"} : mem'[t] = mem[t]
  BY TheTables DEF LoseUserDatabase, IsDb, Rebuildable, P!KeptTables
<1> HIDE DEF db
<1>4. IsDb(mem) => KeptTwin' /\ ClipsTwin' /\ AlertsTwin' /\ HoldingsTwin' /\ MetersTwin'
  BY <1>1, <1>2, <1>3, TheTables DEF KeptTwin, ClipsTwin, AlertsTwin, HoldingsTwin, MetersTwin, db
<1>5. BillingTwin => BillingTwin'
  BY <1>1, <1>3 DEF BillingTwin
<1>6. CommentsTwin => CommentsTwin'
  <2>1. SUFFICES ASSUME CommentsTwin PROVE CommentsTwin'
    OBVIOUS
  <2>2. now \in Nat /\ CommentsTwins(mem, pg["market"]) /\ CommentRows(pg["market"], now)
    BY <2>1 DEF CommentsTwin
  <2>3. CommentsTwins(mem', pg["market"])
    BY <1>3, <2>2 DEF CommentsTwins
  <2>4. CommentRows(pg["market"], now + 1)
    BY <2>2 DEF CommentRows
  <2> QED  BY <1>1, <2>2, <2>3, <2>4 DEF CommentsTwin
<1>7. /\ KeptTwin => IsDb(mem)
      /\ ClipsTwin => IsDb(mem)
      /\ AlertsTwin => IsDb(mem)
      /\ HoldingsTwin => IsDb(mem)
      /\ MetersTwin => IsDb(mem)
  BY DEF KeptTwin, ClipsTwin, AlertsTwin, HoldingsTwin, MetersTwin
<1> QED  BY <1>4, <1>5, <1>6, <1>7 DEF TwinsInv

LEMMA TwinsNext == ASSUME RowsInv, TwinsInv, [StoresNext]_storeVars PROVE TwinsInv'
<1>1. CASE UNCHANGED storeVars
  BY <1>1 DEF storeVars, TwinsInv, KeptTwin, ClipsTwin, AlertsTwin, HoldingsTwin, MetersTwin, BillingTwin,
              CommentsTwin
<1>2. CASE StoresNext /\ family \in TwinFamilies
  <2>1. DOMAIN pg = {"market", "user"}
    BY <1>2 DEF TwinFamilies, RowsInv, KeptInv, ClipsInv, AlertsInv, HoldingsInv, TwinsInv, MetersTwin,
                BillingTwin, CommentsInv
  <2>2. /\ family' = family
        /\ \/ LoseUserDatabase
           \/ family = "meters" /\ Spend
           \/ family = "billing" /\ BillingActions
           \/ family = "kept" /\ KeptActions
           \/ family = "clips" /\ PostClip
           \/ family = "alerts" /\ AlertsActions
           \/ family = "holdings" /\ HoldingsActions
           \/ family = "comments" /\ CommentsActions
    BY <1>2, FamilyStep DEF TwinFamilies, CollectedFamilies
  <2>3. CASE LoseUserDatabase
    BY <2>1, <2>2, <2>3, TwinsLoss
  <2>4. CASE family = "meters" /\ Spend
    BY <2>2, <2>4, MetersTwinStep DEF TwinsInv
  <2>5. CASE family = "billing" /\ BillingActions
    BY <2>2, <2>5, BillingTwinStep DEF TwinsInv, BillingActions
  <2>6. CASE family = "kept" /\ KeptActions
    BY <2>2, <2>6, KeptTwinStep DEF TwinsInv, RowsInv
  <2>7. CASE family = "clips" /\ PostClip
    BY <2>2, <2>7, ClipsTwinStep DEF TwinsInv, RowsInv
  <2>8. CASE family = "alerts" /\ AlertsActions
    BY <2>2, <2>8, AlertsTwinStep DEF TwinsInv, RowsInv
  <2>9. CASE family = "holdings" /\ HoldingsActions
    BY <2>2, <2>9, HoldingsTwinStep DEF TwinsInv, RowsInv
  <2>10. CASE family = "comments" /\ CommentsActions
    BY <2>2, <2>10, PostCommentTwin, PatchCommentTwin, DeleteCommentTwin, LikeCommentTwin, ReportCommentTwin
    DEF TwinsInv, CommentsActions
  <2> QED  BY <2>2, <2>3, <2>4, <2>5, <2>6, <2>7, <2>8, <2>9, <2>10
<1>3. CASE StoresNext /\ family \notin TwinFamilies
  <2>1. family' = family
    BY <1>3, FamilyStep
  <2> QED  BY <1>3, <2>1 DEF TwinsInv, TwinFamilies
<1> QED  BY <1>1, <1>2, <1>3

\* Whatever users keep, pay, spend or write to each other, both deployments answer every query
\* of these families alike: for any users, tickers and number of calls, with or without a loss
\* of the user database (internal/store/memory and internal/store/postgres).
THEOREM UsersBackendsAgree ==
  ASSUME UsersAssumption, KeyAssumption, CustomerAssumption
  PROVE  StoresSpec => [](family \in TwinFamilies => BackendsAgree)
<1>1. StoresInit => RowsInv /\ TwinsInv
  BY RowsInvInit, TwinsInit
<1>2. RowsInv /\ TwinsInv /\ [StoresNext]_storeVars => (RowsInv /\ TwinsInv)'
  BY RowsInvNext, TwinsNext
<1>3. RowsInv /\ TwinsInv => (family \in TwinFamilies => BackendsAgree)
  BY KeptAgree, ClipsAgree, AlertsAgree, HoldingsAgree, MetersAgree, BillingAgree, CommentsAgree
  DEF TwinsInv, TwinFamilies, BackendsAgree
<1> QED  BY <1>1, <1>2, <1>3, PTL DEF StoresSpec
=============================================================================
