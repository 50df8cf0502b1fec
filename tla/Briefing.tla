------------------------------ MODULE Briefing ------------------------------
(***************************************************************************)
(* The morning briefing: BriefingCache of internal/ingest generates the    *)
(* day's text from the warm caches after 07:00 ET, BriefingBroadcaster     *)
(* posts it to a Telegram channel.  Both are goroutines with a ticker and  *)
(* remember what they did in memory only.                                  *)
(***************************************************************************)
EXTENDS Naturals

CONSTANTS
  HasIndices,   \* main gives the cache an index source (it passes nil)
  MaxAttempts,  \* briefMaxAttempts
  MaxDay,       \* bound: ET days
  MaxSendFaults     \* bound: restarts and sends that go wrong

Sends == {"photo", "photo again", "text", "text again"}

VARIABLES
  day, morning,          \* the ET day, and whether it is past 07:00
  warm,                  \* the caches hold enough for a briefing
  gen, genDay,           \* the generator: idle or composing, and the day it read
  date, complete, tries, \* b.date (0: none), b.complete, b.attempts
  send, sending,         \* the broadcaster: idle or one of Sends, and its date
  lastPosted,            \* lastPostedDate (0: none)
  gens, posts, lost,     \* history: texts, posts and answers lost, per day
  restarts, sendFaults

cacheVars == <<gen, genDay, date, complete, tries>>
castVars == <<send, sending, lastPosted>>
briefVars == <<day, morning, warm, cacheVars, castVars, gens, posts, lost, restarts, sendFaults>>

Days == 1..MaxDay

BriefInit ==
  /\ day = 1 /\ morning \in BOOLEAN /\ warm = FALSE
  /\ gen = "idle" /\ genDay = 0
  /\ date = 0 /\ complete = FALSE /\ tries = 0
  /\ send = "idle" /\ sending = 0 /\ lastPosted = 0
  /\ gens = [d \in Days |-> 0] /\ posts = [d \in Days |-> 0] /\ lost = [d \in Days |-> 0]
  /\ restarts = 0 /\ sendFaults = 0

TimePasses ==
  /\ \/ ~morning /\ morning' = TRUE /\ UNCHANGED day
     \/ morning /\ day < MaxDay /\ day' = day + 1 /\ morning' = FALSE
  /\ UNCHANGED <<warm, cacheVars, castVars, gens, posts, lost, restarts, sendFaults>>

WarmUp ==
  /\ ~warm /\ warm' = TRUE
  /\ UNCHANGED <<day, morning, cacheVars, castVars, gens, posts, lost, restarts, sendFaults>>

-----------------------------------------------------------------------------
(* maybeGenerate. *)

Locked == date = day /\ (complete \/ tries >= MaxAttempts)

StartGenerating ==
  /\ gen = "idle" /\ morning /\ warm /\ ~Locked
  /\ gen' = "composing" /\ genDay' = day
  /\ tries' = IF date # day THEN 0 ELSE tries
  /\ UNCHANGED <<day, morning, warm, date, complete, castVars, gens, posts, lost, restarts, sendFaults>>

\* The Chinese text fails: nothing is stored, and the attempt is not counted.
GenerationFails ==
  /\ gen = "composing"
  /\ gen' = "idle"
  /\ UNCHANGED <<day, morning, warm, genDay, date, complete, tries, castVars,
                 gens, posts, lost, restarts, sendFaults>>

\* The text (and the English one, or its fallback) is stored for the day that
\* the generator read before the calls.
Generated ==
  /\ gen = "composing"
  /\ gen' = "idle"
  /\ date' = genDay /\ complete' = HasIndices
  /\ tries' = (IF date # genDay THEN 0 ELSE tries) + 1
  /\ gens' = [gens EXCEPT ![genDay] = @ + 1]
  /\ UNCHANGED <<day, morning, warm, genDay, castVars, posts, lost, restarts, sendFaults>>

-----------------------------------------------------------------------------
(* maybeBroadcast. *)

StartSending ==
  /\ send = "idle" /\ date # 0 /\ date # lastPosted
  /\ send' = "photo" /\ sending' = date
  /\ UNCHANGED <<day, morning, warm, cacheVars, lastPosted, gens, posts, lost, restarts, sendFaults>>

\* Mutant: a photo that went out after the back-off is not recorded.
SendOkFirstOnly ==
  /\ send \in Sends
  /\ posts' = [posts EXCEPT ![sending] = @ + 1]
  /\ lastPosted' = IF send = "photo again" THEN lastPosted ELSE sending
  /\ send' = "idle" /\ sending' = 0
  /\ UNCHANGED <<day, morning, warm, cacheVars, gens, lost, restarts, sendFaults>>

SendOk ==
  /\ send \in Sends
  /\ posts' = [posts EXCEPT ![sending] = @ + 1]
  /\ lastPosted' = sending
  /\ send' = "idle" /\ sending' = 0
  /\ UNCHANGED <<day, morning, warm, cacheVars, gens, lost, restarts, sendFaults>>

\* After an error that is no rate limit: from the photo to the text, then out.
GiveWay ==
  IF send \in {"photo", "photo again"} THEN send' = "text" /\ UNCHANGED sending
                                       ELSE send' = "idle" /\ sending' = 0

\* Mutant: the day counts as posted although the last send failed.
SendFailsButPosted ==
  /\ send \in Sends /\ sendFaults < MaxSendFaults
  /\ sendFaults' = sendFaults + 1
  /\ GiveWay
  /\ lastPosted' = sending
  /\ UNCHANGED <<day, morning, warm, cacheVars, gens, posts, lost, restarts>>

\* Telegram refuses, or cannot be reached.
SendFails ==
  /\ send \in Sends /\ sendFaults < MaxSendFaults
  /\ sendFaults' = sendFaults + 1
  /\ GiveWay
  /\ UNCHANGED <<day, morning, warm, cacheVars, lastPosted, gens, posts, lost, restarts>>

\* Telegram posts it and the answer is lost, which looks the same.
AnswerLost ==
  /\ send \in Sends /\ sendFaults < MaxSendFaults
  /\ sendFaults' = sendFaults + 1
  /\ posts' = [posts EXCEPT ![sending] = @ + 1]
  /\ lost' = [lost EXCEPT ![sending] = @ + 1]
  /\ GiveWay
  /\ UNCHANGED <<day, morning, warm, cacheVars, lastPosted, gens, restarts>>

\* 429: the same again after the wait, once.
RateLimited ==
  /\ send \in Sends /\ sendFaults < MaxSendFaults
  /\ sendFaults' = sendFaults + 1
  /\ \/ send = "photo" /\ send' = "photo again" /\ UNCHANGED sending
     \/ send = "text" /\ send' = "text again" /\ UNCHANGED sending
     \/ send \in {"photo again", "text again"} /\ GiveWay
  /\ UNCHANGED <<day, morning, warm, cacheVars, lastPosted, gens, posts, lost, restarts>>

\* The process restarts with cold caches.
Restart ==
  /\ sendFaults < MaxSendFaults
  /\ sendFaults' = sendFaults + 1 /\ restarts' = restarts + 1
  /\ warm' = FALSE
  /\ gen' = "idle" /\ genDay' = 0 /\ date' = 0 /\ complete' = FALSE /\ tries' = 0
  /\ send' = "idle" /\ sending' = 0 /\ lastPosted' = 0
  /\ UNCHANGED <<day, morning, gens, posts, lost>>

Sender == StartSending \/ SendOk \/ SendFails \/ AnswerLost \/ RateLimited

BriefNext ==
  \/ TimePasses \/ WarmUp \/ Restart
  \/ StartGenerating \/ GenerationFails \/ Generated
  \/ Sender

\* The broadcaster's ticker keeps firing, and a send returns.
BriefFairness == WF_briefVars(Sender)

BriefSpec == BriefInit /\ [][BriefNext]_briefVars /\ BriefFairness

-----------------------------------------------------------------------------
(* Properties. *)

BriefTypeOK ==
  /\ day \in Days /\ morning \in BOOLEAN /\ warm \in BOOLEAN
  /\ gen \in {"idle", "composing"} /\ genDay \in 0..MaxDay
  /\ date \in 0..MaxDay /\ complete \in BOOLEAN /\ tries \in Nat
  /\ send \in Sends \cup {"idle"} /\ sending \in 0..MaxDay /\ lastPosted \in 0..MaxDay
  /\ gens \in [Days -> Nat] /\ posts \in [Days -> Nat] /\ lost \in [Days -> Nat]
  /\ restarts \in 0..MaxSendFaults /\ sendFaults \in 0..MaxSendFaults

\* "post each day's briefing at most once": a second post of a day comes from a
\* restart, which forgets the first, or from an answer that was lost.  And a
\* provisional briefing is generated again at most MaxAttempts times between
\* restarts, also when the calls span midnight.
OnceADay ==
  /\ \A d \in Days : posts[d] <= 1 + restarts + lost[d]
  /\ \A d \in Days : gens[d] <= MaxAttempts * (1 + restarts)

\* A briefing that is there goes out, unless another day's or a restart takes
\* its place, however often a send fails.
BriefingDelivered ==
  \A d \in Days : date = d ~> (posts[d] > 0 \/ date # d)
=============================================================================
