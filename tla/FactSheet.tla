------------------------------ MODULE FactSheet -----------------------------
(***************************************************************************)
(* What a research report says: the sheet of facts that internal/research  *)
(* assembles for one ticker, the prose the LLM adds to it, and what the    *)
(* handlers of internal/api keep and show of it.  Research models the gate *)
(* and the quotas around one generation; here there is one report and its  *)
(* content.                                                                *)
(*                                                                         *)
(* A provider that has nothing for the ticker, fails or is switched off    *)
(* gives the empty set.  The relative providers rank the ticker in a       *)
(* population that a background scan fills at some moment (warm).  A date  *)
(* is a number, 0 that of a fact that bears none.  A line of prose is      *)
(* "fact", "advice", or the "head" or "tail" of an advice phrased across   *)
(* two lines.  Wording, units, languages and citations are left out.       *)
(***************************************************************************)
EXTENDS Naturals, Sequences, FiniteSets

CONSTANTS
  Filings,   \* external: what the company may have filed
  Unfiled,   \* no filing
  Holdings,  \* external: the reporting periods of the funds that hold the stock, largest first
  Replies,   \* external: what the LLM may answer, lines by section key
  Outages    \* bound: the sets of providers that may give less than everything together

VARIABLES
  filing,   \* what the company filed
  holders,  \* the periods of its holders
  answer,   \* what each provider gives
  warm,     \* the relative providers whose first scan has landed
  stage,
  path,     \* the sync report or the deep one
  coldRelative, \* some relative provider was cold when the handler looked
  array,    \* Sections: array 1 of the handler, array 2 of the background composer
  mine,     \* the array the composer writes
  reply,    \* what the LLM answered
  filled,   \* sections the composer has been through
  sent,     \* the instant response, as far as it is written
  written,  \* sections of it written
  cached,   \* researchCache: the report kept, if one is
  served    \* the last view of it

given == <<filing, holders, answer, path>>
composer == <<mine, reply, filled>>
response == <<sent, written>>
sheetVars == <<given, warm, stage, coldRelative, array, composer, response, cached, served>>

-----------------------------------------------------------------------------
(* Data. *)

ValuationIDs == {"pe", "pb", "dy"}
FundamentalIDs == {"revenue_growth_yoy", "earnings_growth_yoy", "gross_margin", "net_margin",
                   "roe", "fcf", "debt_to_asset"}
TechnicalIDs == {"rsi", "macd", "sma", "ema", "boll", "atr", "kdj", "volume"}
Headlines == {"revenue", "net_income", "eps_diluted"}

\* trailing are the headlines with a trailing figure, figures the indicators its filings suffice
\* for; quarter is the date of the latest one, 0 if unknown.
SheetAssumption ==
  /\ Filings \subseteq [trailing : SUBSET Headlines, year : Nat, quarter : Nat, shares : BOOLEAN,
                       figures : SUBSET (ValuationIDs \cup FundamentalIDs)]
  /\ Unfiled \notin Filings
  /\ Holdings \subseteq Seq(Nat)

\* What each provider may give for a ticker: the computer's bars, filings and price, and those
\* the sheet reads itself; the facts of every other provider.
Gives ==
  [bars |-> {{}, {"rsi", "volume"}, TechnicalIDs},
   computed |-> {{}, {"filing"}}, last |-> {{}, {"price"}},
   fundamentals |-> {{}, {"filing"}}, quote |-> {{}, {"price"}},
   scorecard |-> {{}, {"value_percentile", "growth_percentile", "quality_percentile"},
                  {"value_percentile", "growth_percentile", "quality_percentile",
                   "momentum_percentile"}},
   rs |-> {{}, {"rs_percentile"}}, reaction |-> {{}, {"earnings_reaction_percentile"}},
   congress |-> {{}, {"congress_members", "congress_latest"}},
   insider |-> {{}, {"insider_buyers"}, {"insider_buyers", "insider_value", "insider_avg_price"}},
   options |-> {{}, {"options_top_oi"},
                {"options_pc_volume", "options_pc_oi", "options_max_pain", "options_top_oi"}},
   shortVol |-> {{}, {"short_pct"}, {"short_pct", "short_trend"}},
   shortInt |-> {{}, {"days_to_cover"}, {"days_to_cover", "short_interest_change"}},
   market |-> {{}, {"market_fear_greed"}},
   signals |-> {{}, {"news_sentiment"}, {"buzz_mentions", "buzz_rank", "news_sentiment"}},
   boards |-> {{}, {"hotlist_hot"}, {"hotlist_hot", "hotlist_wsb"}},
   earnings |-> {{}, {"next_earnings"}},
   events |-> {{}, {"recent_8k_2"}, {"recent_8k_1", "recent_8k_2", "recent_8k_3"}}]
Providers == DOMAIN Gives
Everything == [p \in Providers |-> UNION Gives[p]]
Relative == {"scorecard", "rs", "reaction"}

\* The sections, in the order of the report.
Order == <<"overview", "valuation", "fundamentals", "technical", "relative", "flows",
           "sentiment", "catalysts">>
SectionKeys == {Order[i] : i \in DOMAIN Order}
Body == SectionKeys \ {"overview"}

\* A section as it is assembled, one that is not in the sheet, and one behind the paywall.
Section(facts) == [shown |-> TRUE, facts |-> facts, prose |-> <<>>, bull |-> {}, bear |-> {},
                   locked |-> FALSE]
Absent == [shown |-> FALSE, facts |-> {}, prose |-> <<>>, bull |-> {}, bear |-> {},
           locked |-> FALSE]
Locked == [shown |-> TRUE, facts |-> {}, prose |-> <<>>, bull |-> {}, bear |-> {}, locked |-> TRUE]
Nothing == [k \in SectionKeys |-> Absent]

\* stamp is AsOf; loss says the value reads "loss-making"; trailing that the label says TTM.
Fact(key, stamp) == [key |-> key, ok |-> TRUE, stamp |-> stamp, loss |-> FALSE, trailing |-> FALSE]

-----------------------------------------------------------------------------
(* Assemble. *)

\* StockIndicators: the computer reads bars, filings and price of its own.
Computed(id) ==
  LET f == IF answer.computed = {} THEN Unfiled ELSE filing
  IN  IF id \in TechnicalIDs THEN id \in answer.bars
      ELSE /\ f # Unfiled
           /\ id \in ValuationIDs => answer.last # {}
           /\ id \in f.figures

\* factFromIndicator: the reason of an insufficient P/E names the EPS, if there are filings.
factFromIndicator(id, stamp) ==
  [Fact(id, stamp) EXCEPT
     !.ok = Computed(id),
     !.loss = id = "pe" /\ ~Computed(id) /\ answer.computed # {} /\ filing # Unfiled]

\* The lines an indicator has besides its value.
extraFacts ==
  LET lines(id) == CASE id = "macd" -> {"macd_signal", "macd_hist"}
                     [] id = "boll" -> {"boll_upper", "boll_lower"}
                     [] id = "kdj" -> {"kdj_d", "kdj_j"}
                     [] OTHER -> {}
  IN  {Fact(l, 0) : l \in UNION {lines(id) : id \in TechnicalIDs \cap answer.bars}}

Fund == IF answer.fundamentals = {} THEN Unfiled ELSE filing
fundAsOf == IF Fund = Unfiled THEN 0 ELSE Fund.year
ttmAsOf == IF Fund = Unfiled \/ Fund.quarter = 0 THEN fundAsOf ELSE Fund.quarter
Trailing(h) == Fund # Unfiled /\ h \in Fund.trailing
AsOf(h) == IF Trailing(h) THEN ttmAsOf ELSE fundAsOf

\* Mutant: the P/E keeps the stamp of the year.
valuationOfTheYear ==
  {Fact("price", 0) : p \in answer.quote} \cup
  {Fact("market_cap", fundAsOf) : p \in {q \in answer.quote : Fund # Unfiled /\ Fund.shares}} \cup
  {factFromIndicator(id, fundAsOf) : id \in ValuationIDs}

\* The P/E bears the stamp of the EPS it divides by.
valuation ==
  {Fact("price", 0) : p \in answer.quote} \cup
  {Fact("market_cap", fundAsOf) : p \in {q \in answer.quote : Fund # Unfiled /\ Fund.shares}} \cup
  {factFromIndicator(id, IF id = "pe" THEN AsOf("eps_diluted") ELSE fundAsOf) : id \in ValuationIDs}

\* The trailing figure first, the fiscal year's if the filer has too few quarters.
fundamentals ==
  {[Fact(h, AsOf(h)) EXCEPT !.trailing = Trailing(h)] : h \in {x \in Headlines : Fund # Unfiled}} \cup
  {factFromIndicator(id, fundAsOf) : id \in FundamentalIDs}

technical == {factFromIndicator(id, 0) : id \in TechnicalIDs} \cup extraFacts

\* Each ranking is there or left out by itself; a population still empty ranks nobody.
assembleRelative == {Fact(k, 0) : k \in UNION {answer[p] : p \in Relative \cap warm}}

\* The oldest period known of all holders.
Known == {holders[i] : i \in DOMAIN holders} \ {0}
oldestPeriod == IF Known = {} THEN 0 ELSE CHOOSE p \in Known : \A q \in Known : p <= q

\* The count of the holders and the four largest, each with its period.
thirteenFFacts ==
  IF holders = <<>> THEN {}
  ELSE {Fact("whales_count", oldestPeriod)} \cup
       {Fact("whale", holders[i]) : i \in {j \in DOMAIN holders : j <= 4}}

assembleFlows ==
  {Fact(k, 0) : k \in UNION {answer[p] : p \in {"congress", "insider", "options", "shortVol",
                                               "shortInt"}}} \cup thirteenFFacts

assembleSentiment ==
  {Fact(k, 0) : k \in UNION {answer[p] : p \in {"market", "signals", "boards"}}}

assembleCatalysts ==
  {Fact(k, 0) : k \in UNION {answer[p] : p \in {"earnings", "events"}}}

\* addSection: a section without an ok fact is left out.
addSection(facts) == IF \E f \in facts : f.ok THEN Section(facts) ELSE Absent

\* The sections that come of the company itself, and those of its market.
companySections ==
  [k \in SectionKeys |->
     CASE k = "valuation" -> addSection(valuation)
       [] k = "fundamentals" -> addSection(fundamentals)
       [] k = "technical" -> addSection(technical)
       [] OTHER -> Absent]
WithMarket(s) ==
  [k \in SectionKeys |->
     CASE k = "relative" -> addSection(assembleRelative)
       [] k = "flows" -> addSection(assembleFlows)
       [] k = "sentiment" -> addSection(assembleSentiment)
       [] k = "catalysts" -> addSection(assembleCatalysts)
       [] OTHER -> s[k]]

\* Nothing at all: no section and no date.
Unknown(s) ==
  /\ \A k \in SectionKeys : ~s[k].shown
  /\ answer.bars = {} /\ (answer.computed = {} \/ filing = Unfiled) /\ Fund = Unfiled

relativeSourcesCold == Relative \ warm # {}

-----------------------------------------------------------------------------
(* compose. *)

\* The guard sees an advice in a line, and one across two lines that follow each other.
hasAdvice(lines) ==
  \E i \in DOMAIN lines :
    lines[i] = "advice" \/ (lines[i] = "head" /\ i + 1 \in DOMAIN lines /\ lines[i + 1] = "tail")

WithoutAdvice(p) == SelectSeq(p, LAMBDA l : l # "advice")

\* Mutant: the lines that are left are not read together.
scrubOfLines(p) == WithoutAdvice(p)

\* The lines with an advice go; if the rest still gives one, all of it does.
ScrubAdvice(p) == IF hasAdvice(WithoutAdvice(p)) THEN <<>> ELSE WithoutAdvice(p)

\* The points of one side, each read by itself.
splitPoints(p) == {p[i] : i \in DOMAIN p} \ {"advice"}

Said(k) == IF k \in DOMAIN reply THEN reply[k] ELSE <<>>

\* The overview is there only if the LLM gave some of it.
Overview ==
  LET ov == ScrubAdvice(Said("overview"))
      bull == splitPoints(Said("bull"))
      bear == splitPoints(Said("bear"))
  IN  IF ov = <<>> /\ bull = {} /\ bear = {} THEN Absent
      ELSE [shown |-> TRUE, facts |-> {}, prose |-> ov, bull |-> bull, bear |-> bear,
            locked |-> FALSE]

factSheetHasProse(s) == \E k \in SectionKeys : s[k].prose # <<>>

\* What a viewer without Pro is shown: the overview without its two sides, the first section
\* with prose, and the rest locked.
FirstWithProse(s) ==
  {k \in Body : /\ s[k].prose # <<>>
                /\ \E i \in DOMAIN Order :
                     Order[i] = k /\ \A j \in 2..(i - 1) : s[Order[j]].prose = <<>>}
truncateDeepForFree(s) ==
  [k \in SectionKeys |->
     IF k = "overview" THEN [s[k] EXCEPT !.bull = {}, !.bear = {}]
     ELSE IF ~s[k].shown \/ k \in FirstWithProse(s) THEN s[k]
     ELSE Locked]

-----------------------------------------------------------------------------
(* The handlers. *)

SheetInit ==
  /\ filing \in Filings \cup {Unfiled}
  /\ \/ /\ holders \in Holdings
        /\ \E S \in Outages :
             \E x \in {y \in [S -> UNION {Gives[p] : p \in S}] : \A p \in S : y[p] \in Gives[p]} :
               answer = [p \in Providers |-> IF p \in S THEN x[p] ELSE Everything[p]]
     \/ filing = Unfiled /\ holders = <<>> /\ answer = [p \in Providers |-> {}]
  /\ warm = {}
  /\ stage = "idle" /\ path \in {"sync", "deep"} /\ coldRelative = FALSE
  /\ array = [i \in 1..2 |-> Nothing] /\ mine = 1
  /\ reply = <<>> /\ filled = 1
  /\ sent = Nothing /\ written = 0
  /\ cached = {}
  /\ served = [entitled |-> TRUE, page |-> {}]

\* A first scan lands; once the report is past its reads, that changes nothing in it.
Warm(r) ==
  /\ stage \in {"idle", "assemble", "market", "decide"}
  /\ r \in Relative \ warm
  /\ warm' = warm \cup {r}
  /\ UNCHANGED <<given, stage, coldRelative, array, composer, response, cached, served>>

\* Mutant: the sync path does not look.
AskWithoutLook ==
  /\ stage = "idle"
  /\ stage' = "assemble"
  /\ UNCHANGED <<given, warm, coldRelative, array, composer, response, cached, served>>

\* getResearchSync looks whether a source is cold before the sheet is assembled.
Ask ==
  /\ stage = "idle"
  /\ stage' = "assemble"
  /\ coldRelative' = (path = "sync" /\ relativeSourcesCold)
  /\ UNCHANGED <<given, warm, array, composer, response, cached, served>>

\* Report: first the company, then what the market says of it.
AssembleCompany ==
  /\ stage = "assemble"
  /\ array' = [array EXCEPT ![1] = companySections]
  /\ stage' = "market"
  /\ UNCHANGED <<given, warm, coldRelative, composer, response, cached, served>>

AssembleMarket ==
  LET s == WithMarket(array[1])
  IN  /\ stage = "market"
      /\ array' = [array EXCEPT ![1] = s]
      /\ stage' = IF Unknown(s) THEN "not found" ELSE IF path = "sync" THEN "compose" ELSE "decide"
      /\ UNCHANGED <<given, warm, coldRelative, composer, response, cached, served>>

\* Mutant: the composer writes into the array the response is made of.
DecideSharing ==
  /\ stage = "decide"
  /\ coldRelative' = relativeSourcesCold
  /\ written' = 1
  /\ stage' = IF coldRelative' THEN "done" ELSE "compose"
  /\ UNCHANGED <<given, warm, array, composer, sent, cached, served>>

\* getResearchDeep looks now, and starts no generation while a source is cold.  The composer in
\* the background gets a copy of the sections; the instant response is written from here on.
Decide ==
  /\ stage = "decide"
  /\ coldRelative' = relativeSourcesCold
  /\ written' = 1
  /\ IF coldRelative' THEN stage' = "done" /\ UNCHANGED <<array, mine>>
     ELSE stage' = "compose" /\ mine' = 2 /\ array' = [array EXCEPT ![2] = array[1]]
  /\ UNCHANGED <<given, warm, reply, filled, sent, cached, served>>

\* The next section of the instant response.
Marshal ==
  LET k == Order[written]
  IN  /\ written \in DOMAIN Order
      /\ sent' = [sent EXCEPT ![k] = array[1][k]]
      /\ written' = written + 1
      /\ UNCHANGED <<given, warm, stage, coldRelative, array, composer, cached, served>>

\* No slot of the budget, no LLM, an error, or nothing in its answer.
ComposeFails ==
  /\ stage = "compose"
  /\ stage' = "publish"
  /\ UNCHANGED <<given, warm, coldRelative, array, composer, response, cached, served>>

ComposeAnswers(r) ==
  /\ stage = "compose"
  /\ reply' = r
  /\ stage' = "fill"
  /\ UNCHANGED <<given, warm, coldRelative, array, mine, filled, response, cached, served>>

\* The prose of the next section, if it is in the sheet and in the answer; at last the overview
\* is put before them.
Fill ==
  LET k == Order[filled + 1]
      with == IF filled = Len(Order) THEN [array[mine] EXCEPT !["overview"] = Overview]
              ELSE IF array[mine][k].shown /\ k \in DOMAIN reply
              THEN [array[mine] EXCEPT ![k].prose = ScrubAdvice(reply[k])]
              ELSE array[mine]
  IN  /\ stage = "fill"
      /\ array' = [array EXCEPT ![mine] = with]
      /\ IF filled = Len(Order) THEN stage' = "publish" /\ UNCHANGED filled
         ELSE filled' = filled + 1 /\ UNCHANGED stage
      /\ UNCHANGED <<given, warm, coldRelative, mine, reply, response, cached, served>>

\* A sync report is kept unless a source was cold, a deep one if it has prose.
Publish ==
  /\ stage = "publish"
  /\ cached' = IF IF path = "sync" THEN coldRelative ELSE ~factSheetHasProse(array[mine]) THEN {}
               ELSE {array[mine]}
  /\ stage' = "done"
  /\ UNCHANGED <<given, warm, coldRelative, array, composer, response, served>>

View(page, entitled) == IF entitled \/ path = "sync" THEN page ELSE truncateDeepForFree(page)

\* Mutant: the sections are locked in the report that is kept.
ServeInPlace(entitled) ==
  \E page \in cached :
    /\ cached' = {View(page, entitled)}
    /\ served' = [entitled |-> entitled, page |-> cached']
    /\ UNCHANGED <<given, warm, stage, coldRelative, array, composer, response>>

\* serveDeepReady: the kept report is shown; a deep one in part unless the viewer is Pro, the
\* ticker is the demo or the paywall is off (entitled).
Serve(entitled) ==
  \E page \in cached :
    /\ served' = [entitled |-> entitled, page |-> {View(page, entitled)}]
    /\ UNCHANGED <<given, warm, stage, coldRelative, array, composer, response, cached>>

SheetNext ==
  \/ \E r \in Relative : Warm(r)
  \/ Ask \/ AssembleCompany \/ AssembleMarket \/ Decide \/ Marshal
  \/ ComposeFails \/ (\E r \in Replies : ComposeAnswers(r)) \/ Fill \/ Publish
  \/ \E entitled \in BOOLEAN : Serve(entitled)

SheetSpec == SheetInit /\ [][SheetNext]_sheetVars

-----------------------------------------------------------------------------
(* What must hold. *)

\* What a section and a sheet of sections consist of.
IsSection(x) ==
  /\ x = [shown |-> x.shown, facts |-> x.facts, prose |-> x.prose, bull |-> x.bull,
          bear |-> x.bear, locked |-> x.locked]
  /\ x.shown \in BOOLEAN /\ x.locked \in BOOLEAN
IsSheet(s) == s = [k \in SectionKeys |-> s[k]] /\ \A k \in SectionKeys : IsSection(s[k])

SheetTypeOK ==
  /\ filing \in Filings \cup {Unfiled} /\ holders \in Holdings \cup {<<>>}
  /\ \A p \in Providers : answer[p] \subseteq Everything[p]
  /\ warm \subseteq Relative
  /\ stage \in {"idle", "assemble", "market", "decide", "compose", "fill", "publish", "done",
                "not found"}
  /\ path \in {"sync", "deep"} /\ coldRelative \in BOOLEAN
  /\ mine \in 1..2 /\ filled \in 1..Len(Order) /\ written \in 0..(Len(Order) + 1)
  /\ array = [i \in 1..2 |-> array[i]]
  /\ served = [entitled |-> served.entitled, page |-> served.page] /\ served.entitled \in BOOLEAN
  /\ \A s \in {array[1], array[2], sent} \cup cached \cup served.page : IsSheet(s)

\* The pages a reader can get.
Pages == {sent} \cup cached \cup served.page

\* The instant response says nothing of the LLM's, however far the composer is.
InstantIsDataOnly == \A k \in SectionKeys : sent[k].prose = <<>>

\* No reader is advised, in no section and by no point of a side.
NobodyIsAdvised ==
  \A s \in Pages : \A k \in SectionKeys :
    /\ ~hasAdvice(s[k].prose)
    /\ "advice" \notin s[k].bull \cup s[k].bear

\* The facts a reader gets are those that were assembled, whatever the LLM answered, or none:
\* a section is locked, or not yet written.
FactsAreAssembled ==
  \A s \in Pages : \A k \in Body :
    /\ s[k].shown /\ ~s[k].locked => s[k].facts = array[1][k].facts /\ \E f \in s[k].facts : f.ok
    /\ s[k].locked \/ ~s[k].shown => s[k].facts = {} /\ s[k].prose = <<>>

\* A sync report that is kept lacks no ranking of a source that has one of the ticker.
KeptIsComplete ==
  \A page \in cached : path = "sync" =>
    \A p \in Relative : \A k \in answer[p] : Fact(k, 0) \in page["relative"].facts

\* A viewer without Pro sees one section of a deep report and no side; one with Pro all that
\* was composed, whoever looked before.
TeaserIsACopy ==
  /\ \A page \in cached : page = array[mine]
  /\ \A page \in served.page :
       IF served.entitled \/ path = "sync" THEN page = array[mine]
       ELSE /\ \A k, l \in Body : (page[k].facts # {} /\ page[l].facts # {}) => k = l
            /\ page["overview"].bull = {} /\ page["overview"].bear = {}

\* The P/E and the EPS beside it are of the same period; no trailing figure has the stamp of
\* the year if a quarter is known.
PEReconciles ==
  LET v == array[1]["valuation"].facts
      e == array[1]["fundamentals"].facts
  IN  \A x \in e :
        /\ x.key = "eps_diluted" => \A y \in v : y.key = "pe" => y.stamp = x.stamp
        /\ x.trailing /\ filing.quarter # 0 => x.stamp = filing.quarter

\* Only a company that filed is called loss-making, and only for a loss or for want of a price.
LossIsFiled ==
  \A x \in array[1]["valuation"].facts :
    x.loss => filing # Unfiled /\ ("pe" \notin filing.figures \/ answer.last = {})

\* The count of the holders is as old as the oldest of the periods it counts.
CountIsStale ==
  \A x \in array[1]["flows"].facts :
    x.key = "whales_count" => \A i \in DOMAIN holders : holders[i] # 0 => x.stamp <= holders[i]

\* The report says what was assembled, dated and whole, with no advice, to each what is his.
SheetIsSound ==
  /\ InstantIsDataOnly /\ NobodyIsAdvised /\ FactsAreAssembled /\ KeptIsComplete
  /\ TeaserIsACopy /\ PEReconciles /\ LossIsFiled /\ CountIsStale
=============================================================================
