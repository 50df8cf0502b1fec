----------------------------- MODULE ChatTools ------------------------------
(***************************************************************************)
(* The tool loop of a chat turn (internal/chat: Answer and AnswerStream,   *)
(* which run the same loop).  The LLM may call tools in each of a bounded  *)
(* number of rounds, in any way it likes; what it says never is trusted to *)
(* keep the rules of what may be shown.  The symbol directory, which flags *)
(* funds, may be loaded or refreshed while the turn runs.                  *)
(***************************************************************************)
EXTENDS Naturals, Sequences, FiniteSets, SequencesExt

CONSTANTS
  Tickers,   \* those the LLM may name
  Funds,     \* the ETFs among them
  SecListed, \* those of the ETFs that the SEC's list has too, which flags none
  MaxIters,  \* maxToolIters
  MaxToolCalls \* bound: tool calls of a turn

BoundsAssumption == MaxIters \in Nat /\ MaxToolCalls \in Nat

Charts == {"kline", "indicators"}
Tables == {"fundamentals_table", "valuation_table", "scorecard"}
PortfolioWidgets == {"holdings"}
Types == Charts \cup Tables \cup PortfolioWidgets
\* topicalRank: the section of the higher rank decides the card.
Sections == <<"relative", "technical", "fundamentals", "valuation">>
CardOf == <<"scorecard", "kline", "fundamentals_table", "valuation_table">>

VARIABLES
  loop,        \* llm, tools or done
  iter,        \* rounds of tools so far
  allowed,     \* the plan lets the chat read the user's own data
  flagged,     \* the funds that the symbol directory flags as such
  widgets,     \* turnState.Widgets
  topical,     \* turnState.Topical: rank of the best section read, by ticker
  toolCalls,
  known,       \* history: those it has flagged ever since the turn began
  shipped      \* the widgets of the answer

toolVars == <<loop, iter, allowed, flagged, widgets, topical, toolCalls, known, shipped>>

ToolsInit ==
  /\ loop = "llm" /\ iter = 0 /\ toolCalls = 0
  /\ allowed \in BOOLEAN
  /\ flagged \in {{}, Funds, Funds \ SecListed} /\ known = flagged
  /\ widgets = <<>> /\ topical = [t \in Tickers |-> 0] /\ shipped = <<>>

Widget(type, t) == [type |-> type, ticker |-> t]

\* describeTicker: a fund, as far as is known.
KnownFund(t) == t \in flagged

\* SymbolIngestor.refresh: only Nasdaq Trader's list has the flag.  Without it
\* the entries the SEC lacks are carried over, and those it has are built anew.
RefreshDirectory ==
  /\ loop # "done"
  /\ flagged' \in {Funds, flagged \ SecListed}
  /\ known' = known \cap flagged'
  /\ UNCHANGED <<loop, iter, allowed, widgets, topical, toolCalls, shipped>>

\* The LLM answers with tool calls, for which it is given tools only so often.
CallTools ==
  /\ loop = "llm" /\ iter < MaxIters
  /\ loop' = "tools" /\ iter' = iter + 1
  /\ UNCHANGED <<allowed, flagged, widgets, topical, toolCalls, known, shipped>>

\* execTool: a section of facts that the ticker's sheet has.
ReadFacts(t, rank) ==
  /\ loop = "tools" /\ toolCalls < MaxToolCalls /\ toolCalls' = toolCalls + 1
  /\ topical' = [topical EXCEPT ![t] = IF rank > @ THEN rank ELSE @]
  /\ UNCHANGED <<loop, iter, allowed, flagged, widgets, known, shipped>>

\* execTool refuses a portfolio widget without the access, and a table for a
\* fund, and tells the LLM so.
MayRender(type, t) ==
  /\ type \in PortfolioWidgets => allowed
  /\ type \in Tables => ~KnownFund(t)

SurfaceWidget(type, t) ==
  /\ loop = "tools" /\ toolCalls < MaxToolCalls /\ toolCalls' = toolCalls + 1
  /\ widgets' = IF MayRender(type, t) THEN Append(widgets, Widget(type, t)) ELSE widgets
  /\ UNCHANGED <<loop, iter, allowed, flagged, topical, known, shipped>>

EndRound ==
  /\ loop = "tools" /\ loop' = "llm"
  /\ UNCHANGED <<iter, allowed, flagged, widgets, topical, toolCalls, known, shipped>>

-----------------------------------------------------------------------------
(* finish *)

\* Mutant: each type renders as itself.
RenderKeyByType(w) == w

\* Two tables render the same card; a portfolio widget has no ticker.
RenderKey(w) ==
  IF w.type \in {"fundamentals_table", "valuation_table"}
  THEN Widget("fundamentals_family", w.ticker)
  ELSE IF w.type \in PortfolioWidgets THEN Widget(w.type, "") ELSE w

\* dedupeWidgets: no chart beside something specific, and the first of those
\* that look the same.
Dedupe(ws) ==
  LET specific == \E i \in DOMAIN ws : ws[i].type \notin Charts
      keep == {i \in DOMAIN ws :
                 /\ specific => ws[i].type \notin Charts
                 /\ \A j \in 1..(i - 1) : RenderKey(ws[j]) # RenderKey(ws[i])}
  IN  [n \in 1..Cardinality(keep) |->
         ws[CHOOSE i \in keep : Cardinality({j \in keep : j <= i}) = n]]

\* backstopWidget: the card of the only ticker whose facts were read, a chart or
\* a table that a fund must not get.
BackstopWidget ==
  LET read == {t \in Tickers : topical[t] # 0}
      card(t) == CardOf[topical[t]]
  IN  {Widget(card(t), t) : t \in {u \in read : Cardinality(read) = 1 /\ MayRender(card(u), u)}}

\* The LLM answers in prose, of its own accord or because it has no tools left;
\* an empty answer becomes a note that no card goes with.
Finish ==
  /\ loop = "llm" /\ loop' = "done"
  /\ \E prose \in BOOLEAN :
       shipped' = IF widgets # <<>> THEN Dedupe(widgets)
                  ELSE IF prose THEN SetToSeq(BackstopWidget) ELSE <<>>
  /\ UNCHANGED <<iter, allowed, flagged, widgets, topical, toolCalls, known>>

ToolsNext ==
  \/ RefreshDirectory \/ CallTools \/ EndRound \/ Finish
  \/ \E t \in Tickers :
       \/ \E rank \in DOMAIN Sections : ReadFacts(t, rank)
       \/ \E type \in Types : SurfaceWidget(type, t)

ToolsSpec == ToolsInit /\ [][ToolsNext]_toolVars

-----------------------------------------------------------------------------
(* Properties. *)

ToolsTypeOK ==
  /\ loop \in {"llm", "tools", "done"} /\ iter \in 0..MaxIters /\ toolCalls \in 0..MaxToolCalls
  /\ allowed \in BOOLEAN /\ known \subseteq flagged /\ flagged \subseteq Funds
  /\ topical \in [Tickers -> 0..Len(Sections)]
  /\ widgets \in Seq([type : Types, ticker : Tickers])
  /\ shipped \in Seq([type : Types, ticker : Tickers])

Shown == {shipped[i] : i \in DOMAIN shipped}
SameCard(v, w) ==
  \/ v.type = w.type /\ (v.ticker = w.ticker \/ v.type \in PortfolioWidgets)
  \/ {v.type, w.type} = {"fundamentals_table", "valuation_table"} /\ v.ticker = w.ticker

\* Whatever tools the LLM calls, the answer shows no card twice, the user's own
\* data only with the access to it, no company table for a fund that the
\* directory flagged all along, and leaves out nothing the LLM surfaced but
\* repeats and the charts beside something more specific.
AnswerIsSound ==
  loop = "done" =>
    /\ \A i, j \in DOMAIN shipped : SameCard(shipped[i], shipped[j]) => i = j
    /\ \A w \in Shown : w.type \in PortfolioWidgets => allowed
    /\ \A w \in Shown : w.type \in Tables => w.ticker \notin known
    /\ \A i \in DOMAIN widgets :
         \/ \E w \in Shown : SameCard(widgets[i], w)
         \/ widgets[i].type \in Charts /\ \E w \in Shown : w.type \notin Charts
=============================================================================
