-------------------------------- MODULE Pages --------------------------------
(***************************************************************************)
(* The pages of the ledger, the strategies, the agents and the backtest    *)
(* (app/trades, strategies, agents, simulate).  Only the page of the route *)
(* is mounted; what the requests of a page that was left bring is dropped. *)
(***************************************************************************)
EXTENDS Naturals, SequencesExt

CONSTANTS MaxLoads,    \* bound: requests of a page under way at a time
          Timelines,   \* what GET /agents/timeline may answer
          MarketStates \* what GET /market/state may answer

VARIABLES loading, inflight, data, answered

tabVars == <<loading, inflight, data, answered>>

Tabs == {"trades", "strategies", "agents", "simulate"}
Polled == {"strategies", "agents"}

(* What a page may get: 0 and 1 stand for no rows and some, a backtest is  *)
(* an error, a result without a curve, or one with a curve.                *)
Answer(tab) == CASE tab = "trades" -> {0, 1}
                 [] tab = "strategies" -> {<<m>> : m \in MarketStates}
                 [] tab = "agents" -> Timelines
                 [] tab = "simulate" -> {"error", "zero", "curve"}

NoData == [trades |-> 0, strategies |-> <<>>, agents |-> <<>>, simulate |-> "none"]

TabsBlank == loading = FALSE /\ inflight = 0 /\ data = NoData /\ answered = FALSE
TabsLeft == loading' = FALSE /\ inflight' = 0 /\ data' = NoData /\ answered' = FALSE

(* All but the backtest ask at once; answered: a request has succeeded.    *)
TabEntered(tab) == /\ loading' = (tab # "simulate") /\ data' = NoData /\ answered' = FALSE
                   /\ inflight' = IF tab = "simulate" THEN 0 ELSE 1

LoadDue(tab) == /\ tab \in Polled /\ inflight < MaxLoads /\ inflight' = inflight + 1
                /\ UNCHANGED <<loading, data, answered>>

Loaded(tab) == /\ inflight > 0 /\ inflight' = inflight - 1
               /\ \E d \in Answer(tab) : data' = [data EXCEPT ![tab] = d]
               /\ loading' = FALSE /\ answered' = TRUE

(* A bug to detect: an error ends the request and nothing else.            *)
LoadFailedSilently(tab) == /\ inflight > 0 /\ inflight' = inflight - 1
                           /\ UNCHANGED <<loading, data, answered>>

(* A bug to detect: an error takes away what the page had.                 *)
LoadFailedBlank(tab) == /\ inflight > 0 /\ inflight' = inflight - 1
                        /\ loading' = FALSE /\ data' = NoData /\ UNCHANGED answered

(* An error leaves the data of a page alone; a backtest shows it.          *)
LoadFailed(tab) == /\ inflight > 0 /\ inflight' = inflight - 1 /\ loading' = FALSE
                   /\ data' = IF tab = "simulate" THEN [data EXCEPT !.simulate = "error"]
                              ELSE data
                   /\ UNCHANGED answered

(* The button is disabled while a backtest runs; its old result stays.     *)
runBacktest == /\ ~loading /\ loading' = TRUE /\ inflight' = 1
               /\ UNCHANGED <<data, answered>>
-----------------------------------------------------------------------------
(* The decision graph: a row of nodes for each trade, an edge from each    *)
(* node to the next.  An event names its trade in one of three fields.     *)
tid(ev) == IF ev.trade_id # "" THEN ev.trade_id
           ELSE IF ev.id # "" THEN ev.id ELSE ev.tradeId

Named(tl) == {n \in DOMAIN tl : tid(tl[n]) # ""}
TradesOf(tl) == {tid(tl[n]) : n \in Named(tl)}

byTrade(tl, t) == FoldLeft(LAMBDA row, ev : IF tid(ev) = t THEN Append(row, ev) ELSE row,
                           <<>>, tl)

colorFor(type) ==
    CASE type = "trade.proposed" -> "signal"
      [] type \in {"trade.sized", "simulation.result"} -> "info"
      [] type = "trade.approved" -> "pos"
      [] type \in {"trade.failed", "trade.rejected"} -> "neg"
      [] type = "trade.executed" -> "#86efac"
      [] OTHER -> "line"

NoGraph == [nodes |-> <<>>, edges |-> <<>>, prev |-> <<>>]

(* A bug to detect: prevId outlives the row of its trade.                  *)
RowLinked(g, t, row) ==
    FoldLeft(LAMBDA h, j :
                [nodes |-> Append(h.nodes, [id |-> <<t, j>>, color |-> colorFor(row[j].type)]),
                 edges |-> IF h.prev = <<>> THEN h.edges
                           ELSE Append(h.edges, [source |-> h.prev, target |-> <<t, j>>]),
                 prev |-> <<t, j>>],
             g, [j \in DOMAIN row |-> j])

Row(g, t, row) ==
    FoldLeft(LAMBDA h, j :
                [nodes |-> Append(h.nodes, [id |-> <<t, j>>, color |-> colorFor(row[j].type)]),
                 edges |-> IF h.prev = <<>> THEN h.edges
                           ELSE Append(h.edges, [source |-> h.prev, target |-> <<t, j>>]),
                 prev |-> <<t, j>>],
             [g EXCEPT !.prev = <<>>], [j \in DOMAIN row |-> j])

DecisionGraph(tl) == FoldLeft(LAMBDA g, t : Row(g, t, byTrade(tl, t)),
                              NoGraph, SetToSeq(TradesOf(tl)))
-----------------------------------------------------------------------------
(* What a page shows.                                                      *)
TradesView == IF loading THEN "loading"
              ELSE IF data.trades = 0 THEN "No trades yet" ELSE "rows"

StrategiesView == IF loading THEN "loading"
                  ELSE IF data.strategies = <<>> THEN "API unreachable"
                  ELSE IF data.strategies[1].breaker = "TRIPPED" THEN "halted" ELSE "armed"

AgentsView == IF loading THEN "loading"
              ELSE IF DecisionGraph(data.agents).nodes = <<>> THEN "No agent events yet"
              ELSE "graph"

SimulateView == CASE data.simulate = "none" -> IF loading THEN "loading" ELSE "Click Run"
                  [] OTHER -> data.simulate

View(tab) == CASE tab = "trades" -> TradesView
               [] tab = "strategies" -> StrategiesView
               [] tab = "agents" -> AgentsView
               [] tab = "simulate" -> SimulateView

TabsTypeOK(tab) ==
    /\ loading \in BOOLEAN /\ inflight \in 0 .. MaxLoads /\ answered \in BOOLEAN
    /\ \A t \in Tabs : data[t] \in Answer(t) \cup {NoData[t]}
    /\ \A t \in Tabs \ {tab} : data[t] = NoData[t]
=============================================================================
