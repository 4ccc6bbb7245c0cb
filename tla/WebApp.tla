------------------------------- MODULE WebApp -------------------------------
(***************************************************************************)
(* The web app: one page mounted at a time, the links of layout.tsx going  *)
(* from each to each, and the API and the desk behind it.                  *)
(***************************************************************************)
EXTENDS Dashboard, Pages

CONSTANTS Scenes   \* what is pushed, fails and is asked; bound: clicks on a link

Routes == Tabs \cup {"desk"}
Endpoints == {"summary", "market", "trades", "nl", "tab"}
PushKinds == {"proposal", "approved", "rejected", "fill", "summary", "circuit_breaker", "snapshot"}

ASSUME WebAssumption ==
    /\ {LogCap, MaxRefresh, MaxAsks, MaxLog} \subseteq Nat
    /\ {EquityCap, MaxLoads} \subseteq Nat \ {0} /\ "0" \in Pnls
    /\ Scenes \subseteq [pushed : SUBSET PushKinds, flaky : SUBSET Endpoints,
                         console : BOOLEAN, clicks : Nat]
    /\ Timelines \subseteq Seq([type : STRING, trade_id : STRING, id : STRING, tradeId : STRING])

VARIABLES route,   \* of the page that is mounted
          scene, clicks   \* the scene, which never changes; clicks left

appVars == <<route, scene, clicks>>
vars == <<appVars, apiVars, pageVars, consoleVars, feedVars, tabVars>>
deskPage == <<pageVars, consoleVars, feedVars>>

Init == /\ route = "none" /\ scene \in Scenes /\ clicks = scene.clicks
        /\ flaky = scene.flaky /\ desk = [pnl |-> "0", breaker |-> "ARMED"]
        /\ PageBlank /\ FeedInit /\ TabsBlank

(* A page is mounted with fresh state and asks at once.                    *)
Click(to) == /\ clicks > 0 /\ clicks' = clicks - 1 /\ route # to /\ route' = to
             /\ UNCHANGED <<scene, apiVars>>

OpenDesk == /\ Click("desk") /\ FeedMount /\ TabsLeft
            /\ chains' = [chains EXCEPT ![1] = Ask("summary")]
            /\ UNCHANGED <<summary, market, trades, equity, consoleVars>>

LeaveDesk(tab) == route = "desk" /\ Click(tab) /\ FeedUnmount /\ PageUnmount /\ TabEntered(tab)

OpenTab(tab) == route # "desk" /\ Click(tab) /\ TabEntered(tab) /\ UNCHANGED deskPage

-----------------------------------------------------------------------------
(* A push reaches the page over an open socket; otherwise it is lost.      *)
Push(ev) == /\ ev.kind \in scene.pushed
            /\ IF connected THEN LiveEvent(ev) ELSE UNCHANGED deskPage
            /\ UNCHANGED <<appVars, flaky, tabVars>>

Trip == /\ desk.breaker # "TRIPPED" /\ desk' = [desk EXCEPT !.breaker = "TRIPPED"]
        /\ Push(UIEvent("circuit_breaker", "TRIPPED"))

Recover == /\ desk.breaker = "TRIPPED" /\ desk' = [desk EXCEPT !.breaker = "COOLDOWN"]
           /\ Push(UIEvent("circuit_breaker", "COOLDOWN"))

FillTold == \E s \in {"executed", "failed"} : Push(UIEvent("fill", s)) /\ UNCHANGED desk

(* The ledger has booked a fill and its new summary is pushed.             *)
Booked == \E p \in Pnls \ {desk.pnl} : /\ desk' = [desk EXCEPT !.pnl = p]
                                       /\ Push(UIEvent("summary", p))

(* The snapshot, which the API sends on a new socket, is one event more.   *)
PipelineStep == \E k \in {"proposal", "approved", "rejected", "snapshot"} :
                   Push(UIEvent(k, "")) /\ UNCHANGED desk

SocketStep(m) == Socket(m) /\ UNCHANGED <<appVars, apiVars, pageVars, consoleVars, tabVars>>
ReconnectDue(m) == Reconnect(m) /\ UNCHANGED <<appVars, apiVars, pageVars, consoleVars, tabVars>>

PageRefreshDue == route = "desk" /\ RefreshDue /\ UNCHANGED <<appVars, tabVars>>
PageRefreshed(r) == /\ RefreshAnswered(r) \/ RefreshFailed(r)
                    /\ UNCHANGED <<appVars, tabVars>>

ConsoleAsked == route = "desk" /\ scene.console /\ ask /\ UNCHANGED <<appVars, tabVars>>
ConsoleTold == (askAnswered \/ askFailed) /\ UNCHANGED <<appVars, tabVars>>

TabLoadDue == LoadDue(route) /\ UNCHANGED <<appVars, apiVars, deskPage>>
TabLoaded == /\ Loaded(route) \/ ("tab" \in flaky /\ LoadFailed(route))
             /\ UNCHANGED <<appVars, apiVars, deskPage>>
BacktestRun == route = "simulate" /\ runBacktest /\ UNCHANGED <<appVars, apiVars, deskPage>>

Next == \/ OpenDesk \/ \E tab \in Tabs : LeaveDesk(tab) \/ OpenTab(tab)
        \/ Trip \/ Recover \/ FillTold \/ Booked \/ PipelineStep
        \/ \E m \in 1 .. Mounts : SocketStep(m) \/ ReconnectDue(m)
        \/ PageRefreshDue \/ \E r \in Refreshes : PageRefreshed(r)
        \/ ConsoleAsked \/ ConsoleTold
        \/ TabLoadDue \/ TabLoaded \/ BacktestRun

Spec == Init /\ [][Next]_vars

(* Timers run off, a socket that is neither open nor closed becomes one of *)
(* the two, and every request ends with an answer or an error.             *)
FairSpec == /\ Spec
            /\ \A m \in 1 .. Mounts :
                  /\ WF_vars(ReconnectDue(m))
                  /\ WF_vars(link[m] # "open" /\ SocketStep(m))
            /\ WF_vars(PageRefreshDue) /\ \A r \in Refreshes : WF_vars(PageRefreshed(r))
            /\ WF_vars(ConsoleTold) /\ WF_vars(TabLoaded)

-----------------------------------------------------------------------------
(* Every variable has its type; a page that is not mounted has no state.   *)
WebTypeOK ==
    /\ DashboardTypeOK /\ TabsTypeOK(route)
    /\ route \in Routes \cup {"none"} /\ scene \in Scenes /\ clicks \in 0 .. scene.clicks
    /\ (route = "desk") <=> (mount > 0 /\ ~stop[mount])
    /\ route # "desk" => summary = <<>> /\ events = <<>> /\ log = <<>>

(* ws.ts:17,26: the cleanup does not cancel a reconnect that is due, so    *)
(* the page that was left can open a socket, but never a second one.       *)
AtMostOneLeak == \A m \in 1 .. Mounts : late[m] <= 1

(* ws.ts:17: as long as the desk is shown its feed never gives up.         *)
FeedKeepsTrying == []<>(route = "desk" => link[mount] \in {"connecting", "open"})

(* page.tsx:24-31, 45: the trip is not taken from the push but from a poll,*)
(* whose answers overlap.  With the summary and the market answered, the   *)
(* desk of a tripped breaker ends up with the banner, whatever else fails. *)
BannerFollowsTrip ==
    <>[](route = "desk" /\ desk.breaker = "TRIPPED" /\ flaky \cap {"summary", "market"} = {})
       => <>[]CircuitBreakerBanner(breaker)

(* page.tsx:34-39: every event shows the newest pushed summary again, over *)
(* a newer one that was polled.  The figure of a ledger that no longer     *)
(* changes nevertheless comes back as long as the desk is shown.           *)
FiguresCatchUp ==
    \A p \in Pnls :
       <>[](route = "desk" /\ desk.pnl = p /\ "summary" \notin flaky) => []<>(summary = <<p>>)

(* page.tsx:41-43: the curve ends at the figure shown, has a point for     *)
(* each change of it, and its indices rise until the curve is full.        *)
EquityCurve ==
    /\ Len(equity) <= EquityCap
    /\ (equity = <<>>) <=> (summary = <<>>)
    /\ equity # <<>> => equity[Len(equity)].equity = summary[1]
    /\ \A n \in 1 .. Len(equity) - 1 :
          /\ equity[n].equity # equity[n + 1].equity
          /\ equity[n + 1].i = equity[n].i + 1 \/ equity[n + 1].i = EquityCap

(* NlConsole.tsx:9-18: questions overlap, and the button is disabled only  *)
(* while one of them is unanswered.                                        *)
BusyMeansAsking == busy => asking > 0

(* trades, strategies, agents, simulate: no page loads for ever.           *)
LoadingEnds == []<>(route \in Tabs => View(route) # "loading")

(* strategies/page.tsx:12-14, 26-28: overlapping polls of which some fail  *)
(* never make a page that has had an answer say that the API is not there, *)
(* and the placeholder of the backtest never comes back.                   *)
UnreachableTold == answered => View(route) \notin {"API unreachable", "Click Run"}

(* agents/page.tsx:52-90: each event that names a trade has a node of its  *)
(* own in its colour, and the edges go from each to the next one of the    *)
(* same trade, whatever events of other trades came between.               *)
Rank(tl, n) == Cardinality({k \in Named(tl) : k <= n /\ tid(tl[k]) = tid(tl[n])})
NodeId(tl, n) == <<tid(tl[n]), Rank(tl, n)>>
Follows(tl, n, k) == /\ n < k /\ tid(tl[n]) = tid(tl[k])
                     /\ Rank(tl, k) = Rank(tl, n) + 1

TimelineGraph ==
    LET tl == data.agents
        g == DecisionGraph(tl)
        at == Named(tl)
    IN /\ Len(g.nodes) = Cardinality(at)
       /\ ToSet(g.nodes) = {[id |-> NodeId(tl, n), color |-> colorFor(tl[n].type)] : n \in at}
       /\ ToSet(g.edges) = {[source |-> NodeId(tl, e[1]), target |-> NodeId(tl, e[2])] :
                               e \in {x \in at \X at : Follows(tl, x[1], x[2])}}
=============================================================================
