------------------------------ MODULE Dashboard ------------------------------
(***************************************************************************)
(* The desk page (app/page.tsx) with its console, badge and banner.        *)
(* A refresh is three requests one after the other; refreshes overlap.     *)
(* React renders, and runs the effects, after every event and answer.      *)
(***************************************************************************)
EXTENDS LiveFeed

CONSTANTS EquityCap,   \* points the curve keeps
          LogCap,      \* questions the console keeps after an answer
          MaxRefresh, MaxAsks, MaxLog,   \* bounds: under way at a time; lines
          Pnls, Regimes   \* the figures and the regimes the API may report

VARIABLES flaky,     \* the endpoints that may fail; never changes
          desk,      \* what the API would answer: pnl and breaker
          summary, market, trades, equity,   \* of the page; <<>> is null
          chains,    \* the refreshes under way
          asking, busy, log   \* of the console

apiVars == <<flaky, desk>>
pageVars == <<summary, market, trades, equity, chains>>
consoleVars == <<asking, busy, log>>

Refreshes == 1 .. MaxRefresh
UIEvent(kind, data) == [kind |-> kind, data |-> data]
Breakers == {"ARMED", "TRIPPED", "COOLDOWN"}

PageBlank == /\ summary = <<>> /\ market = <<>> /\ trades = 0 /\ equity = <<>>
             /\ chains = [r \in Refreshes |-> <<>>]
             /\ asking = 0 /\ busy = FALSE /\ log = <<>>

PageUnmount == /\ summary' = <<>> /\ market' = <<>> /\ trades' = 0 /\ equity' = <<>>
               /\ chains' = [r \in Refreshes |-> <<>>]
               /\ asking' = 0 /\ busy' = FALSE /\ log' = <<>>

(* A request is answered with what held when it was sent or with what      *)
(* holds now.                                                              *)
Ask(request) == CASE request = "summary" -> <<"summary", desk.pnl>>
                  [] request = "market" -> <<"market", desk.breaker>>
                  [] request = "trades" -> <<"trades", "">>

(* A bug to detect: the trade log is asked for before the market.          *)
AfterTradesFirst(request) == CASE request = "summary" -> Ask("trades")
                               [] request = "trades" -> Ask("market")
                               [] request = "market" -> <<>>

After(request) == CASE request = "summary" -> Ask("market")
                    [] request = "market" -> Ask("trades")
                    [] request = "trades" -> <<>>

refresh(r) == /\ chains[r] = <<>> /\ \A q \in 1 .. r - 1 : chains[q] # <<>>
              /\ chains' = [chains EXCEPT ![r] = Ask("summary")]

(* A bug to detect: the cut keeps the oldest points.                       *)
PlotOldest(pnl) == IF Len(equity) = EquityCap THEN equity
                   ELSE Append(equity, [i |-> Len(equity), equity |-> pnl])

(* A new point has the length before the cut as its index.                 *)
Plot(pnl) == LET e == Append(equity, [i |-> Len(equity), equity |-> pnl])
             IN SubSeq(e, IF Len(e) > EquityCap THEN 2 ELSE 1, Len(e))

(* A bug to detect: a figure once shown is not replaced.                   *)
setSummaryOnce(pnl) == /\ summary' = IF summary = <<>> THEN <<pnl>> ELSE summary
                       /\ equity' = IF summary = <<>> THEN Plot(pnl) ELSE equity

setSummary(pnl) == /\ summary' = <<pnl>>
                   /\ equity' = IF summary = <<pnl>> THEN equity ELSE Plot(pnl)

RefreshDue == /\ \E r \in Refreshes : refresh(r)
              /\ UNCHANGED <<apiVars, summary, market, trades, equity, consoleVars, feedVars>>

RefreshAnswered(r) ==
    /\ chains[r] # <<>>
    /\ LET request == chains[r][1]
           sent == chains[r][2]
       IN /\ chains' = [chains EXCEPT ![r] = After(request)]
          /\ \/ /\ request = "summary"
                /\ \E pnl \in {sent, desk.pnl} : setSummary(pnl)
                /\ UNCHANGED <<market, trades>>
             \/ /\ request = "market"
                /\ \E b \in {sent, desk.breaker}, g \in Regimes :
                      market' = <<[breaker |-> b, regime |-> g]>>
                /\ UNCHANGED <<summary, equity, trades>>
             \/ /\ request = "trades" /\ trades' \in {0, 1}
                /\ UNCHANGED <<summary, equity, market>>
    /\ UNCHANGED <<apiVars, consoleVars, feedVars>>

(* The rest of the refresh is given up.                                    *)
RefreshFailed(r) == /\ chains[r] # <<>> /\ chains[r][1] \in flaky
                    /\ chains' = [chains EXCEPT ![r] = <<>>]
                    /\ UNCHANGED <<apiVars, summary, market, trades, equity, consoleVars, feedVars>>

(* The newest event of some kinds, in a log with the newest event first.   *)
Latest(kinds, l) == LET at == {n \in DOMAIN l : l[n].kind \in kinds}
                    IN IF at = {} THEN <<>> ELSE <<l[Min(at)]>>

Newest(kind, l) == LET s == Latest({kind}, l)
                   IN IF s = <<>> THEN <<>> ELSE <<s[1].data>>

(* Every event, whatever its kind, has a refresh made if a fill is in the  *)
(* log and the newest summary of the log shown.                            *)
LiveEvent(ev) ==
    /\ onmessage(ev)
    /\ IF Newest("fill", Logged(ev)) # <<>> THEN \E r \in Refreshes : refresh(r)
       ELSE UNCHANGED chains
    /\ LET sum == Newest("summary", Logged(ev))
       IN IF sum # <<>> THEN setSummary(sum[1]) ELSE UNCHANGED <<summary, equity>>
    /\ UNCHANGED <<market, trades, consoleVars>>
-----------------------------------------------------------------------------
(* The console: Enter asks while an answer is pending, the button does not.*)
ask == /\ asking < MaxAsks /\ asking' = asking + 1 /\ busy' = TRUE
       /\ UNCHANGED <<log, apiVars, pageVars, feedVars>>

askAnswered == /\ asking > 0 /\ asking' = asking - 1 /\ busy' = FALSE
               /\ log' = SubSeq(<<"answer">> \o log, 1,
                                IF Len(log) < LogCap THEN Len(log) + 1 ELSE LogCap)
               /\ UNCHANGED <<apiVars, pageVars, feedVars>>

(* A bug to detect: the handler of the error leaves the button disabled.   *)
askFailedBusy == /\ asking > 0 /\ "nl" \in flaky /\ Len(log) < MaxLog
                 /\ asking' = asking - 1
                 /\ log' = <<"API unreachable.">> \o log
                 /\ UNCHANGED <<busy, apiVars, pageVars, feedVars>>

askFailed == /\ asking > 0 /\ "nl" \in flaky /\ Len(log) < MaxLog
             /\ asking' = asking - 1 /\ busy' = FALSE
             /\ log' = <<"API unreachable.">> \o log
             /\ UNCHANGED <<apiVars, pageVars, feedVars>>
-----------------------------------------------------------------------------
(* What the page shows.                                                    *)
breaker == IF market = <<>> THEN "ARMED" ELSE market[1].breaker
regime == IF market = <<>> THEN "unknown" ELSE market[1].regime

CircuitBreakerBanner(state) == state = "TRIPPED"

RegimeLabels == [trending_up |-> "TRENDING UP", trending_down |-> "TRENDING DOWN",
                 mean_reverting |-> "MEAN-REVERTING", high_vol |-> "HIGH VOLATILITY",
                 unknown |-> "WARMING UP"]
RegimeBadge(r) == RegimeLabels[IF r \in DOMAIN RegimeLabels THEN r ELSE "unknown"]

TradeLog == IF trades = 0 THEN "No trades yet" ELSE "rows"

(* What is pushed: of a fill its status, of a summary its figure.          *)
Pushed == [kind : {"fill"}, data : {"executed", "failed"}]
          \cup [kind : {"summary"}, data : Pnls]
          \cup [kind : {"circuit_breaker"}, data : {"TRIPPED", "COOLDOWN"}]
          \cup [kind : {"proposal", "approved", "rejected", "snapshot"}, data : {""}]

Requests == {<<"summary", p>> : p \in Pnls} \cup {<<"market", b>> : b \in Breakers}
            \cup {<<"trades", "">>}

DashboardTypeOK ==
    /\ FeedTypeOK /\ events \in Seq(Pushed)
    /\ desk \in [pnl : Pnls, breaker : Breakers]
    /\ summary \in {<<>>} \cup {<<p>> : p \in Pnls}
    /\ market \in {<<>>} \cup {<<m>> : m \in [breaker : Breakers, regime : Regimes]}
    /\ RegimeBadge(regime) \in {RegimeLabels[r] : r \in DOMAIN RegimeLabels}
    /\ trades \in {0, 1} /\ TradeLog \in {"No trades yet", "rows"}
    /\ equity \in Seq([i : Nat, equity : Pnls])
    /\ chains \in [Refreshes -> {<<>>} \cup Requests]
    /\ asking \in 0 .. MaxAsks /\ busy \in BOOLEAN
    /\ log \in Seq({"answer", "API unreachable."}) /\ Len(log) <= MaxLog + LogCap
=============================================================================
