-------------------------------- MODULE MCWeb --------------------------------
(***************************************************************************)
(* The web app with figures of two values, in five scenes: fills and their *)
(* summaries over slow polls, trips with a trade log that fails, the steps *)
(* of the pipeline, the console, and a walk through the pages.             *)
(***************************************************************************)
EXTENDS WebApp

TwoFigures == {"0", "1"}
TwoRegimes == {"high_vol", "sideways"}

Scene(p, f, c, n) == [pushed |-> p, flaky |-> f, console |-> c, clicks |-> n]

SomeScenes == {Scene({"fill", "summary"}, {}, FALSE, 1),
               Scene({"circuit_breaker"}, {"trades"}, FALSE, 1),
               Scene({"proposal", "approved", "rejected", "fill", "snapshot"}, {"summary"},
                     FALSE, 1),
               Scene({}, {"nl"}, TRUE, 1),
               Scene({}, {"tab", "market"}, FALSE, 4)}

(* Which field of an event names its trade depends on its type; an         *)
(* approval names none.                                                    *)
Event(type, t) == [type |-> type,
                   trade_id |-> IF type = "agent.decision" THEN t ELSE "",
                   id |-> IF type = "trade.proposed" THEN t ELSE "",
                   tradeId |-> IF type = "trade.executed" THEN t ELSE ""]
SomeEvents == {Event("agent.decision", "a"), Event("trade.proposed", "a"),
               Event("trade.executed", "b"), Event("trade.approved", "b")}
ShortTimelines == {<<>>} \cup [1 .. 3 -> SomeEvents]

BothStates == [breaker : {"ARMED", "TRIPPED"}]
=============================================================================
