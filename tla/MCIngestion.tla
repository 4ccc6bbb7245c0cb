---------------------------- MODULE MCIngestion ----------------------------
(***************************************************************************)
(* The ingestion service with one V2 and one V3 pool of the catalog.       *)
(***************************************************************************)
EXTENDS MarketIngestion

TwoPools == {V2("WBNB", "USDT"), V3("CAKE", "WBNB")}

(* A rise, a wild market and nothing in particular: the four verdicts      *)
(* differ in name only.                                                    *)
ThreeSignals == {[annVol |-> "calm", vr |-> "above", slope |-> "up"],
                 [annVol |-> "high", vr |-> "between", slope |-> "flat"],
                 [annVol |-> "calm", vr |-> "between", slope |-> "flat"]}

Polling == [ws |-> FALSE, subgraph |-> TRUE, db |-> FALSE]
Streaming == [ws |-> TRUE, subgraph |-> FALSE, db |-> TRUE]
PollingOrStreaming == {Polling, Streaming}

(* Three events; refreshes of two blocks; a timer with either.             *)
Load(e, b, t) == [event |-> e, block |-> b, timer |-> t]
OneTimer == {Load(0, 1, 1)}
SomeLoads == {Load(3, 0, 0), Load(0, 2, 0), Load(0, 1, 1), Load(1, 0, 1)}
=============================================================================
