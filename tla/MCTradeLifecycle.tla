-------------------------- MODULE MCTradeLifecycle --------------------------
(***************************************************************************)
(* The trade lifecycle on small sets of trades: c1 and c2 are arbitrage    *)
(* cycles, d1 is a directional trade.                                      *)
(***************************************************************************)
EXTENDS TradeLifecycle

CONSTANTS c1, c2, d1

OneOfEach == {c1, d1}
TwoCycles == {c1, c2}
DirectionalOnly == {d1}
NoDirectional == {}
=============================================================================
