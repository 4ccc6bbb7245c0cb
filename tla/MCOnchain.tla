------------------------------ MODULE MCOnchain ------------------------------
(***************************************************************************)
(* The on-chain executor with a cycle and a directional trade,             *)
(* and one trip of the breaker.                                            *)
(***************************************************************************)
EXTENDS OnchainExecutor

CONSTANTS c1, d1, p1

OneCycle == {c1}
CycleAndDirectional == {c1, d1}
OnlyDirectional == {d1}
OneTrip == {p1}

Testnet == [mode |-> "testnet", keys |-> TRUE, override |-> FALSE]
OnTestnet == {Testnet}
AnyConfig == {Testnet,
              [mode |-> "paper", keys |-> FALSE, override |-> FALSE],
              [mode |-> "live", keys |-> TRUE, override |-> FALSE],
              [mode |-> "live", keys |-> TRUE, override |-> TRUE]}
=============================================================================
