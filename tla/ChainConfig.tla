----------------------------- MODULE ChainConfig -----------------------------
(***************************************************************************)
(* packages/chain-config and the enumerations of packages/shared-types     *)
(* that the ingestion service and the dashboard use.  A token is its       *)
(* symbol, a pool the pair it trades and its type; addresses, decimals and *)
(* fees are left out.                                                      *)
(***************************************************************************)
EXTENDS Integers

Stables == {"USDT", "BUSD", "USDC"}
BSC_TOKENS == Stables \cup {"WBNB", "CAKE", "ETH", "BTCB"}

V2(s0, s1) == [poolType |-> 2, symbol0 |-> s0, symbol1 |-> s1]
V3(s0, s1) == [poolType |-> 3, symbol0 |-> s0, symbol1 |-> s1]

(* The static catalog, in its order.                                       *)
BSC_SEED_POOLS == << V2("WBNB", "USDT"), V2("WBNB", "BUSD"), V2("CAKE", "WBNB"),
                     V2("USDT", "BUSD"), V2("ETH", "WBNB"),
                     V3("WBNB", "USDT"), V3("CAKE", "WBNB") >>

SeedPool == {BSC_SEED_POOLS[i] : i \in DOMAIN BSC_SEED_POOLS}

ASSUME SymbolsKnown == \A p \in SeedPool : p.symbol0 \in BSC_TOKENS /\ p.symbol1 \in BSC_TOKENS

Regime == {"trending_up", "trending_down", "mean_reverting", "high_vol", "unknown"}

(* Two pools of one pair share its key.                                    *)
pairKey(p) == <<p.symbol0, p.symbol1>>
TokensOf(p) == {p.symbol0, p.symbol1}
=============================================================================
