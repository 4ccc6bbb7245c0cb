----------------------------- MODULE MarketGraph -----------------------------
(***************************************************************************)
(* The market state in Redis: the hashes of marketGraph.ts and redis.ts    *)
(* and the stream events:market of publisher.ts.  A price or a reserve is  *)
(* the height of the chain it was read at.  What no other part of the      *)
(* model reads is left out: the hashes of gas and CEX prices and of source *)
(* health, and the events that are no regime changes.                      *)
(***************************************************************************)
EXTENDS ChainConfig, Sequences

CONSTANTS Pools,  \* tracked pools
          Lag     \* blocks an RPC node may be behind another one

Pairs == {pairKey(p) : p \in Pools}
Absent == "absent"
Paper == -1       \* reserves the paper executor has computed

ASSUME GraphAssumption == Pools \subseteq SeedPool /\ Pools # {} /\ Lag \in Nat

VARIABLES pools,    \* the hashes mkt:pool there are
          pairs,    \* the regime in each mkt:pair
          bnbUsd,   \* mkt:oracle has the price of BNB
          catalog,  \* what the entries of mkt:pools:catalog come from
          changes   \* regime changes in events:market, with the run of the service

graphVars == <<pools, pairs, bnbUsd, catalog, changes>>

GraphInit == /\ pools = <<>>
             /\ pairs = [k \in Pairs |-> Absent]
             /\ bnbUsd = FALSE /\ catalog = Absent /\ changes = <<>>

PoolState == [blockNumber : Nat, midPrice : Nat, reserves : Nat \cup {Paper}]
PairState == Regime
CatalogSource == {"seed", "subgraph"}
RegimeChange == [pair : Pairs, from : Regime, to : Regime, run : Nat]

GraphTypeOK == /\ DOMAIN pools \subseteq Pools
               /\ \A p \in DOMAIN pools : pools[p] \in PoolState
               /\ pairs \in [Pairs -> PairState \cup {Absent}]
               /\ bnbUsd \in BOOLEAN
               /\ catalog \in CatalogSource \cup {Absent}
               /\ changes \in Seq(RegimeChange)

Put(p, h) == pools' = [q \in DOMAIN pools \cup {p} |-> IF q = p THEN h ELSE pools[q]]

(* writePool of values read at height d for block b: one HSET of all the   *)
(* fields.  The mutant does not write the reserves of a pool it knows.     *)
writePoolPartly(p, b, d) ==
    Put(p, [blockNumber |-> b, midPrice |-> d,
            reserves |-> IF p \in DOMAIN pools THEN pools[p].reserves ELSE d])

writePool(p, b, d) == Put(p, [blockNumber |-> b, midPrice |-> d, reserves |-> d])

writePair(k, regime) == pairs' = [pairs EXCEPT ![k] = regime]

(* estimateUsd and the oracle check read the price of a pair.              *)
Priced(k) == k \in Pairs /\ pairs[k] # Absent

(* executor_paper.py writes the reserves after a simulated trade and       *)
(* nothing else.                                                           *)
PaperTrade(p) == /\ p \in DOMAIN pools
                 /\ pools' = [pools EXCEPT ![p].reserves = Paper]
                 /\ UNCHANGED <<pairs, bnbUsd, catalog, changes>>
=============================================================================
