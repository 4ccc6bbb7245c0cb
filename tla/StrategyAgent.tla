--------------------------- MODULE StrategyAgent ----------------------------
(***************************************************************************)
(* The scan loop of agents/strategy/agent.py as the trade lifecycle sees   *)
(* it: read the breaker, scan, publish what was found.  Which              *)
(* opportunities a scan finds is left open: any fresh trade id may be      *)
(* proposed, any number per scan.  A scan when no id is left would change   *)
(* nothing and is not a step (the bound of the model on proposals).        *)
(***************************************************************************)
EXTENDS RedisBus, CircuitBreaker

VARIABLE scan   \* "check" before the breaker is read, "scan" after

ScanInit == scan = "check"

ScanTypeOK == scan \in {"check", "scan"}

(* run() skips the scan only when the hash says TRIPPED.                   *)
StartScan == /\ scan = "check"
             /\ ~Tripped
             /\ \E t \in Trades : ~InStream("trade.proposed", t)
             /\ scan' = "scan"
             /\ UNCHANGED redisVars

Propose == /\ scan = "scan"
           /\ \E t \in Trades : /\ ~InStream("trade.proposed", t)
                                /\ Publish("trade.proposed", t, "agents")
           /\ UNCHANGED <<scan, positions>>

(* The scan is over, or raised and was swallowed.                          *)
EndScan == /\ scan = "scan"
           /\ scan' = "check"
           /\ UNCHANGED redisVars

StrategyStep == StartScan \/ Propose \/ EndScan
=============================================================================
