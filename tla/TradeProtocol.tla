--------------------------- MODULE TradeProtocol ----------------------------
(***************************************************************************)
(* What the trade lifecycle promises to someone who reads events:trade,    *)
(* whoever publishes: the topology of the header of graph.py,              *)
(*                                                                         *)
(*   proposed -> [gate] -> sized -> [dry run] -> approved -> fill          *)
(*                  \                   \                                  *)
(*                   +-> rejected        +-> rejected                      *)
(*                                                                         *)
(* one phase at a time, never back, at most one fill per executor, and no  *)
(* fill of a trade that was not approved.  It does not promise progress:   *)
(* that needs the absence of faults.                                       *)
(***************************************************************************)
CONSTANTS Trades, Executors

VARIABLES phase,   \* phase[t]: how far the published verdicts take trade t
          fills    \* fills[t]: the executors that have published a fill of t

vars == <<phase, fills>>

Phase == {"new", "proposed", "sized", "simulated", "approved", "rejected"}

TypeOK == /\ phase \in [Trades -> Phase]
          /\ fills \in [Trades -> SUBSET Executors]

Init == /\ phase = [t \in Trades |-> "new"]
        /\ fills = [t \in Trades |-> {}]

Follows == [new |-> {"proposed"}, proposed |-> {"sized", "rejected"},
            sized |-> {"simulated", "rejected"}, simulated |-> {"approved"},
            approved |-> {}, rejected |-> {}]

Advance(t) == /\ \E p \in Follows[phase[t]] : phase' = [phase EXCEPT ![t] = p]
              /\ UNCHANGED fills

Fill(t) == /\ phase[t] = "approved"
           /\ \E x \in Executors \ fills[t] : fills' = [fills EXCEPT ![t] = @ \cup {x}]
           /\ UNCHANGED phase

Next == \E t \in Trades : Advance(t) \/ Fill(t)

Spec == Init /\ [][Next]_vars
=============================================================================
