----------------------------- MODULE Settlement -----------------------------
(***************************************************************************)
(* What an executor owes the rest of the system, whatever the network      *)
(* does: it settles on one status per trade, and a halted contract carries *)
(* out nothing.  "executed" is said of a trade whose cycle the chain has   *)
(* carried out, or that is simulated; only once the contract has been      *)
(* halted may it be said in error.                                         *)
(***************************************************************************)
CONSTANTS Trades, Directional

VARIABLES simulated,   \* the executor only pretends (EXEC_MODE=paper)
          settled,     \* trades the chain has carried out
          halted,      \* the contract is paused
          haltedOnce,  \* it has been paused before, or is
          reported     \* status of each trade

vars == <<simulated, settled, halted, haltedOnce, reported>>

Init == /\ simulated \in BOOLEAN
        /\ settled = {}
        /\ halted = FALSE /\ haltedOnce = FALSE
        /\ reported = [t \in Trades |-> "none"]

Settle(t) == /\ ~halted /\ ~simulated
             /\ settled' = settled \cup {t}
             /\ UNCHANGED <<simulated, halted, haltedOnce, reported>>

Halt == /\ halted' = TRUE /\ haltedOnce' = TRUE
        /\ UNCHANGED <<simulated, settled, reported>>

Resume == /\ halted' = FALSE
          /\ UNCHANGED <<simulated, settled, haltedOnce, reported>>

Report(t, s) == /\ reported[t] = "none"
                /\ s = "executed" => t \in settled \/ simulated \/ haltedOnce
                /\ reported' = [reported EXCEPT ![t] = s]
                /\ UNCHANGED <<simulated, settled, halted, haltedOnce>>

Next == \/ Halt \/ Resume
        \/ \E t \in Trades \ Directional : Settle(t)
        \/ \E t \in Trades, s \in {"executed", "failed", "lost"} : Report(t, s)

Spec == Init /\ [][Next]_vars
=============================================================================
