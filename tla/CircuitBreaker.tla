--------------------------- MODULE CircuitBreaker ---------------------------
(***************************************************************************)
(* The breaker hash in Redis (agents/risk/circuit_breaker.py) and the task *)
(* of the agents process that watches the market and recovers the breaker  *)
(* (risk.monitor_loop).  One action per await of the task that touches     *)
(* shared state.                                                           *)
(*                                                                         *)
(* Time is abstract: aged says that more than COOLDOWN_SEC have passed     *)
(* since trippedAt.  arm() is not an action: nothing but the integration   *)
(* tests calls it.                                                         *)
(***************************************************************************)
CONSTANT Divergences   \* what the oracle comparison may find: a subset of BOOLEAN

ASSUME DivergencesAssumption == Divergences \subseteq BOOLEAN

VARIABLES breaker,      \* the hash risk:breaker, [state, aged]
          monitor       \* where monitor_loop stands

breakerVars == <<breaker, monitor>>

BreakerState == {"missing", "ARMED", "TRIPPED", "COOLDOWN"}
MonitorPc == {"watch", "read", "write"}

CurrentState == IF breaker.state = "missing" THEN "ARMED" ELSE breaker.state

Tripped == breaker.state = "TRIPPED"

(* Mutant of Trip: trippedAt is not written.                               *)
TripUndated == breaker' = [state |-> "TRIPPED"]

Trip == breaker' = [state |-> "TRIPPED", aged |-> FALSE]

BreakerInit == /\ breaker = [state |-> "missing", aged |-> FALSE]
               /\ monitor = "watch"

BreakerTypeOK == /\ breaker \in [state : BreakerState, aged : BOOLEAN]
                 /\ monitor \in MonitorPc

-----------------------------------------------------------------------------
(* One iteration of monitor_loop: compare with the oracle and trip if they *)
(* diverge, then maybe_recover, whose hgetall and hset are two awaits.     *)

MonitorTrip == /\ monitor = "watch" /\ TRUE \in Divergences
               /\ Trip
               /\ monitor' = "read"

(* Mutant of MonitorRead: looks for the state it should write.             *)
MonitorReadCooldown ==
    /\ \/ monitor = "read"
       \/ monitor = "watch" /\ FALSE \in Divergences
    /\ monitor' = IF breaker.state = "COOLDOWN" /\ breaker.aged THEN "write" ELSE "watch"
    /\ UNCHANGED breaker

MonitorRead == /\ \/ monitor = "read"
                  \/ monitor = "watch" /\ FALSE \in Divergences
               /\ monitor' = IF Tripped /\ breaker.aged THEN "write" ELSE "watch"
               /\ UNCHANGED breaker

MonitorWrite == /\ monitor = "write"
                /\ breaker' = [breaker EXCEPT !.state = "COOLDOWN"]
                /\ monitor' = "watch"

(* The except clause of monitor_loop: whatever raised, start over.         *)
MonitorError == /\ monitor # "watch"
                /\ monitor' = "watch"
                /\ UNCHANGED breaker

MonitorStep == MonitorTrip \/ MonitorRead \/ MonitorWrite

(* The environment: time passes.                                           *)
CooldownElapses == /\ Tripped /\ ~breaker.aged
                   /\ breaker' = [breaker EXCEPT !.aged = TRUE]
                   /\ UNCHANGED monitor
=============================================================================
