---------------------------- MODULE Orchestrator ----------------------------
(***************************************************************************)
(* The trade lifecycle of the agents process: the consumer loop and        *)
(* handle() of agents/orchestrator/graph.py with what it calls in          *)
(* risk/agent.py, simulation/fork_runner.py, orchestrator/                 *)
(* executor_paper.py and portfolio/agent.py.                               *)
(*                                                                         *)
(* The process is one asyncio event loop, so tasks interleave at awaits    *)
(* only: handle() is cut into one action per await that reads or writes    *)
(* state shared with another task or process.  Awaits that only log,       *)
(* notify the dashboard or read market data are part of the step they      *)
(* follow; that they too can raise is in HandlerError.                     *)
(*                                                                         *)
(* Open choices: whether the day's drawdown breaches the profile's limit,  *)
(* whether a proposal passes the tier, slippage and size checks, whether   *)
(* the requote passes, and whether a cycle survives the slippage haircut.  *)
(***************************************************************************)
EXTENDS RedisBus, CircuitBreaker

CONSTANTS MaxConcurrent,   \* profile.max_concurrent
          FailThreshold,   \* threshold of anomaly.consecutive_failures, 3
          ReadCount        \* count of consume(), 16

ASSUME OrchestratorAssumption ==
    MaxConcurrent \in Nat \ {0} /\ FailThreshold \in Nat \ {0} /\ ReadCount \in Nat \ {0}

VARIABLES agents,       \* the group "orchestrator" with its consumer
          pc,           \* where handle() stands on Current(agents)
          fill,         \* status of the fill in hand
          proposals,    \* keys of _proposals
          pending,      \* keys of _pending
          failStreak,   \* risk._fail_streak
          ledger,       \* rows booked by portfolio.on_fill
          cut           \* history: trades whose handling an error or a crash cut short

memoryVars == <<proposals, pending, failStreak>>
orchestratorVars == <<agents, pc, fill, proposals, pending, failStreak, ledger, cut>>

GatePc == {"gate", "tripDrawdown", "limits"}
SimPc == {"simulate", "approve"}
FillPc == {"reserve", "execute", "account", "tripFailures", "clearStreak", "book", "release"}
OrchestratorPc == {"idle", "reject"} \cup GatePc \cup SimPc \cup FillPc

Row == [id : Trades, status : FillType, known : BOOLEAN]

OrchestratorInit == /\ agents = NewGroup
                    /\ pc = "idle"
                    /\ fill = "none"
                    /\ proposals = {} /\ pending = {} /\ failStreak = 0
                    /\ ledger = {}
                    /\ cut = {}

OrchestratorTypeOK == /\ agents \in Group
                      /\ pc \in OrchestratorPc
                      /\ fill \in FillType \cup {"none"}
                      /\ proposals \subseteq Trades /\ pending \subseteq Trades
                      /\ failStreak \in Nat
                      /\ ledger \subseteq Row
                      /\ cut \subseteq Trades

Handled == {"trade.proposed", "trade.sized", "trade.approved"}

cur == Current(agents).id

Goto(l) == pc' = l

(* handle() returned: acknowledge and move to the next entry of the batch. *)
Done == Goto("idle") /\ agents' \in Advanced(agents, Handled)

-----------------------------------------------------------------------------
(* consume() and the dispatch on the type of the entry.                    *)

Fetch == /\ pc = "idle" /\ CanFetch(agents)
         /\ agents' \in Fetched(agents, ReadCount, Handled)
         /\ UNCHANGED <<redisVars, breaker, pc, fill, memoryVars, ledger, cut>>

OnProposed == /\ pc = "idle" /\ Holds(agents)
              /\ Current(agents).type = "trade.proposed"
              /\ proposals' = proposals \cup {cur}
              /\ Goto("gate")
              /\ UNCHANGED <<redisVars, breaker, agents, fill, pending, failStreak, ledger, cut>>

(* Mutant of OnSized: the proposal is dropped once the trade is sized.     *)
OnSizedForgetting ==
    /\ pc = "idle" /\ Holds(agents)
    /\ Current(agents).type = "trade.sized"
    /\ pending' = pending \cup {cur} /\ proposals' = proposals \ {cur}
    /\ Goto("simulate")
    /\ UNCHANGED <<redisVars, breaker, agents, fill, failStreak, ledger, cut>>

OnSized == /\ pc = "idle" /\ Holds(agents)
           /\ Current(agents).type = "trade.sized"
           /\ pending' = pending \cup {cur}
           /\ Goto("simulate")
           /\ UNCHANGED <<redisVars, breaker, agents, fill, proposals, failStreak, ledger, cut>>

OnApproved == /\ pc = "idle" /\ Holds(agents)
              /\ Current(agents).type = "trade.approved"
              /\ Goto("reserve")
              /\ UNCHANGED <<redisVars, breaker, agents, fill, memoryVars, ledger, cut>>

-----------------------------------------------------------------------------
(* trade.proposed: risk.gate_proposal.                                     *)

(* The breaker is read first, then the ledger for the day's drawdown.      *)
Gate == /\ pc = "gate"
        /\ \E breach \in BOOLEAN :
              Goto(IF CurrentState = "TRIPPED" THEN "reject"
                   ELSE IF breach THEN "tripDrawdown" ELSE "limits")
        /\ UNCHANGED <<redisVars, breaker, agents, fill, memoryVars, ledger, cut>>

TripDrawdown == /\ pc = "tripDrawdown"
                /\ Trip
                /\ Goto("reject")
                /\ UNCHANGED <<redisVars, agents, fill, memoryVars, ledger, cut>>

(* Beyond the limit on positions both kinds are rejected: the exception    *)
(* for cycles of amount zero is void, size_and_score proposes none.        *)
GateLimits == /\ pc = "limits"
              /\ \/ Goto("reject") /\ UNCHANGED <<stream, agents>>
                 \/ /\ Cardinality(positions) < MaxConcurrent
                    /\ Publish("trade.sized", cur, "agents")
                    /\ Done
              /\ UNCHANGED <<positions, breaker, fill, memoryVars, ledger, cut>>

(* Mutant of Reject: the rejection is not published.                       *)
RejectSilently == /\ pc = "reject"
                  /\ Done
                  /\ UNCHANGED <<redisVars, breaker, fill, memoryVars, ledger, cut>>

Reject == /\ pc = "reject"
          /\ Publish("trade.rejected", cur, "agents")
          /\ Done
          /\ UNCHANGED <<positions, breaker, fill, memoryVars, ledger, cut>>

-----------------------------------------------------------------------------
(* trade.sized: the dry run and risk.approve_after_sim.                    *)

(* Mutant of Simulate: the verdict of the dry run is not looked at.        *)
SimulateUnchecked ==
    /\ pc = "simulate"
    /\ \E type \in {"simulation.passed", "simulation.failed"} : Publish(type, cur, "agents")
    /\ Goto("approve")
    /\ UNCHANGED <<positions, breaker, agents, fill, memoryVars, ledger, cut>>

Simulate == /\ pc = "simulate"
            /\ \E passed \in (IF cur \in Directional THEN {TRUE} ELSE BOOLEAN) :
                  /\ Publish(IF passed THEN "simulation.passed" ELSE "simulation.failed",
                             cur, "agents")
                  /\ Goto(IF passed THEN "approve" ELSE "reject")
            /\ UNCHANGED <<positions, breaker, agents, fill, memoryVars, ledger, cut>>

Approve == /\ pc = "approve"
           /\ Publish("trade.approved", cur, "agents")
           /\ Done
           /\ UNCHANGED <<positions, breaker, fill, memoryVars, ledger, cut>>

-----------------------------------------------------------------------------
(* trade.approved: paper execution, risk.on_fill, portfolio.on_fill.       *)

Reserve == /\ pc = "reserve"
           /\ positions' = positions \cup {cur}
           /\ Goto("execute")
           /\ UNCHANGED <<stream, breaker, agents, fill, memoryVars, ledger, cut>>

Execute == /\ pc = "execute"
           /\ fill' \in (IF cur \in Directional THEN {"trade.executed"} ELSE FillType)
           /\ Publish(fill', cur, "agents")
           /\ Goto("account")
           /\ UNCHANGED <<positions, breaker, agents, memoryVars, ledger, cut>>

(* Mutant of AccountFill: an executed trade does not end the streak.       *)
AccountFillNeverReset ==
    /\ pc = "account"
    /\ failStreak' = IF fill = "trade.failed" THEN failStreak + 1 ELSE failStreak
    /\ Goto(IF failStreak' >= FailThreshold THEN "tripFailures" ELSE "book")
    /\ UNCHANGED <<redisVars, breaker, agents, fill, proposals, pending, ledger, cut>>

(* risk.on_fill: the streak, and the trip that a long streak causes.  The  *)
(* streak is cleared when trip() returns; trip() writes the hash first.    *)
AccountFill == /\ pc = "account"
               /\ failStreak' = IF fill = "trade.failed" THEN failStreak + 1 ELSE 0
               /\ Goto(IF failStreak' >= FailThreshold THEN "tripFailures" ELSE "book")
               /\ UNCHANGED <<redisVars, breaker, agents, fill, proposals, pending, ledger, cut>>

TripFailures == /\ pc = "tripFailures"
                /\ Trip
                /\ Goto("clearStreak")
                /\ UNCHANGED <<redisVars, agents, fill, memoryVars, ledger, cut>>

ClearStreak == /\ pc = "clearStreak"
               /\ failStreak' = 0
               /\ Goto("book")
               /\ UNCHANGED <<redisVars, breaker, agents, fill, proposals, pending, ledger, cut>>

(* Mutant of Book: only executed trades are booked.                        *)
BookExecuted ==
    /\ pc = "book"
    /\ ledger' = IF fill = "trade.executed"
                 THEN ledger \cup {[id |-> cur, status |-> fill, known |-> cur \in proposals]}
                 ELSE ledger
    /\ Goto("release")
    /\ UNCHANGED <<redisVars, breaker, agents, fill, memoryVars, cut>>

(* portfolio.on_fill; without the proposal the strategy is booked as "?".  *)
Book == /\ pc = "book"
        /\ ledger' = ledger \cup {[id |-> cur, status |-> fill, known |-> cur \in proposals]}
        /\ Goto("release")
        /\ UNCHANGED <<redisVars, breaker, agents, fill, memoryVars, cut>>

(* Mutants of Release: a directional trade keeps its position, as it does  *)
(* in the execution service; so does a fill that failed; _proposals is not *)
(* cleaned.                                                                *)
ReleaseCyclesOnly ==
    /\ pc = "release"
    /\ positions' = positions \ ({cur} \ Directional)
    /\ pending' = pending \ {cur} /\ proposals' = proposals \ {cur}
    /\ fill' = "none"
    /\ Done
    /\ UNCHANGED <<stream, breaker, failStreak, ledger, cut>>

ReleaseExecutedOnly ==
    /\ pc = "release"
    /\ positions' = IF fill = "executed" THEN positions \ {cur} ELSE positions
    /\ pending' = pending \ {cur} /\ proposals' = proposals \ {cur}
    /\ fill' = "none"
    /\ Done
    /\ UNCHANGED <<stream, breaker, failStreak, ledger, cut>>

ReleaseKeepingProposal ==
    /\ pc = "release"
    /\ positions' = positions \ {cur}
    /\ pending' = pending \ {cur}
    /\ fill' = "none"
    /\ Done
    /\ UNCHANGED <<stream, breaker, proposals, failStreak, ledger, cut>>

(* The condition around srem holds for both kinds of trade.                *)
Release == /\ pc = "release"
           /\ positions' = positions \ {cur}
           /\ pending' = pending \ {cur}
           /\ proposals' = proposals \ {cur}
           /\ fill' = "none"
           /\ Done
           /\ UNCHANGED <<stream, breaker, failStreak, ledger, cut>>

OrchestratorStep ==
    \/ Fetch \/ OnProposed \/ OnSized \/ OnApproved
    \/ Gate \/ TripDrawdown \/ GateLimits \/ Reject
    \/ Simulate \/ Approve
    \/ Reserve \/ Execute
    \/ AccountFill \/ TripFailures \/ ClearStreak \/ Book \/ Release

-----------------------------------------------------------------------------
(* An await of handle() raised (Redis or Postgres unreachable for a        *)
(* moment): run() logs it and the finally clause acknowledges the entry.   *)
HandlerError == /\ pc # "idle"
                /\ cut' = cut \cup {cur}
                /\ fill' = "none"
                /\ Done
                /\ UNCHANGED <<redisVars, breaker, memoryVars, ledger>>

(* The agents process dies and is restarted: its memory is lost, and the   *)
(* rest of the batch it held is never delivered again.                     *)
OrchestratorRestart == /\ agents' = Restarted(agents)
                       /\ cut' = cut \cup Undone(agents)
                       /\ Goto("idle")
                       /\ fill' = "none"
                       /\ proposals' = {} /\ pending' = {} /\ failStreak' = 0
                       /\ UNCHANGED <<redisVars, breaker, ledger>>
=============================================================================
