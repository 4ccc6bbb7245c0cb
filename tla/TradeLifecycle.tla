--------------------------- MODULE TradeLifecycle ---------------------------
(***************************************************************************)
(* The running system of the trade path: the agents process, whose         *)
(* strategy, orchestrator and monitor tasks share one event loop, and the  *)
(* execution service, over one Redis.  Failures are bounded by MaxFaults:  *)
(* a handler that raises, a monitor iteration that raises, a restart of    *)
(* either process.                                                         *)
(***************************************************************************)
EXTENDS StrategyAgent, Orchestrator, ExecutionService

CONSTANT MaxFaults

ASSUME FaultsAssumption == MaxFaults \in Nat

VARIABLES faults,     \* history: failures so far
          restarted   \* history: the agents process has been restarted

vars == <<redisVars, breakerVars, scan, orchestratorVars, execVars, faults, restarted>>

Init == /\ RedisInit /\ BreakerInit /\ ScanInit /\ OrchestratorInit /\ ExecInit
        /\ faults = 0
        /\ restarted = FALSE

-----------------------------------------------------------------------------
Strategy == /\ StrategyStep
            /\ UNCHANGED <<breakerVars, orchestratorVars, execVars, faults, restarted>>

Orchestrate == /\ OrchestratorStep
               /\ UNCHANGED <<monitor, scan, execVars, faults, restarted>>

Monitor == /\ MonitorStep
           /\ UNCHANGED <<redisVars, scan, orchestratorVars, execVars, faults, restarted>>

Execution == /\ ExecStep
             /\ UNCHANGED <<breakerVars, scan, orchestratorVars, faults, restarted>>

TimePasses == /\ CooldownElapses
              /\ UNCHANGED <<redisVars, scan, orchestratorVars, execVars, faults, restarted>>

-----------------------------------------------------------------------------
Fault == faults < MaxFaults /\ faults' = faults + 1

OrchestratorError ==
    /\ Fault
    /\ HandlerError
    /\ UNCHANGED <<monitor, scan, execVars, restarted>>

MonitorFault ==
    /\ Fault
    /\ MonitorError
    /\ UNCHANGED <<redisVars, scan, orchestratorVars, execVars, restarted>>

ExecutionError ==
    /\ Fault
    /\ EHandlerError
    /\ UNCHANGED <<breakerVars, scan, orchestratorVars, restarted>>

AgentsRestart ==
    /\ Fault
    /\ OrchestratorRestart
    /\ monitor' = "watch" /\ scan' = "check"
    /\ restarted' = TRUE
    /\ UNCHANGED execVars

ExecutionRestart ==
    /\ Fault
    /\ ExecRestart
    /\ UNCHANGED <<breakerVars, scan, orchestratorVars, restarted>>

Next == \/ Strategy \/ Orchestrate \/ Monitor \/ Execution
        \/ TimePasses
        \/ OrchestratorError \/ MonitorFault \/ ExecutionError
        \/ AgentsRestart \/ ExecutionRestart

Spec == Init /\ [][Next]_vars

(* The part of the monitor's loop that does not depend on the market.      *)
Recover == Monitor /\ (MonitorRead \/ MonitorWrite)

(* The event loop resumes every task whose await has completed and docker  *)
(* restarts a dead process, so a task that can step does; time passes.     *)
(* The strategy owes nothing, and neither a divergence from the oracle nor *)
(* a failure need ever happen.                                             *)
FairSpec == /\ Spec
            /\ WF_vars(Orchestrate)
            /\ WF_vars(Recover)
            /\ WF_vars(Execution)
            /\ WF_vars(TimePasses)

-----------------------------------------------------------------------------
(* Every variable stays in its type: the type invariant of the composed    *)
(* system, on which the proofs rest.                                       *)
TypeOK == /\ RedisTypeOK /\ BreakerTypeOK /\ ScanTypeOK
          /\ OrchestratorTypeOK /\ ExecTypeOK
          /\ faults \in 0 .. MaxFaults
          /\ restarted \in BOOLEAN

-----------------------------------------------------------------------------
(* The audit trail.                                                        *)

Simulation == {"simulation.passed", "simulation.failed"}
Verdict == {"trade.approved", "trade.rejected"}

Precedes(type, i) == \E j \in 1 .. i - 1 : stream[j].type = type /\ stream[j].id = stream[i].id

(* The unskippable gate (graph.py, header): no trade is sized before it is *)
(* proposed, simulated before it is sized, approved without a passed dry   *)
(* run, filled without an approval, by either executor, whatever fails.    *)
PipelineOrder ==
    \A i \in 1 .. Len(stream) :
        /\ stream[i].type \in {"trade.sized", "trade.rejected"} => Precedes("trade.proposed", i)
        /\ stream[i].type \in Simulation => Precedes("trade.sized", i)
        /\ stream[i].type = "trade.approved" => Precedes("simulation.passed", i)
        /\ stream[i].type \in FillType => Precedes("trade.approved", i)

SameStep(e, f) ==
    /\ e.id = f.id /\ e.source = f.source
    /\ e.type = f.type \/ \E S \in {FillType, Simulation, Verdict} : e.type \in S /\ f.type \in S

(* At most once: no step of a trade is taken twice by the same process,    *)
(* and no trade is both approved and rejected, in spite of errors and      *)
(* restarts (what consume() delivered once is never delivered again).      *)
PublishedOnce ==
    \A i, j \in 1 .. Len(stream) : SameStep(stream[i], stream[j]) => i = j

-----------------------------------------------------------------------------
(* Bookkeeping against the audit trail.                                    *)

Executing == pc \in {"execute", "account", "tripFailures", "clearStreak", "book", "release"}

(* Who can hold a member of risk:open_positions: the trade either process  *)
(* is executing, a trade whose handling was cut short, or a directional    *)
(* trade the execution service has filled.  Anything else would count      *)
(* against max_concurrent for ever without a reason.                       *)
PositionsExplained ==
    \A t \in positions :
        \/ Executing /\ t = cur
        \/ epc # "idle" /\ t = ecur
        \/ t \in cut \cup execCut
        \/ t \in Directional /\ FilledBy(t, "execution")

(* The ledger is the agents' part of the audit trail: every row has its    *)
(* fill event, and every fill of the paper executor is booked unless its   *)
(* handling was cut short or is still under way.                           *)
LedgerMatchesStream ==
    /\ \A r \in ledger : \E i \in 1 .. Len(stream) :
           stream[i] = [type |-> r.status, id |-> r.id, source |-> "agents"]
    /\ \A t \in Trades : FilledBy(t, "agents") =>
           \/ \E r \in ledger : r.id = t
           \/ t \in cut
           \/ Executing /\ t = cur

(* _proposals still knows the trade when it is booked, unless the process  *)
(* was restarted in between; then the row says strategy "?".               *)
UnknownStrategyNeedsRestart == \A r \in ledger : r.known \/ restarted

(* A filled trade does not stay in _pending or _proposals unless its       *)
(* handling was cut short.  (A rejected one does: see the findings.)       *)
FilledTradesForgotten ==
    \A t \in pending \cup proposals :
        FilledBy(t, "agents") => t \in cut \/ (Executing /\ t = cur)

AgentsFillAt(i, type) == stream[i].type = type /\ stream[i].source = "agents"

(* The failed fills since the last executed one.                           *)
FailuresSinceSuccess ==
    {i \in 1 .. Len(stream) : /\ AgentsFillAt(i, "trade.failed")
                              /\ \A j \in i .. Len(stream) : ~AgentsFillAt(j, "trade.executed")}

TrailingFailures == Cardinality(FailuresSinceSuccess)

(* Between two trades the streak that trips the breaker is what the audit  *)
(* trail says, counted anew after each trip, as long as nothing failed.    *)
StreakMatchesStream ==
    pc = "idle" /\ faults = 0 => failStreak = TrailingFailures % FailThreshold

-----------------------------------------------------------------------------
(* Why the audit trail is in order and free of duplicates: what is         *)
(* published about a trade is caused by an earlier entry that the          *)
(* publisher's group has passed, or is at, and a group never goes back.    *)

AfterFill == {"account", "tripFailures", "clearStreak", "book", "release"}

AgentsCursorInv ==
    /\ agents.next <= agents.last + 1 /\ agents.last <= Len(stream)
    /\ pc # "idle" => Holds(agents)
    /\ pc \in GatePc => Current(agents).type = "trade.proposed"
    /\ pc \in SimPc => Current(agents).type = "trade.sized"
    /\ pc \in FillPc => Current(agents).type = "trade.approved"
    /\ pc = "reject" => Current(agents).type \in {"trade.proposed", "trade.sized"}
    /\ pc \in AfterFill => fill \in FillType

ExecCursorInv ==
    /\ exec.next <= exec.last + 1 /\ exec.last <= Len(stream)
    /\ epc # "idle" => Holds(exec)
    /\ Holds(exec) => Current(exec).type = "trade.approved"

CursorsInv == AgentsCursorInv /\ ExecCursorInv

(* Entry j of that type is about the same trade as entry i, and precedes.  *)
Cause(i, j, type) == stream[j].type = type /\ stream[j].id = stream[i].id

FromProposal(i) == stream[i].type # "trade.proposed" =>
    \E j \in 1 .. i - 1 : Cause(i, j, "trade.proposed") /\ j < agents.next

SimulationFromSized(i) == stream[i].type \in Simulation =>
    \E j \in 1 .. i - 1 :
        /\ Cause(i, j, "trade.sized")
        /\ j < agents.next \/ (j = agents.next /\ pc \in {"approve", "reject"})

ApprovalFromSized(i) == stream[i].type = "trade.approved" =>
    /\ \E j \in 1 .. i - 1 : Cause(i, j, "trade.sized") /\ j < agents.next
    /\ Precedes("simulation.passed", i)

AgentsFillFromApproval(i) == stream[i].type \in FillType /\ stream[i].source = "agents" =>
    \E j \in 1 .. i - 1 :
        /\ Cause(i, j, "trade.approved")
        /\ j < agents.next \/ (j = agents.next /\ pc \in AfterFill)

ExecFillFromApproval(i) == stream[i].type \in FillType /\ stream[i].source = "execution" =>
    \E j \in 1 .. i - 1 :
        /\ Cause(i, j, "trade.approved")
        /\ j < exec.next \/ (j = exec.next /\ epc = "release")

(* If a rejected trade was sized at all, the sized entry is done with.     *)
RejectionEndsSized(i) == stream[i].type = "trade.rejected" =>
    \A j \in 1 .. Len(stream) : Cause(i, j, "trade.sized") => j < agents.next

CausedBy(i) ==
    /\ stream[i].type \notin FillType => stream[i].source = "agents"
    /\ FromProposal(i) /\ SimulationFromSized(i) /\ ApprovalFromSized(i)
    /\ AgentsFillFromApproval(i) /\ ExecFillFromApproval(i) /\ RejectionEndsSized(i)

CausesInv == /\ \A i \in 1 .. Len(stream) : CausedBy(i)
             /\ pc = "approve" => InStream("simulation.passed", cur)

AuditInv == TypeOK /\ CursorsInv /\ CausesInv /\ PublishedOnce

(* Why the bookkeeping agrees with it: what handle() holds about the trade *)
(* in hand is in the stream and the ledger, and a proposal once read stays *)
(* in _proposals until its trade is released or the process restarted.     *)

Posted(type, id, source) ==
    \E i \in 1 .. Len(stream) : stream[i] = [type |-> type, id |-> id, source |-> source]

FillInHand ==
    /\ pc \in AfterFill => Posted(fill, cur, "agents")
    /\ pc = "release" => \E r \in ledger : r.id = cur
    /\ epc = "release" => FilledBy(ecur, "execution")

ProposalRead(j) ==
    stream[j].type = "trade.proposed" /\ (j < agents.next \/ (j = agents.next /\ pc # "idle"))

ProposalKept(j) ==
    \/ stream[j].id \in proposals \/ restarted
    \/ \E i \in 1 .. agents.next - 1 : stream[i].type = "trade.approved" /\ stream[i].id = stream[j].id

ProposalsKept == \A j \in 1 .. Len(stream) : ProposalRead(j) => ProposalKept(j)

BookInv == /\ PositionsExplained /\ LedgerMatchesStream
           /\ UnknownStrategyNeedsRestart /\ FilledTradesForgotten
           /\ FillInHand /\ ProposalsKept

(* The streak at every await: risk.on_fill first counts the fill that the  *)
(* stream has already, then clears a streak that has tripped the breaker.  *)
Accounting == {"account", "tripFailures", "clearStreak"}

StreakInv ==
    faults = 0 =>
       /\ pc = "account" =>
             IF fill = "trade.failed" THEN /\ TrailingFailures > 0
                                           /\ failStreak = (TrailingFailures - 1) % FailThreshold
             ELSE TrailingFailures = 0
       /\ pc \in Accounting \ {"account"} => TrailingFailures % FailThreshold = 0
       /\ pc \notin Accounting => failStreak = TrailingFailures % FailThreshold

-----------------------------------------------------------------------------
(* The lifecycle implements the protocol that graph.py's header draws.     *)

PhaseOf(t) == IF InStream("trade.rejected", t) THEN "rejected"
              ELSE IF InStream("trade.approved", t) THEN "approved"
              ELSE IF InStream("simulation.passed", t) THEN "simulated"
              ELSE IF InStream("trade.sized", t) THEN "sized"
              ELSE IF InStream("trade.proposed", t) THEN "proposed" ELSE "new"

Protocol == INSTANCE TradeProtocol
            WITH Executors <- Source,
                 phase <- [t \in Trades |-> PhaseOf(t)],
                 fills <- [t \in Trades |-> {x \in Source : FilledBy(t, x)}]

(* Every behaviour of the two processes, faults included, is one of the    *)
(* protocol: one phase at a time, one verdict, fills only once approved.   *)
ImplementsProtocol == Protocol!Spec

-----------------------------------------------------------------------------
(* Liveness, under FairSpec.                                               *)

Settled(t) == InStream("trade.rejected", t) \/ FilledBy(t, "agents")

(* A proposal is rejected or filled, unless its handling was cut short.    *)
EveryProposalSettles ==
    \A t \in Trades : InStream("trade.proposed", t) ~> (Settled(t) \/ t \in cut)

(* With the agents process alone on the stream, a position is given back   *)
(* unless the handling of its trade was cut short.                         *)
PositionsDrain == \A t \in Trades : t \in positions ~> (t \notin positions \/ t \in cut)

(* A breaker that is not tripped again and again leaves TRIPPED.           *)
BreakerCools == []<>(Tripped /\ ~breaker.aged) \/ []<>~Tripped

(* circuit_breaker.py:1 has the breaker go from COOLDOWN back to ARMED.    *)
BreakerRearms == CurrentState = "COOLDOWN" ~> CurrentState = "ARMED"

(* Blueprint line 222 has the breaker "auto-pause all trading": no trade   *)
(* is executed while the breaker is tripped.                               *)
TrippedBreakerHaltsFills ==
    [][Tripped => \A t \in Trades, x \in Source : FilledBy(t, x)' => FilledBy(t, x)]_vars

(* executor_paper.py:2 has the two executors exchangeable, one or the      *)
(* other filling an approved trade: a trade has one fill.                  *)
FilledByOneExecutor ==
    \A t \in Trades : ~(FilledBy(t, "agents") /\ FilledBy(t, "execution"))

(* README.md:48 has a cap on concurrent positions in every risk profile:   *)
(* risk:open_positions never has more members than the profile allows.     *)
PositionsWithinLimit == Cardinality(positions) <= MaxConcurrent
=============================================================================
