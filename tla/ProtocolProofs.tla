--------------------------- MODULE ProtocolProofs ---------------------------
(***************************************************************************)
(* Proof that the trade lifecycle implements TradeProtocol: every step of  *)
(* the two processes, faults included, advances one trade by one phase,    *)
(* publishes one fill, or leaves phases and fills as they are.             *)
(***************************************************************************)
EXTENDS AuditTrailProofs

(* A trade that is about to be rejected has not passed its dry run.        *)
RejectInv == pc = "reject" => ~InStream("simulation.passed", cur)

ProtocolInv == AuditInv /\ RejectInv

FillsOf(t) == {x \in Source : FilledBy(t, x)}

-----------------------------------------------------------------------------
(* What publishing an entry changes in the stream's view of the trades.    *)
LEMMA PublishView ==
    ASSUME stream \in Seq(Entry), NEW type \in EventType, NEW id \in Trades,
           NEW source \in Source, Publish(type, id, source)
    PROVE  /\ \A ty, t : InStream(ty, t)' <=> InStream(ty, t) \/ (ty = type /\ t = id)
           /\ \A t, x : FilledBy(t, x)' <=>
                 FilledBy(t, x) \/ (type \in FillType /\ t = id /\ x = source)
<1>1. /\ Len(stream) \in Nat /\ Len(stream') = Len(stream) + 1
      /\ \A i \in 1 .. Len(stream) : stream'[i] = stream[i]
      /\ stream'[Len(stream) + 1] = [type |-> type, id |-> id, source |-> source]
  BY AppendEntry
<1>2. \A i : i \in 1 .. Len(stream') <=> i \in 1 .. Len(stream) \/ i = Len(stream) + 1
  BY <1>1
<1>3. \A ty, t : InStream(ty, t)' <=> InStream(ty, t) \/ (ty = type /\ t = id)
  BY <1>1, <1>2 DEF InStream
<1>4. \A t, x : FilledBy(t, x)' <=>
          FilledBy(t, x) \/ (type \in FillType /\ t = id /\ x = source)
  BY <1>1, <1>2 DEF FilledBy
<1>5. QED
  BY <1>3, <1>4

(* The phase a trade must be in for an entry about it to be published.     *)
Admits(type, id, source) ==
    /\ type = "trade.proposed" => PhaseOf(id) = "new"
    /\ type = "trade.sized" => PhaseOf(id) = "proposed"
    /\ type = "trade.rejected" => PhaseOf(id) \in {"proposed", "sized"}
    /\ type = "simulation.passed" => PhaseOf(id) = "sized"
    /\ type = "trade.approved" => PhaseOf(id) = "simulated"
    /\ type \in FillType => PhaseOf(id) = "approved" /\ ~FilledBy(id, source)

(* The phase such an entry takes the trade to.                             *)
PhaseAfter(type) == CASE type = "trade.proposed" -> "proposed"
                      [] type = "trade.sized" -> "sized"
                      [] type = "trade.rejected" -> "rejected"
                      [] type = "simulation.passed" -> "simulated"
                      [] type = "trade.approved" -> "approved"

PhaseTypes == {"trade.proposed", "trade.sized", "trade.rejected",
               "simulation.passed", "trade.approved"}

(* Publishing an admitted entry moves its trade, and no other.             *)
LEMMA PublishPhase ==
    ASSUME stream \in Seq(Entry), NEW type \in EventType, NEW id \in Trades,
           NEW source \in Source, Publish(type, id, source), Admits(type, id, source)
    PROVE  /\ \A t : t # id \/ type \notin PhaseTypes => PhaseOf(t)' = PhaseOf(t)
           /\ type \in PhaseTypes => PhaseOf(id)' = PhaseAfter(type)
<1>1. \A ty, t : InStream(ty, t)' <=> InStream(ty, t) \/ (ty = type /\ t = id)
  BY PublishView
<1>2. ASSUME NEW t, t # id \/ type \notin PhaseTypes
      PROVE  PhaseOf(t)' = PhaseOf(t)
  BY <1>1, <1>2 DEF PhaseOf, PhaseTypes
<1>3. ASSUME type \in PhaseTypes
      PROVE  PhaseOf(id)' = PhaseAfter(type)
  BY <1>1, <1>3 DEF PhaseOf, PhaseTypes, PhaseAfter, Admits
<1>4. QED
  BY <1>2, <1>3

(* An admitted entry is a step of the protocol, or changes nothing in it.  *)
LEMMA AdmittedStep ==
    ASSUME stream \in Seq(Entry), NEW type \in EventType, NEW id \in Trades,
           NEW source \in Source, Publish(type, id, source), Admits(type, id, source)
    PROVE  [Protocol!Next]_Protocol!vars
<1> DEFINE phase == [t \in Trades |-> PhaseOf(t)]
           fills == [t \in Trades |-> FillsOf(t)]
<1>1. \A t, x : FilledBy(t, x)' <=>
          FilledBy(t, x) \/ (type \in FillType /\ t = id /\ x = source)
  BY PublishView
<1>2. /\ \A t : t # id \/ type \notin PhaseTypes => PhaseOf(t)' = PhaseOf(t)
      /\ type \in PhaseTypes => PhaseOf(id)' = PhaseAfter(type)
  BY PublishPhase
<1>3. CASE type \in PhaseTypes
  <2>1. fills' = fills
    BY <1>1, <1>3 DEF FillsOf, FillType, PhaseTypes
  <2>2. phase' = [phase EXCEPT ![id] = PhaseAfter(type)]
    BY <1>2, <1>3
  <2>3. PhaseAfter(type) \in Protocol!Follows[PhaseOf(id)]
    BY <1>3 DEF Protocol!Follows, PhaseTypes, PhaseAfter, Admits
  <2>4. Protocol!Advance(id)
    BY <2>1, <2>2, <2>3 DEF Protocol!Advance, FillsOf
  <2>5. QED
    BY <2>4 DEF Protocol!Next
<1>4. CASE type \in FillType
  <2>1. phase' = phase
    BY <1>2, <1>4 DEF FillType, PhaseTypes
  <2>2. fills' = [fills EXCEPT ![id] = @ \cup {source}]
    BY <1>1, <1>4 DEF FillsOf
  <2>3. PhaseOf(id) = "approved" /\ source \notin FillsOf(id)
    BY <1>4 DEF Admits, FillsOf
  <2>4. Protocol!Fill(id)
    BY <2>1, <2>2, <2>3 DEF Protocol!Fill, FillsOf
  <2>5. QED
    BY <2>4 DEF Protocol!Next
<1>5. CASE type = "simulation.failed"
  <2>1. phase' = phase
    BY <1>2, <1>5 DEF PhaseTypes
  <2>2. fills' = fills
    BY <1>1, <1>5 DEF FillsOf, FillType
  <2>3. QED
    BY <2>1, <2>2 DEF Protocol!vars, FillsOf
<1>6. QED
  BY <1>3, <1>4, <1>5 DEF EventType, PhaseTypes

(* A step that publishes nothing.                                          *)
LEMMA SilentStep ==
    ASSUME UNCHANGED stream
    PROVE  [Protocol!Next]_Protocol!vars
BY DEF Protocol!vars, PhaseOf, InStream, FilledBy

-----------------------------------------------------------------------------
(* The phase of the trade of the entry a consumer is at.                   *)

LEMMA ProposalPhase ==
    ASSUME stream \in Seq(Entry), agents \in Group, AgentsCursorInv, CausesInv, PublishedOnce,
           Holds(agents), Current(agents).type = "trade.proposed"
    PROVE  PhaseOf(cur) = "proposed" /\ ~InStream("simulation.passed", cur)
<1>1. \A i \in 1 .. Len(stream) : stream[i].id = cur => i = agents.next
  BY AtProposal
<1>2. /\ agents.next \in 1 .. Len(stream)
      /\ stream[agents.next].type = "trade.proposed" /\ stream[agents.next].id = cur
  BY CurrentEntry DEF AgentsCursorInv, Current, cur
<1>3. /\ InStream("trade.proposed", cur)
      /\ \A ty : InStream(ty, cur) => ty = "trade.proposed"
  BY <1>1, <1>2 DEF InStream
<1>4. QED
  BY <1>3 DEF PhaseOf

LEMMA SizedPhase ==
    ASSUME stream \in Seq(Entry), agents \in Group, AgentsCursorInv, CausesInv, PublishedOnce,
           Holds(agents), Current(agents).type = "trade.sized"
    PROVE  /\ PhaseOf(cur) = IF InStream("simulation.passed", cur) THEN "simulated" ELSE "sized"
           /\ InStream("simulation.passed", cur) => pc \in {"approve", "reject"}
<1>1. /\ agents.next \in 1 .. Len(stream) /\ stream[agents.next].type = "trade.sized"
      /\ stream[agents.next].id = cur
      /\ \A i \in 1 .. Len(stream) : stream[i].id = cur =>
            /\ stream[i].type \notin Verdict
            /\ stream[i].type \in Simulation => pc \in {"approve", "reject"}
  BY AtSized
<1>2. InStream("trade.sized", cur)
  BY <1>1 DEF InStream
<1>3. ~InStream("trade.approved", cur) /\ ~InStream("trade.rejected", cur)
  BY <1>1 DEF InStream, Verdict
<1>4. InStream("simulation.passed", cur) => pc \in {"approve", "reject"}
  BY <1>1 DEF InStream, Simulation
<1>5. QED
  BY <1>2, <1>3, <1>4 DEF PhaseOf

LEMMA ApprovedPhase ==
    ASSUME CausesInv, PublishedOnce, NEW i \in 1 .. Len(stream),
           stream[i].type = "trade.approved"
    PROVE  PhaseOf(stream[i].id) = "approved"
<1>1. InStream("trade.approved", stream[i].id)
  BY DEF InStream
<1>2. ASSUME NEW j \in 1 .. Len(stream), stream[j].id = stream[i].id,
             stream[j].type = "trade.rejected"
      PROVE  FALSE
  <2>1. stream[i].source = "agents" /\ stream[j].source = "agents"
    BY <1>2 DEF CausesInv, CausedBy, FillType
  <2>2. SameStep(stream[i], stream[j])
    BY <1>2, <2>1 DEF SameStep, Verdict
  <2>3. QED
    BY <1>2, <2>2 DEF PublishedOnce
<1>3. ~InStream("trade.rejected", stream[i].id)
  BY <1>2 DEF InStream
<1>4. QED
  BY <1>1, <1>3 DEF PhaseOf

LEMMA NewPhase ==
    ASSUME stream \in Seq(Entry), CausesInv, NEW t, ~InStream("trade.proposed", t)
    PROVE  PhaseOf(t) = "new"
<1>1. ASSUME NEW i \in 1 .. Len(stream), stream[i].id = t
      PROVE  FALSE
  <2>1. stream[i].type # "trade.proposed"
    BY <1>1 DEF InStream
  <2>2. PICK j \in 1 .. i - 1 : Cause(i, j, "trade.proposed")
    BY <2>1 DEF CausesInv, CausedBy, FromProposal
  <2>3. j \in 1 .. Len(stream)
    BY <2>2
  <2>4. QED
    BY <1>1, <2>2, <2>3 DEF Cause, InStream
<1>2. \A ty : ~InStream(ty, t)
  BY <1>1 DEF InStream
<1>3. QED
  BY <1>2 DEF PhaseOf

-----------------------------------------------------------------------------
LEMMA OrchestratorProtocol ==
    ASSUME ProtocolInv, OrchestratorStep
    PROVE  [Protocol!Next]_Protocol!vars /\ RejectInv'
<1> USE DEF Goto, redisVars, memoryVars
<1>1. /\ stream \in Seq(Entry) /\ Len(stream) \in Nat
      /\ agents \in Group /\ AgentsCursorInv /\ CausesInv /\ PublishedOnce /\ RejectInv
  BY DEF ProtocolInv, AuditInv, TypeOK, CursorsInv, RedisTypeOK, OrchestratorTypeOK
<1>2. pc # "idle" => Holds(agents)
  BY <1>1 DEF AgentsCursorInv
<1>3. Holds(agents) => cur \in Trades
  BY <1>1, CurrentEntry DEF AgentsCursorInv, cur
<1>4. pc \in GatePc => PhaseOf(cur) = "proposed" /\ ~InStream("simulation.passed", cur)
  <2>1. SUFFICES ASSUME pc \in GatePc
                 PROVE  PhaseOf(cur) = "proposed" /\ ~InStream("simulation.passed", cur)
    OBVIOUS
  <2>2. Holds(agents) /\ Current(agents).type = "trade.proposed"
    BY <1>1, <2>1 DEF AgentsCursorInv, GatePc
  <2>3. QED
    BY <1>1, <2>2, ProposalPhase
<1>5. ASSUME UNCHANGED <<stream, agents>>
      PROVE  InStream("simulation.passed", cur)' <=> InStream("simulation.passed", cur)
  BY <1>5 DEF InStream, cur, Current
<1>6. CASE \/ Fetch \/ OnProposed \/ OnSized \/ OnApproved
           \/ Reserve \/ AccountFill \/ TripFailures \/ ClearStreak \/ Book \/ Release
  <2>1. UNCHANGED stream /\ pc' # "reject"
    BY <1>6 DEF Fetch, OnProposed, OnSized, OnApproved,
       Reserve, AccountFill, TripFailures, ClearStreak, Book, Release, Done
  <2>2. QED
    BY <2>1, SilentStep DEF RejectInv
<1>7. CASE Gate \/ TripDrawdown
  <2>1. UNCHANGED <<stream, agents>> /\ pc \in GatePc
    BY <1>7 DEF Gate, TripDrawdown, GatePc
  <2>2. QED
    BY <1>4, <1>5, <2>1, SilentStep DEF RejectInv
<1>8. CASE GateLimits
  <2>1. pc = "limits" /\ pc \in GatePc
    BY <1>8 DEF GateLimits, GatePc
  <2>2. CASE pc' = "reject" /\ UNCHANGED <<stream, agents>>
    BY <1>4, <1>5, <2>1, <2>2, SilentStep DEF RejectInv
  <2>3. CASE Publish("trade.sized", cur, "agents") /\ Done
    <3>1. Admits("trade.sized", cur, "agents")
      BY <1>4, <2>1 DEF Admits, FillType
    <3>2. "trade.sized" \in EventType /\ "agents" \in Source /\ cur \in Trades
      BY <1>2, <1>3, <2>1 DEF EventType, Source
    <3>3. [Protocol!Next]_Protocol!vars
      BY <1>1, <2>3, <3>1, <3>2, AdmittedStep
    <3>4. QED
      BY <2>3, <3>3 DEF RejectInv, Done
  <2>4. QED
    BY <1>8, <2>2, <2>3 DEF GateLimits
<1>9. CASE Reject
  <2>1. pc = "reject" /\ Holds(agents) /\ Publish("trade.rejected", cur, "agents") /\ Done
    BY <1>2, <1>9 DEF Reject
  <2>2. PhaseOf(cur) \in {"proposed", "sized"}
    <3>1. CASE Current(agents).type = "trade.proposed"
      BY <1>1, <2>1, <3>1, ProposalPhase
    <3>2. CASE Current(agents).type = "trade.sized"
      BY <1>1, <2>1, <3>2, SizedPhase DEF RejectInv
    <3>3. QED
      BY <1>1, <2>1, <3>1, <3>2 DEF AgentsCursorInv
  <2>3. Admits("trade.rejected", cur, "agents")
    BY <2>2 DEF Admits, FillType
  <2>4. "trade.rejected" \in EventType /\ "agents" \in Source /\ cur \in Trades
    BY <1>3, <2>1 DEF EventType, Source
  <2>5. [Protocol!Next]_Protocol!vars
    BY <1>1, <2>1, <2>3, <2>4, AdmittedStep
  <2>6. QED
    BY <2>1, <2>5 DEF RejectInv, Done
<1>10. CASE Simulate
  <2>1. pc = "simulate" /\ Holds(agents) /\ Current(agents).type = "trade.sized"
        /\ UNCHANGED agents
    BY <1>1, <1>2, <1>10 DEF Simulate, AgentsCursorInv, SimPc
  <2>2. PICK type \in Simulation :
            /\ Publish(type, cur, "agents")
            /\ pc' = "reject" => type = "simulation.failed"
    BY <1>10 DEF Simulate, Simulation
  <2>3. PhaseOf(cur) = "sized" /\ ~InStream("simulation.passed", cur)
    BY <1>1, <2>1, SizedPhase
  <2>4. Admits(type, cur, "agents")
    BY <2>2, <2>3 DEF Admits, Simulation, FillType
  <2>5. type \in EventType /\ "agents" \in Source /\ cur \in Trades
    BY <1>3, <2>1, <2>2 DEF EventType, Source, Simulation
  <2>6. [Protocol!Next]_Protocol!vars
    BY <1>1, <2>2, <2>4, <2>5, AdmittedStep
  <2>7. ASSUME type = "simulation.failed"
        PROVE  ~InStream("simulation.passed", cur)'
    <3>1. \A ty, t : InStream(ty, t)' <=> InStream(ty, t) \/ (ty = type /\ t = cur)
      BY <1>1, <2>2, <2>5, PublishView
    <3>2. agents.next \in 1 .. Len(stream)
      BY <1>1, <2>1, CurrentEntry DEF AgentsCursorInv
    <3>3. cur' = cur
      BY <1>1, <2>1, <2>2, <2>5, <3>2, AppendEntry DEF cur, Current
    <3>4. PICK c \in Trades : c = cur
      BY <2>5
    <3>5. ~InStream("simulation.passed", c)'
      BY <2>3, <2>7, <3>1, <3>4
    <3>6. QED
      BY <3>3, <3>4, <3>5 DEF InStream
  <2>8. QED
    BY <2>2, <2>6, <2>7 DEF RejectInv
<1>11. CASE Approve
  <2>1. pc = "approve" /\ Holds(agents) /\ Current(agents).type = "trade.sized"
        /\ Publish("trade.approved", cur, "agents") /\ Done
    BY <1>1, <1>2, <1>11 DEF Approve, AgentsCursorInv, SimPc
  <2>2. InStream("simulation.passed", cur)
    BY <1>1, <2>1 DEF CausesInv
  <2>3. PhaseOf(cur) = "simulated"
    BY <1>1, <2>1, <2>2, SizedPhase
  <2>4. Admits("trade.approved", cur, "agents")
    BY <2>3 DEF Admits, FillType
  <2>5. "trade.approved" \in EventType /\ "agents" \in Source /\ cur \in Trades
    BY <1>3, <2>1 DEF EventType, Source
  <2>6. [Protocol!Next]_Protocol!vars
    BY <1>1, <2>1, <2>4, <2>5, AdmittedStep
  <2>7. QED
    BY <2>1, <2>6 DEF RejectInv, Done
<1>12. CASE Execute
  <2>1. pc = "execute" /\ Holds(agents) /\ Current(agents).type = "trade.approved"
        /\ pc' = "account" /\ Publish(fill', cur, "agents") /\ fill' \in FillType
    BY <1>1, <1>2, <1>12 DEF Execute, AgentsCursorInv, FillPc, FillType
  <2>2. PICK type \in FillType : type = fill'
    BY <2>1
  <2>3. /\ agents.next \in 1 .. Len(stream) /\ stream[agents.next].type = "trade.approved"
        /\ stream[agents.next].id = cur
        /\ \A i \in 1 .. Len(stream) :
              ~(stream[i].id = cur /\ stream[i].type \in FillType /\ stream[i].source = "agents")
    BY <1>1, <2>1, AtApproved DEF AfterFill
  <2>4. PhaseOf(cur) = "approved"
    BY <1>1, <2>3, ApprovedPhase
  <2>5. ~FilledBy(cur, "agents")
    BY <2>3 DEF FilledBy
  <2>6. Admits(type, cur, "agents")
    BY <2>2, <2>4, <2>5 DEF Admits, FillType
  <2>7. type \in EventType /\ "agents" \in Source /\ cur \in Trades
    BY <1>3, <2>1, <2>2 DEF EventType, Source
  <2>8. [Protocol!Next]_Protocol!vars
    BY <1>1, <2>1, <2>2, <2>6, <2>7, AdmittedStep
  <2>9. QED
    BY <2>1, <2>8 DEF RejectInv
<1>13. QED
  BY <1>6, <1>7, <1>8, <1>9, <1>10, <1>11, <1>12 DEF OrchestratorStep

(* The steps of the other task and process publish, but never a dry run.   *)
LEMMA OthersKeepRejectInv ==
    ASSUME ProtocolInv, UNCHANGED <<agents, pc>>,
           NEW type \in EventType, NEW id \in Trades, NEW source \in Source,
           Publish(type, id, source), type # "simulation.passed"
    PROVE  RejectInv'
<1>1. SUFFICES ASSUME pc = "reject"
               PROVE  ~InStream("simulation.passed", cur)'
  BY DEF RejectInv
<1>2. /\ stream \in Seq(Entry) /\ agents \in Group
      /\ Holds(agents) /\ agents.last <= Len(stream) /\ ~InStream("simulation.passed", cur)
  BY <1>1 DEF ProtocolInv, AuditInv, TypeOK, CursorsInv, AgentsCursorInv,
     RedisTypeOK, OrchestratorTypeOK, RejectInv
<1>3. agents.next \in 1 .. Len(stream) /\ cur \in Trades
  BY <1>2, CurrentEntry DEF cur
<1>4. cur' = cur
  BY <1>2, <1>3, AppendEntry DEF cur, Current
<1>5. PICK c \in Trades : c = cur
  BY <1>3
<1>6. \A ty, t : InStream(ty, t)' <=> InStream(ty, t) \/ (ty = type /\ t = id)
  BY <1>2, PublishView
<1>7. ~InStream("simulation.passed", c)'
  BY <1>2, <1>5, <1>6
<1>8. QED
  BY <1>4, <1>5, <1>7 DEF InStream

LEMMA StrategyProtocol ==
    ASSUME ProtocolInv, StrategyStep, UNCHANGED <<agents, pc>>
    PROVE  [Protocol!Next]_Protocol!vars /\ RejectInv'
<1> USE DEF redisVars
<1>1. stream \in Seq(Entry) /\ CausesInv /\ RejectInv
  BY DEF ProtocolInv, AuditInv, TypeOK, RedisTypeOK
<1>2. CASE StartScan \/ EndScan
  <2>1. UNCHANGED stream
    BY <1>2 DEF StartScan, EndScan
  <2>2. QED
    BY <1>1, <2>1, SilentStep DEF RejectInv, InStream, cur, Current
<1>3. CASE Propose
  <2>1. PICK t \in Trades : ~InStream("trade.proposed", t) /\ Publish("trade.proposed", t, "agents")
    BY <1>3 DEF Propose
  <2>2. PhaseOf(t) = "new"
    BY <1>1, <2>1, NewPhase
  <2>3. Admits("trade.proposed", t, "agents")
    BY <2>2 DEF Admits, FillType
  <2>4. "trade.proposed" \in EventType /\ "agents" \in Source
    BY DEF EventType, Source
  <2>5. QED
    BY <1>1, <2>1, <2>3, <2>4, AdmittedStep, OthersKeepRejectInv
<1>4. QED
  BY <1>2, <1>3 DEF StrategyStep

LEMMA ExecutionProtocol ==
    ASSUME ProtocolInv, ExecStep \/ EHandlerError \/ ExecRestart, UNCHANGED <<agents, pc>>
    PROVE  [Protocol!Next]_Protocol!vars /\ RejectInv'
<1> USE DEF redisVars, EGoto
<1>1. /\ stream \in Seq(Entry) /\ agents \in Group /\ agents.next \in Nat
      /\ exec \in Group /\ ExecCursorInv /\ CausesInv /\ PublishedOnce /\ RejectInv
  BY DEF ProtocolInv, AuditInv, TypeOK, CursorsInv, RedisTypeOK, OrchestratorTypeOK, ExecTypeOK,
     Group
<1>2. CASE EFetch \/ EReserve \/ ERelease \/ EHandlerError \/ ExecRestart
  <2>1. UNCHANGED stream
    BY <1>2 DEF EFetch, EReserve, ERelease, EHandlerError, ExecRestart
  <2>2. QED
    BY <1>1, <2>1, SilentStep DEF RejectInv, InStream, cur, Current
<1>3. CASE EExecute
  <2>1. epc = "execute" /\ Holds(exec)
        /\ Publish(execFill', ecur, "execution") /\ execFill' \in FillType
    BY <1>1, <1>3 DEF EExecute, ExecCursorInv, Statuses, FillType
  <2>2. PICK type \in FillType : type = execFill'
    BY <2>1
  <2>3. /\ exec.next \in 1 .. Len(stream) /\ stream[exec.next].type = "trade.approved"
        /\ stream[exec.next].id = ecur
        /\ \A i \in 1 .. Len(stream) :
              ~(stream[i].id = ecur /\ stream[i].type \in FillType
                /\ stream[i].source = "execution")
    BY <1>1, <2>1, AtExecution
  <2>4. PhaseOf(ecur) = "approved"
    BY <1>1, <2>3, ApprovedPhase
  <2>5. ~FilledBy(ecur, "execution")
    BY <2>3 DEF FilledBy
  <2>6. Admits(type, ecur, "execution")
    BY <2>2, <2>4, <2>5 DEF Admits, FillType
  <2>7. ecur \in Trades
    BY <1>1, <2>1, CurrentEntry DEF ExecCursorInv, ecur
  <2>8. type \in EventType /\ "execution" \in Source /\ type # "simulation.passed"
    BY <2>2 DEF EventType, Source, FillType
  <2>9. QED
    BY <1>1, <2>1, <2>2, <2>6, <2>7, <2>8, AdmittedStep, OthersKeepRejectInv
<1>4. QED
  BY <1>2, <1>3 DEF ExecStep

-----------------------------------------------------------------------------
LEMMA ProtocolStep ==
    ASSUME ProtocolInv, [Next]_vars
    PROVE  ProtocolInv' /\ [Protocol!Next]_Protocol!vars
<1> USE DEF redisVars, breakerVars, orchestratorVars, execVars
<1>1. AuditInv' /\ RejectInv
  BY AuditStep DEF ProtocolInv
<1>2. CASE Strategy
  BY <1>1, <1>2, StrategyProtocol DEF Strategy, ProtocolInv
<1>3. CASE Orchestrate
  BY <1>1, <1>3, OrchestratorProtocol DEF Orchestrate, ProtocolInv
<1>4. CASE Execution \/ ExecutionError \/ ExecutionRestart
  BY <1>1, <1>4, ExecutionProtocol DEF Execution, ExecutionError, ExecutionRestart, ProtocolInv
<1>5. CASE OrchestratorError \/ AgentsRestart
  <2>1. UNCHANGED stream /\ pc' = "idle"
    BY <1>5 DEF OrchestratorError, AgentsRestart, HandlerError, OrchestratorRestart, Done, Goto
  <2>2. QED
    BY <1>1, <2>1, SilentStep DEF ProtocolInv, RejectInv
<1>6. CASE Monitor \/ TimePasses \/ MonitorFault \/ UNCHANGED vars
  <2>1. UNCHANGED <<stream, agents, pc>>
    BY <1>6 DEF Monitor, TimePasses, MonitorFault, vars
  <2>2. QED
    BY <1>1, <2>1, SilentStep DEF ProtocolInv, RejectInv, InStream, cur, Current
<1>7. QED
  BY <1>2, <1>3, <1>4, <1>5, <1>6 DEF Next

LEMMA ProtocolInit == ASSUME Init PROVE ProtocolInv /\ Protocol!Init
<1>1. stream = <<>> /\ pc = "idle"
  BY DEF Init, RedisInit, OrchestratorInit
<1>2. 1 .. Len(stream) = {}
  BY <1>1
<1>3. \A t : PhaseOf(t) = "new"
  BY <1>2 DEF PhaseOf, InStream
<1>4. \A t, x : ~FilledBy(t, x)
  BY <1>2 DEF FilledBy
<1>5. Protocol!Init
  BY <1>3, <1>4 DEF Protocol!Init
<1>6. QED
  BY <1>1, <1>5, AuditInit DEF ProtocolInv, RejectInv

(* The two processes, whatever fails, implement the protocol of the header *)
(* of graph.py: one phase at a time, never back, one verdict, at most one  *)
(* fill per executor and none without an approval.                         *)
THEOREM Implementation == Spec => ImplementsProtocol
<1>1. Init => ProtocolInv /\ Protocol!Init
  BY ProtocolInit
<1>2. ProtocolInv /\ [Next]_vars => ProtocolInv' /\ [Protocol!Next]_Protocol!vars
  BY ProtocolStep
<1>3. QED
  BY <1>1, <1>2, PTL DEF Spec, ImplementsProtocol, Protocol!Spec
=============================================================================
