-------------------------- MODULE AuditTrailProofs --------------------------
(***************************************************************************)
(* Proofs about the audit trail: what the two processes publish is in the  *)
(* order of the pipeline and free of duplicates, whatever fails.           *)
(***************************************************************************)
EXTENDS TradeLifecycleProofs

(* What is shown about the cursors in every step, and used below.          *)
CursorsForward ==
    /\ stream \in Seq(Entry) /\ Grows
    /\ agents \in Group /\ agents' \in Group /\ exec \in Group /\ exec' \in Group
    /\ agents.next <= agents'.next /\ exec.next <= exec'.next

(* A consumer that stays at its entry stays where it is with respect to    *)
(* what it has published about it.                                         *)
StagesKept ==
    /\ agents.next = agents'.next =>
         /\ pc \in {"approve", "reject"} => pc' \in {"approve", "reject"}
         /\ pc \in AfterFill => pc' \in AfterFill
    /\ exec.next = exec'.next => (epc = "release" => epc' = "release")

(* What is said of an old entry still holds, provided that no rejected     *)
(* trade is sized afterwards.                                              *)
LEMMA OldEntries ==
    ASSUME CursorsForward, StagesKept, NEW i \in 1 .. Len(stream), CausedBy(i),
           stream[i].type = "trade.rejected" =>
               \A j \in Len(stream) + 1 .. Len(stream') : ~Cause(i, j, "trade.sized")'
    PROVE  CausedBy(i)'
<1>1. /\ Len(stream) \in Nat /\ Len(stream') \in Nat /\ Len(stream) <= Len(stream')
      /\ i \in Nat /\ i \in 1 .. Len(stream')
      /\ \A k \in 1 .. Len(stream) : stream'[k] = stream[k]
      /\ agents.next \in Nat /\ agents'.next \in Nat /\ exec.next \in Nat /\ exec'.next \in Nat
      /\ agents.next <= agents'.next /\ exec.next <= exec'.next
  BY DEF CursorsForward, Grows, Group
<1>2. stream'[i] = stream[i]
  BY <1>1
<1>3. \A j \in 1 .. i - 1 : j \in Nat /\ j \in 1 .. Len(stream) /\ stream'[j] = stream[j]
  BY <1>1
<1>4. \A type : \A j \in 1 .. i - 1 : Cause(i, j, type) => Cause(i, j, type)'
  BY <1>2, <1>3 DEF Cause
<1>5. FromProposal(i)'
  BY <1>1, <1>2, <1>3, <1>4 DEF CausedBy, FromProposal
<1>6. SimulationFromSized(i)'
  BY <1>1, <1>2, <1>3, <1>4 DEF CausedBy, SimulationFromSized, StagesKept, Simulation
<1>7. ApprovalFromSized(i)'
  <2>1. Precedes("simulation.passed", i) => Precedes("simulation.passed", i)'
    BY <1>2, <1>3 DEF Precedes
  <2>2. QED
    BY <1>1, <1>2, <1>3, <1>4, <2>1 DEF CausedBy, ApprovalFromSized
<1>8. AgentsFillFromApproval(i)'
  BY <1>1, <1>2, <1>3, <1>4 DEF CausedBy, AgentsFillFromApproval, StagesKept
<1>9. ExecFillFromApproval(i)'
  BY <1>1, <1>2, <1>3, <1>4 DEF CausedBy, ExecFillFromApproval, StagesKept
<1>10. RejectionEndsSized(i)'
  <2>1. SUFFICES ASSUME stream[i].type = "trade.rejected",
                        NEW j \in 1 .. Len(stream'), Cause(i, j, "trade.sized")'
                 PROVE  j < agents'.next
    BY <1>2 DEF RejectionEndsSized
  <2>2. j \in 1 .. Len(stream)
    BY <1>1, <2>1
  <2>3. Cause(i, j, "trade.sized")
    BY <1>1, <1>2, <2>1, <2>2 DEF Cause
  <2>4. QED
    BY <1>1, <2>1, <2>2, <2>3 DEF CausedBy, RejectionEndsSized
<1>11. QED
  BY <1>2, <1>5, <1>6, <1>7, <1>8, <1>9, <1>10 DEF CausedBy

(* A step of no publisher.                                                 *)
LEMMA QuietStep ==
    ASSUME CursorsForward, StagesKept, CausesInv, PublishedOnce, UNCHANGED stream,
           pc' = "approve" => pc = "approve" /\ UNCHANGED agents
    PROVE  CausesInv' /\ PublishedOnce'
<1>1. Len(stream) \in Nat /\ Len(stream') = Len(stream)
  BY DEF CursorsForward
<1>2. ASSUME NEW i \in 1 .. Len(stream)
      PROVE  CausedBy(i)'
  BY <1>1, OldEntries DEF CausesInv
<1>3. pc' = "approve" => InStream("simulation.passed", cur)'
  BY DEF CausesInv, InStream, cur, Current
<1>4. PublishedOnce'
  BY DEF PublishedOnce
<1>5. QED
  BY <1>1, <1>2, <1>3, <1>4 DEF CausesInv

(* A step that publishes, when the new entry has its causes, its step of   *)
(* the trade was not taken before, and no rejected trade is sized.         *)
LEMMA PublishStep ==
    ASSUME CursorsForward, StagesKept, CausesInv, PublishedOnce,
           NEW type \in EventType, NEW id \in Trades, NEW source \in Source,
           Publish(type, id, source),
           \A i \in 1 .. Len(stream) :
               ~SameStep(stream[i], [type |-> type, id |-> id, source |-> source]),
           type = "trade.sized" => ~InStream("trade.rejected", id),
           NEW n \in Nat, n = Len(stream) + 1, CausedBy(n)',
           pc' = "approve" => InStream("simulation.passed", cur)'
    PROVE  CausesInv' /\ PublishedOnce'
<1> DEFINE e == [type |-> type, id |-> id, source |-> source]
<1>1. /\ Len(stream) \in Nat /\ Len(stream') = n
      /\ \A i \in 1 .. Len(stream) : stream'[i] = stream[i]
      /\ stream'[n] = e
  BY AppendEntry DEF CursorsForward
<1>2. \A i \in 1 .. n : i \in 1 .. Len(stream) \/ i = n
  BY <1>1
<1>3. ASSUME NEW i \in 1 .. Len(stream)
      PROVE  CausedBy(i)'
  <2>1. SUFFICES ASSUME stream[i].type = "trade.rejected",
                        NEW j \in Len(stream) + 1 .. Len(stream'), Cause(i, j, "trade.sized")'
                 PROVE  FALSE
    BY <1>3, OldEntries DEF CausesInv
  <2>2. j = n
    BY <1>1
  <2>3. type = "trade.sized" /\ id = stream[i].id
    BY <1>1, <2>1, <2>2 DEF Cause
  <2>4. QED
    BY <2>1, <2>3 DEF InStream
<1>4. CausesInv'
  BY <1>1, <1>2, <1>3 DEF CausesInv
<1>5. ASSUME NEW i \in 1 .. n, NEW j \in 1 .. n, SameStep(stream'[i], stream'[j])
      PROVE  i = j
  <2>1. CASE i \in 1 .. Len(stream) /\ j \in 1 .. Len(stream)
    BY <1>1, <1>5, <2>1 DEF PublishedOnce
  <2>2. CASE i \in 1 .. Len(stream) /\ j = n
    BY <1>1, <1>5, <2>2
  <2>3. CASE i = n /\ j \in 1 .. Len(stream)
    <3>1. SameStep(stream[j], e)
      BY <1>1, <1>5, <2>3 DEF SameStep
    <3>2. QED
      BY <2>3, <3>1
  <2>4. QED
    BY <1>2, <2>1, <2>2, <2>3
<1>6. PublishedOnce'
  BY <1>1, <1>5 DEF PublishedOnce
<1>7. QED
  BY <1>4, <1>6

(* What the new entry needs, in terms of the entries before it.            *)
LEMMA NewEntry ==
    ASSUME CursorsForward,
           NEW type \in EventType, NEW id \in Trades, NEW source \in Source,
           Publish(type, id, source),
           type \notin FillType => source = "agents",
           type # "trade.proposed" => \E j \in 1 .. Len(stream) :
               stream[j].type = "trade.proposed" /\ stream[j].id = id /\ j < agents'.next,
           type \in Simulation => \E j \in 1 .. Len(stream) :
               /\ stream[j].type = "trade.sized" /\ stream[j].id = id
               /\ j = agents'.next /\ pc' \in {"approve", "reject"},
           type = "trade.approved" =>
               /\ InStream("simulation.passed", id)
               /\ \E j \in 1 .. Len(stream) :
                     stream[j].type = "trade.sized" /\ stream[j].id = id /\ j < agents'.next,
           type \in FillType => \E j \in 1 .. Len(stream) :
               /\ stream[j].type = "trade.approved" /\ stream[j].id = id
               /\ \/ source = "agents" /\ j = agents'.next /\ pc' \in AfterFill
                  \/ source = "execution" /\ j = exec'.next /\ epc' = "release",
           type = "trade.rejected" => \A j \in 1 .. Len(stream) :
               stream[j].type = "trade.sized" /\ stream[j].id = id => j < agents'.next,
           NEW n \in Nat, n = Len(stream) + 1
    PROVE  CausedBy(n)'
<1>1. /\ Len(stream) \in Nat /\ Len(stream)' = n
      /\ \A i \in 1 .. Len(stream) : stream'[i] = stream[i]
      /\ stream'[n] = [type |-> type, id |-> id, source |-> source]
  BY AppendEntry DEF CursorsForward
<1>2. n - 1 = Len(stream)
  BY <1>1
<1>3. FromProposal(n)'
  BY <1>1, <1>2 DEF FromProposal, Cause
<1>4. SimulationFromSized(n)'
  BY <1>1, <1>2 DEF SimulationFromSized, Cause, Simulation
<1>5. ApprovalFromSized(n)'
  BY <1>1, <1>2 DEF ApprovalFromSized, Cause, InStream, Precedes
<1>6. AgentsFillFromApproval(n)' /\ ExecFillFromApproval(n)'
  BY <1>1, <1>2 DEF AgentsFillFromApproval, ExecFillFromApproval, Cause
<1>7. RejectionEndsSized(n)'
  <2>1. SUFFICES ASSUME type = "trade.rejected", NEW j \in 1 .. n, Cause(n, j, "trade.sized")'
                 PROVE  j < agents'.next
    BY <1>1 DEF RejectionEndsSized
  <2>2. j \in 1 .. Len(stream) \/ j = n
    BY <1>1, <1>2
  <2>3. j # n
    BY <1>1, <2>1 DEF Cause
  <2>4. QED
    BY <1>1, <2>1, <2>2, <2>3 DEF Cause
<1>8. QED
  BY <1>1, <1>3, <1>4, <1>5, <1>6, <1>7 DEF CausedBy

-----------------------------------------------------------------------------
(* What a consumer may conclude about the trade of the entry it is at.     *)

(* Except for fills, which two processes publish, an entry is unique.      *)
LEMMA UniqueEntry ==
    ASSUME CausesInv, PublishedOnce, NEW i \in 1 .. Len(stream), NEW j \in 1 .. Len(stream),
           stream[i].id = stream[j].id, stream[i].type = stream[j].type,
           stream[i].type \notin FillType
    PROVE  i = j
<1>1. stream[i].source = stream[j].source
  BY DEF CausesInv, CausedBy
<1>2. QED
  BY <1>1 DEF PublishedOnce, SameStep

(* Nothing has been published yet about a proposal that is being gated.    *)
LEMMA AtProposal ==
    ASSUME stream \in Seq(Entry), agents \in Group, AgentsCursorInv, CausesInv, PublishedOnce,
           Holds(agents), Current(agents).type = "trade.proposed",
           NEW i \in 1 .. Len(stream), stream[i].id = cur
    PROVE  i = agents.next
<1>1. agents.next \in 1 .. Len(stream) /\ stream[agents.next].type = "trade.proposed"
      /\ stream[agents.next].id = cur
  BY CurrentEntry DEF AgentsCursorInv, Current, cur
<1>2. CASE stream[i].type = "trade.proposed"
  BY <1>1, <1>2, UniqueEntry DEF FillType
<1>3. CASE stream[i].type # "trade.proposed"
  <2>1. PICK j \in 1 .. i - 1 : Cause(i, j, "trade.proposed") /\ j < agents.next
    BY <1>3 DEF CausesInv, CausedBy, FromProposal
  <2>2. j \in 1 .. Len(stream)
    BY <2>1
  <2>3. j = agents.next
    BY <1>1, <2>1, <2>2, UniqueEntry DEF Cause, FillType
  <2>4. QED
    BY <1>1, <2>1, <2>3
<1>4. QED
  BY <1>2, <1>3

(* A sized trade that is being simulated has no verdict yet, and a dry run *)
(* only once handle() is past it.                                          *)
LEMMA AtSized ==
    ASSUME stream \in Seq(Entry), agents \in Group, AgentsCursorInv, CausesInv, PublishedOnce,
           Holds(agents), Current(agents).type = "trade.sized"
    PROVE  /\ agents.next \in 1 .. Len(stream) /\ stream[agents.next].type = "trade.sized"
           /\ stream[agents.next].id = cur
           /\ \E j \in 1 .. Len(stream) : /\ stream[j].type = "trade.proposed"
                                          /\ stream[j].id = cur /\ j < agents.next
           /\ \A i \in 1 .. Len(stream) : stream[i].id = cur =>
                 /\ stream[i].type \notin Verdict
                 /\ stream[i].type \in Simulation => pc \in {"approve", "reject"}
<1>1. agents.next \in 1 .. Len(stream) /\ stream[agents.next].type = "trade.sized"
      /\ stream[agents.next].id = cur
  BY CurrentEntry DEF AgentsCursorInv, Current, cur
<1>2. PICK j \in 1 .. agents.next - 1 : Cause(agents.next, j, "trade.proposed") /\ j < agents.next
  BY <1>1 DEF CausesInv, CausedBy, FromProposal
<1>3. j \in 1 .. Len(stream)
  BY <1>1, <1>2
<1>4. ASSUME NEW k \in 1 .. Len(stream), stream[k].id = cur, stream[k].type = "trade.sized"
      PROVE  k = agents.next
  BY <1>1, <1>4, UniqueEntry DEF FillType
<1>5. ASSUME NEW i \in 1 .. Len(stream), stream[i].id = cur
      PROVE  /\ stream[i].type \notin Verdict
             /\ stream[i].type \in Simulation => pc \in {"approve", "reject"}
  <2>1. \A k \in 1 .. i - 1 : k \in 1 .. Len(stream)
    OBVIOUS
  <2>2. stream[i].type # "trade.approved"
    <3>1. SUFFICES ASSUME stream[i].type = "trade.approved" PROVE FALSE
      OBVIOUS
    <3>2. PICK k \in 1 .. i - 1 : Cause(i, k, "trade.sized") /\ k < agents.next
      BY <3>1 DEF CausesInv, CausedBy, ApprovalFromSized
    <3>3. QED
      BY <1>1, <1>4, <1>5, <2>1, <3>2 DEF Cause
  <2>3. stream[i].type # "trade.rejected"
    BY <1>1, <1>5 DEF CausesInv, CausedBy, RejectionEndsSized, Cause
  <2>4. ASSUME stream[i].type \in Simulation
        PROVE  pc \in {"approve", "reject"}
    <3>1. PICK k \in 1 .. i - 1 :
              /\ Cause(i, k, "trade.sized")
              /\ k < agents.next \/ (k = agents.next /\ pc \in {"approve", "reject"})
      BY <2>4 DEF CausesInv, CausedBy, SimulationFromSized
    <3>2. QED
      BY <1>1, <1>4, <1>5, <2>1, <3>1 DEF Cause
  <2>5. QED
    BY <2>2, <2>3, <2>4 DEF Verdict
<1>6. QED
  BY <1>1, <1>2, <1>3, <1>5 DEF Cause

(* An approved trade that is being executed has no fill of this process    *)
(* before handle() is past execute().                                      *)
LEMMA AtApproved ==
    ASSUME stream \in Seq(Entry), agents \in Group, AgentsCursorInv, CausesInv, PublishedOnce,
           Holds(agents), Current(agents).type = "trade.approved"
    PROVE  /\ agents.next \in 1 .. Len(stream) /\ stream[agents.next].type = "trade.approved"
           /\ stream[agents.next].id = cur
           /\ \E j \in 1 .. Len(stream) : /\ stream[j].type = "trade.proposed"
                                          /\ stream[j].id = cur /\ j < agents.next
           /\ \A i \in 1 .. Len(stream) :
                 stream[i].id = cur /\ stream[i].type \in FillType /\ stream[i].source = "agents"
                     => pc \in AfterFill
<1>1. agents.next \in 1 .. Len(stream) /\ stream[agents.next].type = "trade.approved"
      /\ stream[agents.next].id = cur
  BY CurrentEntry DEF AgentsCursorInv, Current, cur
<1>2. PICK j \in 1 .. agents.next - 1 : Cause(agents.next, j, "trade.proposed") /\ j < agents.next
  BY <1>1 DEF CausesInv, CausedBy, FromProposal
<1>3. j \in 1 .. Len(stream)
  BY <1>1, <1>2
<1>4. ASSUME NEW i \in 1 .. Len(stream), stream[i].id = cur,
             stream[i].type \in FillType, stream[i].source = "agents"
      PROVE  pc \in AfterFill
  <2>1. PICK k \in 1 .. i - 1 :
            /\ Cause(i, k, "trade.approved")
            /\ k < agents.next \/ (k = agents.next /\ pc \in AfterFill)
    BY <1>4 DEF CausesInv, CausedBy, AgentsFillFromApproval
  <2>2. k \in 1 .. Len(stream)
    BY <2>1
  <2>3. k = agents.next
    BY <1>1, <1>4, <2>1, <2>2, UniqueEntry DEF Cause, FillType
  <2>4. QED
    BY <1>1, <2>1, <2>3
<1>5. QED
  BY <1>1, <1>2, <1>3, <1>4 DEF Cause

LEMMA AtExecution ==
    ASSUME stream \in Seq(Entry), exec \in Group, ExecCursorInv, CausesInv, PublishedOnce,
           agents.next \in Nat, Holds(exec)
    PROVE  /\ exec.next \in 1 .. Len(stream) /\ stream[exec.next].type = "trade.approved"
           /\ stream[exec.next].id = ecur
           /\ \E j \in 1 .. Len(stream) : /\ stream[j].type = "trade.proposed"
                                          /\ stream[j].id = ecur /\ j < agents.next
           /\ \A i \in 1 .. Len(stream) :
                 stream[i].id = ecur /\ stream[i].type \in FillType /\ stream[i].source = "execution"
                     => epc = "release"
<1>1. exec.next \in 1 .. Len(stream) /\ stream[exec.next].type = "trade.approved"
      /\ stream[exec.next].id = ecur
  BY CurrentEntry DEF ExecCursorInv, Current, ecur
<1>2. PICK j \in 1 .. exec.next - 1 : Cause(exec.next, j, "trade.proposed") /\ j < agents.next
  BY <1>1 DEF CausesInv, CausedBy, FromProposal
<1>3. j \in 1 .. Len(stream)
  BY <1>1, <1>2
<1>4. ASSUME NEW i \in 1 .. Len(stream), stream[i].id = ecur,
             stream[i].type \in FillType, stream[i].source = "execution"
      PROVE  epc = "release"
  <2>1. PICK k \in 1 .. i - 1 :
            /\ Cause(i, k, "trade.approved")
            /\ k < exec.next \/ (k = exec.next /\ epc = "release")
    BY <1>4 DEF CausesInv, CausedBy, ExecFillFromApproval
  <2>2. k \in 1 .. Len(stream)
    BY <2>1
  <2>3. k = exec.next
    BY <1>1, <1>4, <2>1, <2>2, UniqueEntry DEF Cause, FillType
  <2>4. QED
    BY <1>1, <2>1, <2>3
<1>5. QED
  BY <1>1, <1>2, <1>3, <1>4 DEF Cause

-----------------------------------------------------------------------------
(* No step of the orchestrator breaks the audit trail.                     *)
LEMMA OrchestratorAudit ==
    ASSUME AuditInv, OrchestratorStep, UNCHANGED <<exec, epc>>
    PROVE  CausesInv' /\ PublishedOnce'
<1> USE DEF Goto, redisVars, memoryVars
<1>1. /\ stream \in Seq(Entry) /\ Len(stream) \in Nat
      /\ agents \in Group /\ agents.next \in Nat /\ exec \in Group /\ exec.next \in Nat
      /\ AgentsCursorInv /\ ExecCursorInv /\ CausesInv /\ PublishedOnce /\ TypeOK
  BY DEF AuditInv, TypeOK, CursorsInv, RedisTypeOK, OrchestratorTypeOK, ExecTypeOK, Group
<1>2. CursorsForward /\ Grows /\ agents' \in Group /\ agents'.next \in Nat
  <2>1. /\ OrchestratorTypeOK' /\ Grows /\ agents.next <= agents'.next
    BY <1>1, OrchestratorTypes
  <2>2. QED
    BY <1>1, <2>1 DEF OrchestratorTypeOK, CursorsForward, Group
<1>3. ASSUME agents.next < agents'.next
      PROVE  StagesKept
  BY <1>1, <1>2, <1>3 DEF StagesKept
<1>4. ASSUME pc \notin {"approve", "reject"}, pc \in AfterFill => pc' \in AfterFill
      PROVE  StagesKept
  BY <1>4 DEF StagesKept
<1>5. ASSUME Holds(agents), Done
      PROVE  agents.next < agents'.next /\ pc' = "idle"
  BY <1>1, <1>2, <1>5, DoneMovesCursor
<1>6. pc # "idle" => Holds(agents)
  BY <1>1 DEF AgentsCursorInv
<1>7. Holds(agents) => cur \in Trades /\ agents.next \in 1 .. Len(stream)
  BY <1>1, CurrentEntry DEF AgentsCursorInv, cur
<1>8. PICK n \in Nat : n = Len(stream) + 1
  BY <1>1
<1>9. CASE \/ Fetch \/ OnProposed \/ OnSized \/ OnApproved \/ Gate \/ TripDrawdown
           \/ Reserve \/ AccountFill \/ TripFailures \/ ClearStreak \/ Book
  <2>1. /\ UNCHANGED stream /\ pc' # "approve"
        /\ pc \notin {"approve", "reject"}
        /\ pc \in AfterFill => pc' \in AfterFill
    BY <1>9 DEF Fetch, OnProposed, OnSized, OnApproved, Gate, TripDrawdown,
       Reserve, AccountFill, TripFailures, ClearStreak, Book, AfterFill
  <2>2. StagesKept
    BY <1>4, <2>1
  <2>3. QED
    BY <1>1, <1>2, <2>1, <2>2, QuietStep
<1>10. CASE Release
  <2>1. UNCHANGED stream /\ agents.next < agents'.next /\ pc' = "idle"
    BY <1>5, <1>6, <1>10 DEF Release
  <2>2. QED
    BY <1>1, <1>2, <1>3, <2>1, QuietStep
<1>11. CASE GateLimits
  <2>1. pc = "limits" /\ Holds(agents) /\ Current(agents).type = "trade.proposed"
    BY <1>1, <1>6, <1>11 DEF GateLimits, AgentsCursorInv, GatePc
  <2>2. CASE pc' = "reject" /\ UNCHANGED <<stream, agents>>
    <3>1. StagesKept
      BY <1>4, <2>1, <2>2 DEF AfterFill
    <3>2. QED
      BY <1>1, <1>2, <2>2, <3>1, QuietStep
  <2>3. CASE Publish("trade.sized", cur, "agents") /\ Done
    <3>1. agents.next < agents'.next /\ pc' = "idle" /\ StagesKept
      BY <1>3, <1>5, <2>1, <2>3
    <3>2. \A i \in 1 .. Len(stream) : stream[i].id = cur => i = agents.next
      BY <1>1, <2>1, AtProposal
    <3>3. stream[agents.next].type = "trade.proposed" /\ stream[agents.next].id = cur
      BY <2>1 DEF Current, cur
    <3>4. \A i \in 1 .. Len(stream) :
              ~SameStep(stream[i], [type |-> "trade.sized", id |-> cur, source |-> "agents"])
      BY <3>2, <3>3 DEF SameStep, FillType, Simulation, Verdict
    <3>5. ~InStream("trade.rejected", cur)
      BY <3>2, <3>3 DEF InStream
    <3>6. "trade.sized" \in EventType /\ "agents" \in Source
      BY DEF EventType, Source
    <3>7. CausedBy(n)'
      BY <1>2, <1>7, <1>8, <2>1, <2>3, <3>1, <3>3, <3>6, NewEntry DEF Simulation, FillType
    <3>8. QED
      BY <1>1, <1>2, <1>7, <1>8, <2>1, <2>3, <3>1, <3>4, <3>5, <3>6, <3>7, PublishStep
  <2>4. QED
    BY <1>11, <2>2, <2>3 DEF GateLimits
<1>12. CASE Reject
  <2>1. pc = "reject" /\ Holds(agents) /\ Publish("trade.rejected", cur, "agents")
        /\ Current(agents).type \in {"trade.proposed", "trade.sized"}
    BY <1>1, <1>6, <1>12 DEF Reject, AgentsCursorInv
  <2>2. agents.next < agents'.next /\ pc' = "idle" /\ StagesKept
    BY <1>3, <1>5, <1>12, <2>1 DEF Reject
  <2>3. /\ stream[agents.next].type \in {"trade.proposed", "trade.sized"}
        /\ stream[agents.next].id = cur
    BY <2>1 DEF Current, cur
  <2>4. /\ \A i \in 1 .. Len(stream) : stream[i].id = cur => stream[i].type \notin Verdict
        /\ \E j \in 1 .. Len(stream) : /\ stream[j].type = "trade.proposed"
                                       /\ stream[j].id = cur /\ j < agents'.next
        /\ \A j \in 1 .. Len(stream) :
               stream[j].type = "trade.sized" /\ stream[j].id = cur => j < agents'.next
    <3>1. CASE Current(agents).type = "trade.proposed"
      <4>1. \A i \in 1 .. Len(stream) : stream[i].id = cur => i = agents.next
        BY <1>1, <2>1, <3>1, AtProposal
      <4>2. stream[agents.next].type = "trade.proposed"
        BY <3>1 DEF Current
      <4>3. QED
        BY <1>1, <1>2, <1>7, <2>1, <2>2, <2>3, <4>1, <4>2 DEF Verdict
    <3>2. CASE Current(agents).type = "trade.sized"
      <4>1. /\ stream[agents.next].type = "trade.sized"
            /\ \E j \in 1 .. Len(stream) : /\ stream[j].type = "trade.proposed"
                                           /\ stream[j].id = cur /\ j < agents.next
            /\ \A i \in 1 .. Len(stream) : stream[i].id = cur => stream[i].type \notin Verdict
        BY <1>1, <2>1, <3>2, AtSized
      <4>2. \A j \in 1 .. Len(stream) :
                stream[j].type = "trade.sized" /\ stream[j].id = cur => j = agents.next
        BY <1>1, <1>7, <2>1, <2>3, <4>1, UniqueEntry DEF FillType
      <4>3. QED
        BY <1>1, <1>2, <2>2, <4>1, <4>2
    <3>3. QED
      BY <2>1, <3>1, <3>2
  <2>5. \A i \in 1 .. Len(stream) :
            ~SameStep(stream[i], [type |-> "trade.rejected", id |-> cur, source |-> "agents"])
    BY <2>4 DEF SameStep, FillType, Simulation, Verdict
  <2>6. "trade.rejected" \in EventType /\ "agents" \in Source
    BY DEF EventType, Source
  <2>7. CausedBy(n)'
    BY <1>2, <1>7, <1>8, <2>1, <2>2, <2>4, <2>6, NewEntry DEF Simulation, FillType
  <2>8. QED
    BY <1>1, <1>2, <1>7, <1>8, <2>1, <2>2, <2>5, <2>6, <2>7, PublishStep
<1>13. CASE Simulate
  <2>1. pc = "simulate" /\ Holds(agents) /\ Current(agents).type = "trade.sized"
        /\ UNCHANGED agents
    BY <1>1, <1>6, <1>13 DEF Simulate, AgentsCursorInv, SimPc
  <2>2. PICK type \in Simulation :
            /\ Publish(type, cur, "agents")
            /\ pc' \in {"approve", "reject"}
            /\ pc' = "approve" => type = "simulation.passed"
    BY <1>13 DEF Simulate, Simulation
  <2>3. StagesKept
    BY <1>4, <2>1 DEF AfterFill
  <2>4. /\ stream[agents.next].type = "trade.sized" /\ stream[agents.next].id = cur
        /\ \E j \in 1 .. Len(stream) : /\ stream[j].type = "trade.proposed"
                                       /\ stream[j].id = cur /\ j < agents.next
        /\ \A i \in 1 .. Len(stream) : stream[i].id = cur => stream[i].type \notin Simulation
    BY <1>1, <2>1, AtSized
  <2>5. \A i \in 1 .. Len(stream) :
            ~SameStep(stream[i], [type |-> type, id |-> cur, source |-> "agents"])
    BY <2>2, <2>4 DEF SameStep, FillType, Simulation, Verdict
  <2>6. /\ type \in EventType /\ "agents" \in Source /\ type \notin FillType
        /\ type \notin {"trade.proposed", "trade.sized", "trade.approved", "trade.rejected"}
    BY <2>2 DEF EventType, Source, Simulation, FillType
  <2>7. CausedBy(n)'
    BY <1>2, <1>7, <1>8, <2>1, <2>2, <2>4, <2>6, NewEntry
  <2>8. ASSUME pc' = "approve"
        PROVE  InStream("simulation.passed", cur)'
    <3>1. /\ stream'[n] = [type |-> type, id |-> cur, source |-> "agents"]
          /\ n \in 1 .. Len(stream')
          /\ stream'[agents.next] = stream[agents.next]
      BY <1>1, <1>7, <1>8, <2>1, <2>2, <2>6, AppendEntry
    <3>2. cur' = cur
      BY <2>1, <3>1 DEF cur, Current
    <3>3. QED
      BY <2>2, <2>8, <3>1, <3>2 DEF InStream
  <2>9. QED
    BY <1>1, <1>2, <1>7, <1>8, <2>1, <2>2, <2>3, <2>5, <2>6, <2>7, <2>8, PublishStep
<1>14. CASE Approve
  <2>1. pc = "approve" /\ Holds(agents) /\ Current(agents).type = "trade.sized"
        /\ Publish("trade.approved", cur, "agents")
    BY <1>1, <1>6, <1>14 DEF Approve, AgentsCursorInv, SimPc
  <2>2. agents.next < agents'.next /\ pc' = "idle" /\ StagesKept
    BY <1>3, <1>5, <1>14, <2>1 DEF Approve
  <2>3. /\ stream[agents.next].type = "trade.sized" /\ stream[agents.next].id = cur
        /\ \E j \in 1 .. Len(stream) : /\ stream[j].type = "trade.proposed"
                                       /\ stream[j].id = cur /\ j < agents.next
        /\ \A i \in 1 .. Len(stream) : stream[i].id = cur => stream[i].type \notin Verdict
    BY <1>1, <2>1, AtSized
  <2>4. \A i \in 1 .. Len(stream) :
            ~SameStep(stream[i], [type |-> "trade.approved", id |-> cur, source |-> "agents"])
    BY <2>3 DEF SameStep, FillType, Simulation, Verdict
  <2>5. "trade.approved" \in EventType /\ "agents" \in Source
    BY DEF EventType, Source
  <2>6. InStream("simulation.passed", cur)
    BY <1>1, <2>1 DEF CausesInv
  <2>7. \E j \in 1 .. Len(stream) : /\ stream[j].type = "trade.proposed"
                                    /\ stream[j].id = cur /\ j < agents'.next
    BY <1>1, <1>2, <2>2, <2>3
  <2>8. CausedBy(n)'
    BY <1>2, <1>7, <1>8, <2>1, <2>2, <2>3, <2>5, <2>6, <2>7, NewEntry DEF Simulation, FillType
  <2>9. QED
    BY <1>1, <1>2, <1>7, <1>8, <2>1, <2>2, <2>4, <2>5, <2>8, PublishStep
<1>15. CASE Execute
  <2>1. pc = "execute" /\ Holds(agents) /\ Current(agents).type = "trade.approved"
        /\ UNCHANGED agents /\ pc' = "account" /\ pc' \in AfterFill
        /\ Publish(fill', cur, "agents")
    BY <1>1, <1>6, <1>15 DEF Execute, AgentsCursorInv, FillPc, AfterFill
  <2>2. fill' \in FillType
    BY <1>15 DEF Execute, FillType
  <2>3. PICK type \in FillType : type = fill'
    BY <2>2
  <2>4. StagesKept /\ pc \notin AfterFill
    BY <1>4, <2>1 DEF AfterFill
  <2>5. /\ stream[agents.next].type = "trade.approved" /\ stream[agents.next].id = cur
        /\ \E j \in 1 .. Len(stream) : /\ stream[j].type = "trade.proposed"
                                       /\ stream[j].id = cur /\ j < agents.next
        /\ \A i \in 1 .. Len(stream) :
              ~(stream[i].id = cur /\ stream[i].type \in FillType /\ stream[i].source = "agents")
    BY <1>1, <2>1, <2>4, AtApproved
  <2>6. \A i \in 1 .. Len(stream) :
            ~SameStep(stream[i], [type |-> type, id |-> cur, source |-> "agents"])
    BY <2>3, <2>5 DEF SameStep, FillType, Simulation, Verdict
  <2>7. /\ type \in EventType /\ "agents" \in Source
        /\ type \notin {"trade.proposed", "trade.sized", "trade.approved", "trade.rejected"}
        /\ type \notin Simulation
    BY <2>3 DEF EventType, Source, Simulation, FillType
  <2>8. CausedBy(n)'
    BY <1>2, <1>7, <1>8, <2>1, <2>3, <2>5, <2>7, NewEntry
  <2>9. QED
    BY <1>1, <1>2, <1>7, <1>8, <2>1, <2>3, <2>4, <2>6, <2>7, <2>8, PublishStep
<1>16. QED
  BY <1>9, <1>10, <1>11, <1>12, <1>13, <1>14, <1>15 DEF OrchestratorStep

(* Nor does an error of its handler, or a restart of the agents process.   *)
LEMMA OrchestratorFaultAudit ==
    ASSUME AuditInv, HandlerError \/ OrchestratorRestart, UNCHANGED <<exec, epc>>
    PROVE  CausesInv' /\ PublishedOnce'
<1> USE DEF redisVars
<1>1. /\ stream \in Seq(Entry) /\ agents \in Group /\ agents.next \in Nat /\ agents.last \in Nat
      /\ exec \in Group
      /\ AgentsCursorInv /\ CausesInv /\ PublishedOnce /\ TypeOK
  BY DEF AuditInv, TypeOK, CursorsInv, RedisTypeOK, OrchestratorTypeOK, ExecTypeOK, Group
<1>2. /\ OrchestratorTypeOK' /\ Grows /\ agents.next <= agents'.next
  BY <1>1, OrchestratorFaultTypes
<1>3. CursorsForward /\ agents'.next \in Nat
  BY <1>1, <1>2 DEF OrchestratorTypeOK, CursorsForward, Group
<1>4. UNCHANGED stream /\ pc' = "idle"
  BY DEF HandlerError, OrchestratorRestart, Done, Goto
<1>5. pc # "idle" => agents.next < agents'.next
  <2>1. SUFFICES ASSUME pc # "idle", Holds(agents)
                 PROVE  agents.next < agents'.next
    BY <1>1 DEF AgentsCursorInv
  <2>2. CASE HandlerError
    BY <1>1, <1>2, <2>1, <2>2, DoneMovesCursor DEF HandlerError
  <2>3. CASE OrchestratorRestart
    BY <1>1, <2>1, <2>3 DEF OrchestratorRestart, Restarted, Group, Holds
  <2>4. QED
    BY <2>2, <2>3
<1>6. StagesKept
  BY <1>1, <1>3, <1>5 DEF StagesKept, AfterFill
<1>7. QED
  BY <1>1, <1>3, <1>4, <1>6, QuietStep

(* Nor does the execution service, whatever it does.                       *)
LEMMA ExecutionAudit ==
    ASSUME AuditInv, ExecStep \/ EHandlerError \/ ExecRestart, UNCHANGED <<agents, pc>>
    PROVE  CausesInv' /\ PublishedOnce'
<1> USE DEF redisVars, EGoto
<1>1. /\ stream \in Seq(Entry) /\ Len(stream) \in Nat
      /\ agents \in Group /\ agents.next \in Nat
      /\ exec \in Group /\ exec.next \in Nat /\ exec.last \in Nat
      /\ ExecCursorInv /\ CausesInv /\ PublishedOnce /\ TypeOK
  BY DEF AuditInv, TypeOK, CursorsInv, RedisTypeOK, OrchestratorTypeOK, ExecTypeOK, Group
<1>2. ExecTypeOK' /\ Grows /\ exec.next <= exec'.next
  BY <1>1, ExecTypes
<1>3. CursorsForward /\ exec'.next \in Nat
  BY <1>1, <1>2 DEF ExecTypeOK, CursorsForward, Group
<1>4. epc # "idle" => Holds(exec)
  BY <1>1 DEF ExecCursorInv
<1>5. ASSUME epc = "release" => exec.next < exec'.next
      PROVE  StagesKept
  BY <1>1, <1>3, <1>5 DEF StagesKept
<1>6. CASE EFetch \/ EReserve
  <2>1. UNCHANGED stream /\ epc # "release"
    BY <1>6 DEF EFetch, EReserve
  <2>2. QED
    BY <1>1, <1>3, <1>5, <2>1, QuietStep
<1>7. CASE ERelease \/ EHandlerError
  <2>1. UNCHANGED stream /\ Holds(exec) /\ EDone
    BY <1>4, <1>7 DEF ERelease, EHandlerError
  <2>2. exec.next < exec'.next
    BY <1>1, <1>2, <2>1, EDoneMovesCursor
  <2>3. QED
    BY <1>1, <1>3, <1>5, <2>1, <2>2, QuietStep
<1>8. CASE ExecRestart
  <2>1. UNCHANGED stream /\ Holds(exec) /\ exec' = [exec EXCEPT !.next = exec.last + 1]
    BY <1>8 DEF ExecRestart, Restarted
  <2>2. exec.next < exec'.next
    BY <1>1, <2>1 DEF Holds, Group
  <2>3. QED
    BY <1>1, <1>3, <1>5, <2>1, <2>2, QuietStep
<1>9. CASE EExecute
  <2>1. epc = "execute" /\ Holds(exec) /\ epc' = "release" /\ UNCHANGED exec
        /\ Publish(execFill', ecur, "execution") /\ execFill' \in FillType
    BY <1>4, <1>9 DEF EExecute, Statuses, FillType
  <2>2. PICK type \in FillType : type = execFill'
    BY <2>1
  <2>3. PICK n \in Nat : n = Len(stream) + 1
    BY <1>1
  <2>4. StagesKept
    BY <1>5, <2>1
  <2>5. ecur \in Trades
    BY <1>1, <2>1, CurrentEntry DEF ExecCursorInv, ecur
  <2>6. /\ exec.next \in 1 .. Len(stream)
        /\ stream[exec.next].type = "trade.approved" /\ stream[exec.next].id = ecur
        /\ \E j \in 1 .. Len(stream) : /\ stream[j].type = "trade.proposed"
                                       /\ stream[j].id = ecur /\ j < agents.next
        /\ \A i \in 1 .. Len(stream) :
              ~(stream[i].id = ecur /\ stream[i].type \in FillType
                /\ stream[i].source = "execution")
    BY <1>1, <2>1, AtExecution
  <2>7. \A i \in 1 .. Len(stream) :
            ~SameStep(stream[i], [type |-> type, id |-> ecur, source |-> "execution"])
    BY <2>2, <2>6 DEF SameStep, FillType, Simulation, Verdict
  <2>8. /\ type \in EventType /\ "execution" \in Source
        /\ type \notin {"trade.proposed", "trade.sized", "trade.approved", "trade.rejected"}
        /\ type \notin Simulation
    BY <2>2 DEF EventType, Source, Simulation, FillType
  <2>9. CausedBy(n)'
    BY <1>3, <2>1, <2>2, <2>3, <2>5, <2>6, <2>8, NewEntry
  <2>10. pc' = "approve" => InStream("simulation.passed", cur)'
    <3>1. SUFFICES ASSUME pc = "approve"
                   PROVE  InStream("simulation.passed", cur)'
      OBVIOUS
    <3>2. Holds(agents) /\ agents.last <= Len(stream)
      BY <3>1 DEF AuditInv, CursorsInv, AgentsCursorInv
    <3>3. agents.next \in 1 .. Len(stream)
      BY <1>1, <3>2, CurrentEntry
    <3>4. cur' = cur
      BY <1>2, <3>3 DEF Grows, cur, Current
    <3>5. Len(stream') \in Nat /\ \A i \in 1 .. Len(stream) :
              i \in 1 .. Len(stream') /\ stream'[i] = stream[i]
      BY <1>1, <1>2 DEF Grows
    <3>6. QED
      BY <1>1, <3>1, <3>4, <3>5 DEF CausesInv, InStream
  <2>11. QED
    BY <1>1, <1>3, <2>1, <2>2, <2>3, <2>4, <2>5, <2>7, <2>8, <2>9, <2>10, PublishStep
<1>10. QED
  BY <1>6, <1>7, <1>8, <1>9 DEF ExecStep

(* Nor does the strategy: it proposes what nothing was published about.    *)
LEMMA StrategyAudit ==
    ASSUME AuditInv, StrategyStep, UNCHANGED <<agents, pc, exec, epc>>
    PROVE  CausesInv' /\ PublishedOnce'
<1> USE DEF redisVars
<1>1. /\ stream \in Seq(Entry) /\ Len(stream) \in Nat /\ agents \in Group /\ exec \in Group
      /\ agents.next \in Nat /\ exec.next \in Nat
      /\ AgentsCursorInv /\ CausesInv /\ PublishedOnce
  BY DEF AuditInv, TypeOK, CursorsInv, RedisTypeOK, OrchestratorTypeOK, ExecTypeOK, Group
<1>2. StagesKept
  BY DEF StagesKept
<1>3. CASE StartScan \/ EndScan
  <2>1. UNCHANGED stream
    BY <1>3 DEF StartScan, EndScan
  <2>2. CursorsForward
    BY <1>1, <2>1, UnchangedGrows DEF CursorsForward
  <2>3. QED
    BY <1>1, <1>2, <2>1, <2>2, QuietStep
<1>4. CASE Propose
  <2>1. PICK t \in Trades : ~InStream("trade.proposed", t) /\ Publish("trade.proposed", t, "agents")
    BY <1>4 DEF Propose
  <2>2. "trade.proposed" \in EventType /\ "agents" \in Source
    BY DEF EventType, Source
  <2>3. Grows
    BY <1>1, <2>1, <2>2, PublishGrows
  <2>4. CursorsForward
    BY <1>1, <2>3 DEF CursorsForward
  <2>5. PICK n \in Nat : n = Len(stream) + 1
    BY <1>1
  <2>6. \A i \in 1 .. Len(stream) :
            ~SameStep(stream[i], [type |-> "trade.proposed", id |-> t, source |-> "agents"])
    BY <2>1 DEF SameStep, InStream, FillType, Simulation, Verdict
  <2>7. CausedBy(n)'
    BY <2>1, <2>2, <2>4, <2>5, NewEntry DEF Simulation, FillType
  <2>8. pc' = "approve" => InStream("simulation.passed", cur)'
    <3>1. SUFFICES ASSUME pc = "approve"
                   PROVE  InStream("simulation.passed", cur)'
      OBVIOUS
    <3>2. agents.next \in 1 .. Len(stream)
      BY <1>1, <3>1, CurrentEntry DEF AgentsCursorInv
    <3>3. cur' = cur
      BY <2>3, <3>2 DEF Grows, cur, Current
    <3>4. Len(stream') \in Nat /\ \A i \in 1 .. Len(stream) :
              i \in 1 .. Len(stream') /\ stream'[i] = stream[i]
      BY <1>1, <2>3 DEF Grows
    <3>5. QED
      BY <1>1, <3>1, <3>3, <3>4 DEF CausesInv, InStream
  <2>9. QED
    BY <1>1, <1>2, <2>1, <2>2, <2>4, <2>5, <2>6, <2>7, <2>8, PublishStep
<1>5. QED
  BY <1>3, <1>4 DEF StrategyStep

-----------------------------------------------------------------------------
LEMMA AuditStep == ASSUME AuditInv, [Next]_vars PROVE AuditInv'
<1> USE DEF redisVars, breakerVars, orchestratorVars, execVars
<1>1. TypeOK /\ CursorsInv /\ CausesInv /\ PublishedOnce
  BY DEF AuditInv
<1>2. TypeOK' /\ CursorsInv'
  BY <1>1, StepTypes
<1>3. CASE Strategy
  BY <1>2, <1>3, StrategyAudit DEF Strategy, AuditInv
<1>4. CASE Orchestrate
  BY <1>2, <1>4, OrchestratorAudit DEF Orchestrate, AuditInv
<1>5. CASE OrchestratorError \/ AgentsRestart
  BY <1>2, <1>5, OrchestratorFaultAudit DEF OrchestratorError, AgentsRestart, AuditInv
<1>6. CASE Execution \/ ExecutionError \/ ExecutionRestart
  BY <1>2, <1>6, ExecutionAudit DEF Execution, ExecutionError, ExecutionRestart, AuditInv
<1>7. CASE Monitor \/ TimePasses \/ MonitorFault \/ UNCHANGED vars
  <2>1. UNCHANGED <<stream, agents, pc, exec, epc>>
    BY <1>7 DEF Monitor, TimePasses, MonitorFault, vars
  <2>2. CursorsForward
    BY <1>1, <2>1, UnchangedGrows
    DEF TypeOK, RedisTypeOK, OrchestratorTypeOK, ExecTypeOK, CursorsForward, Group
  <2>3. StagesKept
    BY <2>1 DEF StagesKept
  <2>4. QED
    BY <1>1, <1>2, <2>1, <2>2, <2>3, QuietStep DEF AuditInv
<1>8. QED
  BY <1>3, <1>4, <1>5, <1>6, <1>7 DEF Next

(* An empty audit trail is in order.                                       *)
LEMMA AuditInit == ASSUME Init PROVE AuditInv
<1>1. stream = <<>> /\ pc = "idle"
  BY DEF Init, RedisInit, OrchestratorInit
<1>2. 1 .. Len(stream) = {}
  BY <1>1
<1>3. CausesInv /\ PublishedOnce
  BY <1>1, <1>2 DEF CausesInv, PublishedOnce
<1>4. QED
  BY <1>3, InitTypes DEF AuditInv

THEOREM AuditInvariant == Spec => []AuditInv
<1>1. QED
  BY AuditInit, AuditStep, PTL DEF Spec

(* At most once: whatever fails and is restarted, no process takes a step  *)
(* of a trade twice and no trade is both approved and rejected.            *)
THEOREM AtMostOnce == Spec => []PublishedOnce
<1>1. AuditInv => PublishedOnce
  BY DEF AuditInv
<1>2. QED
  BY <1>1, AuditInvariant, PTL

(* The unskippable gate: what is published of a trade is preceded by what  *)
(* the pipeline puts before it; nothing is filled without an approval, and *)
(* nothing approved without a passed dry run.                              *)
THEOREM UnskippableGate == Spec => []PipelineOrder
<1>1. ASSUME AuditInv PROVE PipelineOrder
  <2>1. SUFFICES ASSUME NEW i \in 1 .. Len(stream)
                 PROVE  /\ stream[i].type \in {"trade.sized", "trade.rejected"} =>
                              Precedes("trade.proposed", i)
                        /\ stream[i].type \in Simulation => Precedes("trade.sized", i)
                        /\ stream[i].type = "trade.approved" => Precedes("simulation.passed", i)
                        /\ stream[i].type \in FillType => Precedes("trade.approved", i)
    BY DEF PipelineOrder
  <2>2. CausedBy(i) /\ stream[i] \in Entry
    BY <1>1 DEF AuditInv, CausesInv, TypeOK, RedisTypeOK
  <2>3. stream[i].type \in {"trade.sized", "trade.rejected"} => Precedes("trade.proposed", i)
    BY <2>2 DEF CausedBy, FromProposal, Cause, Precedes
  <2>4. stream[i].type \in Simulation => Precedes("trade.sized", i)
    BY <2>2 DEF CausedBy, SimulationFromSized, Cause, Precedes
  <2>5. stream[i].type = "trade.approved" => Precedes("simulation.passed", i)
    BY <2>2 DEF CausedBy, ApprovalFromSized
  <2>6. stream[i].source \in {"agents", "execution"}
    BY <2>2 DEF Entry, Source
  <2>7. stream[i].type \in FillType => Precedes("trade.approved", i)
    BY <2>2, <2>6 DEF CausedBy, AgentsFillFromApproval, ExecFillFromApproval, Cause, Precedes
  <2>8. QED
    BY <2>3, <2>4, <2>5, <2>7
<1>2. QED
  BY <1>1, AuditInvariant, PTL
=============================================================================
