-------------------------- MODULE BookkeepingProofs --------------------------
(***************************************************************************)
(* Proofs about the bookkeeping of the agents process: the open positions, *)
(* the ledger, the maps _proposals and _pending and the streak of failures *)
(* agree with the audit trail, whatever fails.                             *)
(***************************************************************************)
EXTENDS AuditTrailProofs, FiniteSetTheorems

(* What the audit trail's invariant says of the cursors, as used below.    *)
LEMMA AuditFacts ==
    ASSUME AuditInv
    PROVE  /\ stream \in Seq(Entry) /\ Len(stream) \in Nat
           /\ agents \in Group /\ agents.next \in Nat /\ agents.last \in Nat
           /\ agents.next <= agents.last + 1 /\ agents.last <= Len(stream)
           /\ exec \in Group /\ exec.next \in Nat /\ exec.last \in Nat
           /\ pc # "idle" => Holds(agents)
           /\ epc # "idle" => Holds(exec)
           /\ AgentsCursorInv /\ ExecCursorInv /\ CausesInv /\ PublishedOnce /\ TypeOK
BY DEF AuditInv, TypeOK, CursorsInv, RedisTypeOK, OrchestratorTypeOK, ExecTypeOK, Group,
   AgentsCursorInv, ExecCursorInv

LEMMA CurKept ==
    ASSUME AuditInv, Grows
    PROVE  /\ UNCHANGED agents /\ Holds(agents) => cur' = cur
           /\ UNCHANGED exec /\ Holds(exec) => ecur' = ecur
<1>1. Holds(agents) => agents.next \in 1 .. Len(stream)
  BY AuditFacts, CurrentEntry
<1>2. Holds(exec) => exec.next \in 1 .. Len(stream)
  BY AuditFacts, CurrentEntry DEF ExecCursorInv
<1>3. QED
  BY <1>1, <1>2 DEF Grows, cur, ecur, Current

(* A fill stays in the stream; a publication adds at most its own.         *)
LEMMA FilledKept ==
    ASSUME stream \in Seq(Entry), Grows, NEW t, NEW x, FilledBy(t, x)
    PROVE  FilledBy(t, x)'
<1>1. \A i \in 1 .. Len(stream) : i \in 1 .. Len(stream') /\ stream'[i] = stream[i]
  BY DEF Grows
<1>2. QED
  BY <1>1 DEF FilledBy

NoNewFill == \A t, x : FilledBy(t, x)' => FilledBy(t, x)

LEMMA PublishFills ==
    ASSUME stream \in Seq(Entry), NEW type \in EventType, NEW id \in Trades,
           NEW source \in Source, Publish(type, id, source)
    PROVE  /\ \A t, x : FilledBy(t, x)' => FilledBy(t, x) \/ (type \in FillType /\ id = t /\ source = x)
           /\ type \in FillType => FilledBy(id, source)'
           /\ \E i \in 1 .. Len(stream') : stream'[i] = [type |-> type, id |-> id, source |-> source]
<1>1. /\ stream' \in Seq(Entry)
      /\ Len(stream') = Len(stream) + 1 /\ Len(stream) \in Nat
      /\ \A i \in 1 .. Len(stream) : stream'[i] = stream[i]
      /\ stream'[Len(stream) + 1] = [type |-> type, id |-> id, source |-> source]
  BY AppendEntry
<1>2. Len(stream) + 1 \in 1 .. Len(stream')
  BY <1>1
<1>3. \A i \in 1 .. Len(stream') : i \in 1 .. Len(stream) \/ i = Len(stream) + 1
  BY <1>1
<1>4. QED
  BY <1>1, <1>2, <1>3 DEF FilledBy

LEMMA UnchangedFills == ASSUME UNCHANGED stream PROVE NoNewFill
BY DEF NoNewFill, FilledBy

-----------------------------------------------------------------------------
(* A proposal that was read is remembered.                                 *)

(* A cursor that seeks passes over nothing its consumer handles.           *)
LEMMA SeekingSkips ==
    /\ \A g, h : h \in Advanced(g, Handled) =>
          \A i \in g.next + 1 .. h.next - 1 : stream[i].type \notin Handled
    /\ \A g, h, n : h \in Fetched(g, n, Handled) =>
          \A i \in g.last + 1 .. h.next - 1 : stream[i].type \notin Handled
BY DEF Advanced, Fetched, Seeking

LEMMA KeptStep ==
    ASSUME AuditInv, ProposalsKept, Grows, agents' \in Group, agents.next <= agents'.next,
           restarted => restarted',
           \A j \in 1 .. Len(stream) : ProposalRead(j)' =>
               ProposalRead(j) \/ stream[j].id \in proposals' \/ restarted',
           \A j \in Len(stream) + 1 .. Len(stream') : ~ProposalRead(j)',
           \A t \in proposals \ proposals' : \/ restarted'
                                             \/ \E i \in 1 .. Len(stream) :
                                                   /\ i < agents'.next
                                                   /\ stream[i].type = "trade.approved"
                                                   /\ stream[i].id = t
    PROVE  ProposalsKept'
<1>1. /\ Len(stream) \in Nat /\ Len(stream') \in Nat /\ agents'.next \in Nat
      /\ agents.next \in Nat /\ agents.next <= Len(stream) + 1
      /\ \A i \in 1 .. Len(stream) : i \in Nat /\ stream'[i] = stream[i]
  BY AuditFacts DEF Grows, Group
<1>2. SUFFICES ASSUME NEW j \in 1 .. Len(stream'), ProposalRead(j)'
               PROVE  ProposalKept(j)'
  BY DEF ProposalsKept
<1>3. j \in 1 .. Len(stream)
  BY <1>1, <1>2
<1>4. stream'[j] = stream[j]
  BY <1>1, <1>3
<1>5. CASE stream[j].id \in proposals' \/ restarted'
  BY <1>4, <1>5 DEF ProposalKept
<1>6. CASE ProposalRead(j) /\ ~restarted' /\ stream[j].id \notin proposals'
  <2>1. ProposalKept(j)
    BY <1>3, <1>6 DEF ProposalsKept
  <2>2. PICK i \in 1 .. Len(stream) : /\ i < agents'.next
                                      /\ stream[i].type = "trade.approved"
                                      /\ stream[i].id = stream[j].id
    <3>1. CASE stream[j].id \in proposals
      BY <1>6, <3>1
    <3>2. CASE \E i \in 1 .. agents.next - 1 :
                  stream[i].type = "trade.approved" /\ stream[i].id = stream[j].id
      BY <1>1, <3>2
    <3>3. QED
      BY <1>6, <2>1, <3>1, <3>2 DEF ProposalKept
  <2>3. i \in 1 .. agents'.next - 1 /\ stream'[i] = stream[i]
    BY <1>1, <2>2
  <2>4. QED
    BY <1>4, <2>2, <2>3 DEF ProposalKept
<1>7. QED
  BY <1>2, <1>3, <1>5, <1>6

(* handle() returns, or raises, which leaves the proposals to themselves.  *)
LEMMA DoneKept ==
    ASSUME AuditInv, ProposalsKept, Grows, pc # "idle", Done, UNCHANGED restarted,
           UNCHANGED proposals \/ Release
    PROVE  ProposalsKept'
<1>1. /\ stream \in Seq(Entry) /\ Len(stream) \in Nat
      /\ agents \in Group /\ agents.next \in Nat /\ agents.last \in Nat
      /\ agents.last <= Len(stream)
      /\ Holds(agents) /\ agents.next <= agents.last
      /\ AgentsCursorInv
  BY AuditFacts DEF Holds
<1>2. agents' \in Advanced(agents, Handled) /\ pc' = "idle"
  BY DEF Done, Goto
<1>3. /\ agents' \in Group /\ agents'.next \in Nat
      /\ agents.next < agents'.next /\ agents'.last = agents.last
      /\ agents'.next <= agents'.last + 1
  BY <1>1, DoneMovesCursor DEF Group, AgentsCursorInv
<1>4. \A j \in 1 .. Len(stream) : j \in 1 .. Len(stream') /\ stream'[j] = stream[j]
  BY <1>1 DEF Grows
<1>5. \A j \in 1 .. Len(stream) : ProposalRead(j)' => ProposalRead(j)
  <2>1. SUFFICES ASSUME NEW j \in 1 .. Len(stream), ProposalRead(j)', ~(j <= agents.next)
                 PROVE  FALSE
    BY <1>1, <1>4 DEF ProposalRead
  <2>2. j \in agents.next + 1 .. agents'.next - 1
    BY <1>1, <1>2, <1>3, <2>1 DEF ProposalRead
  <2>3. stream[j].type \notin Handled
    BY <1>2, <2>2, SeekingSkips
  <2>4. QED
    BY <1>4, <2>1, <2>3 DEF ProposalRead, Handled
<1>6. \A j \in Len(stream) + 1 .. Len(stream') : ~ProposalRead(j)'
  BY <1>1, <1>2, <1>3 DEF ProposalRead, Grows
<1>7. \A t \in proposals \ proposals' : \E i \in 1 .. Len(stream) :
          i < agents'.next /\ stream[i].type = "trade.approved" /\ stream[i].id = t
  <2>1. SUFFICES ASSUME Release
                 PROVE  /\ agents.next \in 1 .. Len(stream)
                        /\ \A t \in proposals \ proposals' : t = cur
                        /\ stream[agents.next].type = "trade.approved"
                        /\ stream[agents.next].id = cur
    BY <1>3
  <2>2. Holds(agents) /\ Current(agents).type = "trade.approved"
    BY <1>1, <2>1 DEF Release, AgentsCursorInv, FillPc
  <2>3. QED
    BY <1>1, <2>1, <2>2, CurrentEntry DEF Release, Current, cur
<1>8. QED
  BY <1>1, <1>3, <1>5, <1>6, <1>7, KeptStep

LEMMA OrchestratorKept ==
    ASSUME AuditInv, ProposalsKept, OrchestratorStep, UNCHANGED restarted
    PROVE  ProposalsKept'
<1> USE DEF redisVars, memoryVars, Goto
<1>1. /\ stream \in Seq(Entry) /\ Len(stream) \in Nat
      /\ agents \in Group /\ agents.next \in Nat /\ agents.last \in Nat
      /\ agents.next <= agents.last + 1 /\ agents.last <= Len(stream)
      /\ pc # "idle" => Holds(agents) /\ agents.next <= agents.last
      /\ TypeOK /\ AgentsCursorInv /\ CausesInv /\ PublishedOnce
  BY AuditFacts DEF Holds
<1>2. /\ Grows /\ agents.next <= agents'.next /\ agents' \in Group
      /\ agents'.next \in Nat /\ agents'.last \in Nat /\ agents'.next <= agents'.last + 1
  BY <1>1, OrchestratorTypes DEF OrchestratorTypeOK, AgentsCursorInv, Group
<1>3. \A j \in 1 .. Len(stream) : j \in 1 .. Len(stream') /\ stream'[j] = stream[j]
  BY <1>1, <1>2 DEF Grows
<1>4. CASE OnProposed
  <2>1. Holds(agents) /\ agents'.next <= Len(stream)
    BY <1>1, <1>4 DEF OnProposed, Holds
  <2>2. \A j \in 1 .. Len(stream) : ProposalRead(j)' => ProposalRead(j) \/ stream[j].id \in proposals'
    BY <1>1, <1>3, <1>4 DEF OnProposed, ProposalRead, cur, Current
  <2>3. \A j \in Len(stream) + 1 .. Len(stream') : ~ProposalRead(j)'
    BY <1>1, <1>2, <2>1 DEF ProposalRead
  <2>4. QED
    BY <1>1, <1>2, <1>4, <2>2, <2>3, KeptStep DEF OnProposed
<1>5. CASE pc # "idle" /\ UNCHANGED <<agents, proposals>>
  <2>1. \A j \in 1 .. Len(stream) : ProposalRead(j)' => ProposalRead(j)
    BY <1>1, <1>3, <1>5 DEF ProposalRead
  <2>2. \A j \in Len(stream) + 1 .. Len(stream') : ~ProposalRead(j)'
    BY <1>1, <1>5 DEF ProposalRead
  <2>3. QED
    BY <1>1, <1>2, <1>5, <2>1, <2>2, KeptStep
<1>6. CASE OnSized \/ OnApproved
  <2>1. /\ pc = "idle" /\ Holds(agents) /\ UNCHANGED <<stream, agents, proposals>>
        /\ stream[agents.next].type # "trade.proposed"
    BY <1>6 DEF OnSized, OnApproved, Current
  <2>2. \A j \in 1 .. Len(stream) : ProposalRead(j)' => ProposalRead(j)
    BY <1>1, <2>1 DEF ProposalRead
  <2>3. \A j \in Len(stream) + 1 .. Len(stream') : ~ProposalRead(j)'
    BY <1>1, <2>1 DEF ProposalRead, Holds
  <2>4. QED
    BY <1>1, <1>2, <2>1, <2>2, <2>3, KeptStep
<1>7. CASE pc # "idle" /\ Done /\ (UNCHANGED proposals \/ Release)
  BY <1>2, <1>7, DoneKept
<1>8. CASE Fetch
  <2>1. /\ agents' \in Fetched(agents, ReadCount, Handled) /\ ~Holds(agents) /\ pc' = "idle"
        /\ UNCHANGED <<stream, proposals>>
    BY <1>8 DEF Fetch, CanFetch
  <2>2. agents.next = agents.last + 1
    BY <1>1, <2>1 DEF Holds
  <2>3. \A j \in 1 .. Len(stream) : ProposalRead(j)' => ProposalRead(j)
    <3>1. SUFFICES ASSUME NEW j \in 1 .. Len(stream), ProposalRead(j)', ~(j < agents.next)
                   PROVE  FALSE
      BY <1>1, <2>1 DEF ProposalRead
    <3>2. j \in agents.last + 1 .. agents'.next - 1
      BY <1>1, <1>2, <2>1, <2>2, <3>1 DEF ProposalRead
    <3>3. stream[j].type \notin Handled
      BY <2>1, <3>2, SeekingSkips
    <3>4. QED
      BY <2>1, <3>1, <3>3 DEF ProposalRead, Handled
  <2>4. \A j \in Len(stream) + 1 .. Len(stream') : ~ProposalRead(j)'
    BY <1>1, <2>1
  <2>5. QED
    BY <1>1, <1>2, <2>1, <2>3, <2>4, KeptStep
<1>9. QED
  <2>1. CASE GateLimits
    BY <1>5, <1>7, <2>1 DEF GateLimits
  <2>2. CASE Gate \/ TripDrawdown \/ Simulate \/ Reserve \/ Execute \/ AccountFill
             \/ TripFailures \/ ClearStreak \/ Book
    BY <1>5, <2>2
    DEF Gate, TripDrawdown, Simulate, Reserve, Execute, AccountFill, TripFailures, ClearStreak, Book
  <2>3. CASE Reject \/ Approve \/ Release
    BY <1>7, <2>3 DEF Reject, Approve, Release
  <2>4. QED
    BY <1>4, <1>6, <1>8, <2>1, <2>2, <2>3 DEF OrchestratorStep

-----------------------------------------------------------------------------
(* A step outside the execution of a trade, which fills none, leaves the   *)
(* positions, the ledger and the agreement of both with the stream alone.  *)
LEMMA QuietBook ==
    ASSUME AuditInv, BookInv, Grows, NoNewFill, ~Executing, ~Executing',
           UNCHANGED <<positions, ledger, cut, exec, epc, execCut>>, restarted => restarted'
    PROVE  /\ PositionsExplained' /\ LedgerMatchesStream' /\ UnknownStrategyNeedsRestart'
           /\ FillInHand'
<1>1. /\ stream \in Seq(Entry) /\ Len(stream) \in Nat
      /\ PositionsExplained /\ LedgerMatchesStream /\ UnknownStrategyNeedsRestart /\ FillInHand
  BY AuditFacts DEF BookInv
<1>2. \A i \in 1 .. Len(stream) : i \in 1 .. Len(stream') /\ stream'[i] = stream[i]
  BY <1>1 DEF Grows
<1>3. epc # "idle" => ecur' = ecur
  BY AuditFacts, CurKept
<1>4. \A t, x : FilledBy(t, x)' <=> FilledBy(t, x)
  BY <1>1, FilledKept DEF NoNewFill
<1>5. PositionsExplained'
  BY <1>1, <1>3, <1>4 DEF PositionsExplained
<1>6. LedgerMatchesStream'
  BY <1>1, <1>2, <1>4 DEF LedgerMatchesStream
<1>7. UnknownStrategyNeedsRestart'
  BY <1>1 DEF UnknownStrategyNeedsRestart
<1>8. FillInHand'
  BY <1>1, <1>3, <1>4 DEF FillInHand, Executing, AfterFill
<1>9. QED
  BY <1>5, <1>6, <1>7, <1>8

(* A trade the agents have filled is not read again as a proposal or as a  *)
(* sized trade, so it does not come back into _proposals or _pending.      *)
LEMMA NotFilledYet ==
    ASSUME AuditInv, Holds(agents),
           Current(agents).type \in {"trade.proposed", "trade.sized"}
    PROVE  ~FilledBy(cur, "agents")
<1>1. SUFFICES ASSUME NEW i \in 1 .. Len(stream), stream[i].type \in FillType,
                      stream[i].id = cur, stream[i].source = "agents"
               PROVE  FALSE
  BY DEF FilledBy
<1>2. /\ agents.next \in 1 .. Len(stream) /\ stream[agents.next].id = cur
      /\ stream[agents.next].type = Current(agents).type
  BY AuditFacts, CurrentEntry DEF cur, Current
<1>3. pc \notin AfterFill
  BY AuditFacts DEF AgentsCursorInv, AfterFill, FillPc
<1>4. CausedBy(i)
  BY AuditFacts DEF CausesInv
<1>5. PICK j \in 1 .. i - 1 : Cause(i, j, "trade.approved") /\ (j < agents.next \/ j = agents.next)
  BY <1>1, <1>4 DEF CausedBy, AgentsFillFromApproval
<1>6. j \in 1 .. Len(stream) /\ j # agents.next /\ stream[j].id = cur /\ stream[j].type = "trade.approved"
  BY <1>1, <1>2, <1>5, AuditFacts DEF Cause
<1>7. CausedBy(j)
  BY <1>6, AuditFacts DEF CausesInv
<1>8. CASE Current(agents).type = "trade.proposed"
  BY <1>6, <1>8, AuditFacts, AtProposal
<1>9. CASE Current(agents).type = "trade.sized"
  <2>1. stream[j].type \notin Verdict
    BY <1>6, <1>9, AuditFacts, AtSized
  <2>2. QED
    BY <1>6, <2>1 DEF Verdict
<1>10. QED
  BY <1>8, <1>9

-----------------------------------------------------------------------------
LEMMA OrchestratorBook ==
    ASSUME AuditInv, BookInv, OrchestratorStep,
           UNCHANGED <<exec, epc, execFill, execCut, restarted>>
    PROVE  BookInv'
<1> USE DEF redisVars, memoryVars, Goto
<1>1. /\ stream \in Seq(Entry) /\ Len(stream) \in Nat
      /\ agents \in Group /\ agents.next \in Nat /\ agents.last \in Nat
      /\ pc # "idle" => Holds(agents)
      /\ TypeOK /\ AgentsCursorInv /\ CausesInv /\ PublishedOnce
      /\ PositionsExplained /\ LedgerMatchesStream /\ UnknownStrategyNeedsRestart
      /\ FilledTradesForgotten /\ FillInHand /\ ProposalsKept
  BY AuditFacts DEF BookInv
<1>2. Grows /\ agents.next <= agents'.next /\ AgentsCursorInv'
  BY <1>1, OrchestratorTypes
<1>3. \A i \in 1 .. Len(stream) : i \in 1 .. Len(stream') /\ stream'[i] = stream[i]
  BY <1>1, <1>2 DEF Grows
<1>4. ProposalsKept'
  BY <1>1, OrchestratorKept
<1>5. UNCHANGED agents /\ pc # "idle" => cur' = cur
  BY <1>1, <1>2, CurKept
<1>6. epc # "idle" => ecur' = ecur
  BY <1>2, AuditFacts, CurKept
<1>7. \A t, x : FilledBy(t, x) => FilledBy(t, x)'
  BY <1>1, <1>2, FilledKept
<1>8. Holds(agents) => cur \in Trades
  BY <1>1, CurrentEntry DEF cur, AgentsCursorInv
<1>9. \A type \in EventType : pc # "idle" /\ Publish(type, cur, "agents") /\ type \notin FillType => NoNewFill
  BY <1>1, <1>8, PublishFills DEF NoNewFill, Source
<1>10. UNCHANGED stream => NoNewFill
  BY UnchangedFills
<1>11. CASE /\ NoNewFill /\ ~Executing /\ ~Executing'
            /\ UNCHANGED <<positions, ledger, cut, proposals, pending>>
  <2>1. FilledTradesForgotten'
    BY <1>1, <1>11 DEF FilledTradesForgotten, NoNewFill
  <2>2. QED
    BY <1>2, <1>4, <1>11, <2>1, QuietBook DEF BookInv
<1>12. CASE OnProposed \/ OnSized
  <2>1. /\ Holds(agents) /\ Current(agents).type \in {"trade.proposed", "trade.sized"}
        /\ NoNewFill /\ ~Executing /\ ~Executing'
        /\ UNCHANGED <<positions, ledger, cut>>
        /\ pending' \cup proposals' = pending \cup proposals \cup {cur}
    BY <1>10, <1>12 DEF OnProposed, OnSized, Executing
  <2>2. ~FilledBy(cur, "agents")
    BY <2>1, NotFilledYet
  <2>3. FilledTradesForgotten'
    BY <1>1, <2>1, <2>2 DEF FilledTradesForgotten, NoNewFill
  <2>4. QED
    BY <1>2, <1>4, <2>1, <2>3, QuietBook DEF BookInv
<1>13. CASE Reserve
  <2>1. PositionsExplained'
    BY <1>1, <1>5, <1>6, <1>7, <1>13 DEF Reserve, PositionsExplained, Executing
  <2>2. NoNewFill /\ ~Executing /\ UNCHANGED <<ledger, cut, pending, proposals>> /\ pc' = "execute"
    BY <1>10, <1>13 DEF Reserve, Executing
  <2>3. LedgerMatchesStream'
    BY <1>1, <1>3, <2>2 DEF LedgerMatchesStream, NoNewFill
  <2>4. FilledTradesForgotten'
    BY <1>1, <2>2 DEF FilledTradesForgotten, NoNewFill
  <2>5. UnknownStrategyNeedsRestart'
    BY <1>1, <2>2 DEF UnknownStrategyNeedsRestart
  <2>6. FillInHand'
    BY <1>1, <1>6, <1>7, <2>2 DEF FillInHand, AfterFill
  <2>7. QED
    BY <1>4, <2>1, <2>3, <2>4, <2>5, <2>6 DEF BookInv
<1>14. CASE Execute
  <2>1. /\ Holds(agents) /\ cur' = cur /\ fill' \in FillType
        /\ Publish(fill', cur, "agents") /\ Executing /\ Executing'
        /\ pc' = "account"
        /\ UNCHANGED <<positions, ledger, cut, proposals, pending, agents>>
    BY <1>1, <1>5, <1>14 DEF Execute, Executing, FillType
  <2>2. /\ \A t, x : FilledBy(t, x)' => FilledBy(t, x) \/ (cur = t /\ "agents" = x)
        /\ \E i \in 1 .. Len(stream') : stream'[i] = [type |-> fill', id |-> cur, source |-> "agents"]
    BY <1>1, <1>8, <2>1, PublishFills DEF EventType, Source
  <2>3. PositionsExplained'
    BY <1>1, <1>6, <1>7, <2>1 DEF PositionsExplained
  <2>4. LedgerMatchesStream'
    BY <1>1, <1>3, <2>1, <2>2 DEF LedgerMatchesStream
  <2>5. FilledTradesForgotten'
    BY <1>1, <2>1, <2>2 DEF FilledTradesForgotten
  <2>6. UnknownStrategyNeedsRestart'
    BY <1>1, <2>1 DEF UnknownStrategyNeedsRestart
  <2>7. FillInHand'
    BY <1>1, <1>6, <1>7, <2>1, <2>2 DEF FillInHand, Posted
  <2>8. QED
    BY <1>4, <2>3, <2>4, <2>5, <2>6, <2>7 DEF BookInv
<1>15. CASE AccountFill \/ TripFailures \/ ClearStreak
  <2>1. /\ NoNewFill /\ cur' = cur /\ Executing /\ Executing'
        /\ pc \in AfterFill /\ pc' # "release"
        /\ UNCHANGED <<stream, fill, positions, ledger, cut, proposals, pending, agents>>
    BY <1>1, <1>5, <1>10, <1>15 DEF AccountFill, TripFailures, ClearStreak, Executing, AfterFill
  <2>2. PositionsExplained'
    BY <1>1, <1>6, <1>7, <2>1 DEF PositionsExplained
  <2>3. LedgerMatchesStream'
    BY <1>1, <1>3, <2>1 DEF LedgerMatchesStream, NoNewFill
  <2>4. FilledTradesForgotten'
    BY <1>1, <2>1 DEF FilledTradesForgotten, NoNewFill
  <2>5. UnknownStrategyNeedsRestart'
    BY <1>1, <2>1 DEF UnknownStrategyNeedsRestart
  <2>6. FillInHand'
    BY <1>1, <1>6, <1>7, <2>1 DEF FillInHand, Posted
  <2>7. QED
    BY <1>4, <2>2, <2>3, <2>4, <2>5, <2>6 DEF BookInv
<1>16. CASE Book
  <2>1. /\ NoNewFill /\ cur' = cur /\ Executing /\ Executing'
        /\ pc = "book" /\ pc' = "release" /\ pc \in AfterFill
        /\ ledger' = ledger \cup {[id |-> cur, status |-> fill, known |-> cur \in proposals]}
        /\ UNCHANGED <<stream, fill, positions, cut, proposals, pending, agents>>
    BY <1>1, <1>5, <1>10, <1>16 DEF Book, Executing, AfterFill
  <2>2. PICK row : /\ row.id = cur /\ (row.known <=> cur \in proposals) /\ row.status = fill
                   /\ ledger' = ledger \cup {row}
    <3> DEFINE row == [id |-> cur, status |-> fill, known |-> cur \in proposals]
    <3>1. row.id = cur /\ (row.known <=> cur \in proposals) /\ row.status = fill
      OBVIOUS
    <3>2. ledger' = ledger \cup {row}
      BY <2>1
    <3> HIDE DEF row
    <3>3. QED
      BY <3>1, <3>2, Zenon
  <2>3. Posted(fill, cur, "agents")
    BY <1>1, <2>1 DEF FillInHand
  <2>4. cur \in proposals \/ restarted
    <3>1. Holds(agents) /\ Current(agents).type = "trade.approved"
      BY <1>1, <2>1 DEF AgentsCursorInv, FillPc
    <3>2. /\ agents.next \in 1 .. Len(stream) /\ stream[agents.next].type = "trade.approved"
          /\ stream[agents.next].id = cur
          /\ \E j \in 1 .. Len(stream) : /\ stream[j].type = "trade.proposed"
                                         /\ stream[j].id = cur /\ j < agents.next
      BY <1>1, <3>1, AtApproved
    <3>3. PICK j \in 1 .. Len(stream) : /\ stream[j].type = "trade.proposed"
                                        /\ stream[j].id = cur /\ j < agents.next
      BY <3>2
    <3>4. ProposalKept(j)
      BY <1>1, <3>3 DEF ProposalsKept, ProposalRead
    <3>5. ASSUME NEW i \in 1 .. agents.next - 1,
                 stream[i].type = "trade.approved", stream[i].id = cur
          PROVE  FALSE
      <4>1. i \in 1 .. Len(stream) /\ i # agents.next
        BY <1>1, <3>2
      <4>2. QED
        BY <1>1, <3>2, <3>5, <4>1, UniqueEntry DEF FillType
    <3>6. QED
      BY <3>3, <3>4, <3>5 DEF ProposalKept
  <2>5. PositionsExplained'
    BY <1>1, <1>6, <1>7, <2>1 DEF PositionsExplained
  <2>6. LedgerMatchesStream'
    <3>1. \A r \in ledger' : \E i \in 1 .. Len(stream) :
              stream[i] = [type |-> r.status, id |-> r.id, source |-> "agents"]
      BY <1>1, <2>1, <2>3 DEF LedgerMatchesStream, Posted
    <3>2. QED
      BY <1>1, <2>1, <3>1 DEF LedgerMatchesStream, NoNewFill
  <2>7. FilledTradesForgotten'
    BY <1>1, <2>1 DEF FilledTradesForgotten, NoNewFill
  <2>8. UnknownStrategyNeedsRestart'
    <3>1. \A r \in ledger' : r \in ledger \/ (r.known <=> cur \in proposals)
      BY <2>2, Zenon
    <3>2. QED
      BY <1>1, <2>1, <2>4, <3>1, Zenon DEF UnknownStrategyNeedsRestart
  <2>9. FillInHand'
    <3>1. \E r \in ledger' : r.id = cur
      BY <2>2, Zenon
    <3>2. Posted(fill, cur, "agents")'
      BY <2>1, <2>3 DEF Posted
    <3>3. QED
      BY <1>1, <1>6, <1>7, <2>1, <3>1, <3>2 DEF FillInHand
  <2>10. QED
    BY <1>4, <2>5, <2>6, <2>7, <2>8, <2>9 DEF BookInv
<1>17. CASE Release
  <2>1. /\ NoNewFill /\ Executing /\ pc = "release" /\ pc' = "idle" /\ ~Executing'
        /\ positions' = positions \ {cur} /\ pending' = pending \ {cur}
        /\ proposals' = proposals \ {cur}
        /\ UNCHANGED <<stream, ledger, cut>>
    BY <1>10, <1>17 DEF Release, Done, Executing
  <2>2. \E r \in ledger : r.id = cur
    BY <1>1, <2>1 DEF FillInHand
  <2>3. PositionsExplained'
    BY <1>1, <1>6, <1>7, <2>1 DEF PositionsExplained
  <2>4. LedgerMatchesStream'
    BY <1>1, <2>1, <2>2 DEF LedgerMatchesStream, NoNewFill
  <2>5. FilledTradesForgotten'
    BY <1>1, <2>1 DEF FilledTradesForgotten, NoNewFill
  <2>6. UnknownStrategyNeedsRestart'
    BY <1>1, <2>1 DEF UnknownStrategyNeedsRestart
  <2>7. FillInHand'
    BY <1>1, <1>6, <1>7, <2>1 DEF FillInHand, AfterFill
  <2>8. QED
    BY <1>4, <2>3, <2>4, <2>5, <2>6, <2>7 DEF BookInv
<1>18. QED
  <2>1. CASE Fetch \/ OnApproved \/ Gate \/ TripDrawdown
    BY <1>10, <1>11, <2>1 DEF Fetch, OnApproved, Gate, TripDrawdown, Executing
  <2>2. CASE GateLimits
    BY <1>9, <1>10, <1>11, <2>2 DEF GateLimits, Done, Executing, EventType, FillType
  <2>3. CASE Reject \/ Approve
    BY <1>9, <1>11, <2>3 DEF Reject, Approve, Done, Executing, EventType, FillType
  <2>4. CASE Simulate
    BY <1>9, <1>11, <2>4 DEF Simulate, Executing, EventType, FillType
  <2>5. QED
    BY <1>12, <1>13, <1>14, <1>15, <1>16, <1>17, <2>1, <2>2, <2>3, <2>4 DEF OrchestratorStep

(* An error or a restart writes off the trade in hand; a restart also what *)
(* the batch still holds, and forgets the proposals.                       *)
LEMMA OrchestratorFaultBook ==
    ASSUME AuditInv, BookInv, UNCHANGED <<exec, epc, execFill, execCut>>,
           \/ HandlerError /\ UNCHANGED restarted
           \/ OrchestratorRestart /\ restarted'
    PROVE  BookInv'
<1> USE DEF redisVars, memoryVars
<1>1. /\ stream \in Seq(Entry) /\ Len(stream) \in Nat
      /\ agents \in Group /\ agents.next \in Nat /\ agents.last \in Nat
      /\ pc # "idle" => Holds(agents)
      /\ PositionsExplained /\ LedgerMatchesStream /\ UnknownStrategyNeedsRestart
      /\ FilledTradesForgotten /\ FillInHand /\ ProposalsKept
  BY AuditFacts DEF BookInv
<1>2. UNCHANGED <<stream, positions, ledger>> /\ pc' = "idle"
  BY DEF HandlerError, OrchestratorRestart, Done, Goto
<1>3. Grows /\ NoNewFill
  BY <1>1, <1>2, UnchangedGrows, UnchangedFills
<1>4. epc # "idle" => ecur' = ecur
  BY <1>3, AuditFacts, CurKept
<1>5. \A t, x : FilledBy(t, x) <=> FilledBy(t, x)'
  BY <1>1, <1>3, FilledKept DEF NoNewFill
<1>6. cut \subseteq cut' /\ (pc # "idle" => cur \in cut')
  <2>1. CASE HandlerError
    BY <2>1 DEF HandlerError
  <2>2. CASE OrchestratorRestart
    <3>1. cut' = cut \cup Undone(agents)
      BY <2>2 DEF OrchestratorRestart
    <3>2. pc # "idle" => agents.next \in agents.next .. agents.last
      BY <1>1 DEF Holds
    <3>3. pc # "idle" => cur \in Undone(agents)
      BY <3>2 DEF Undone, cur, Current
    <3>4. QED
      BY <3>1, <3>3
  <2>3. QED
    BY <2>1, <2>2
<1>7. proposals' \subseteq proposals /\ pending' \subseteq pending
  BY DEF HandlerError, OrchestratorRestart
<1>8. Executing => pc # "idle"
  BY DEF Executing
<1>9. PositionsExplained'
  BY <1>1, <1>2, <1>4, <1>5, <1>6, <1>8 DEF PositionsExplained
<1>10. LedgerMatchesStream'
  BY <1>1, <1>2, <1>5, <1>6, <1>8 DEF LedgerMatchesStream
<1>11. UnknownStrategyNeedsRestart'
  BY <1>1, <1>2 DEF UnknownStrategyNeedsRestart
<1>12. FilledTradesForgotten'
  BY <1>1, <1>2, <1>5, <1>6, <1>7, <1>8 DEF FilledTradesForgotten
<1>13. FillInHand'
  BY <1>1, <1>2, <1>4, <1>5 DEF FillInHand, AfterFill
<1>14. ProposalsKept'
  <2>1. CASE HandlerError /\ UNCHANGED restarted
    BY <1>1, <1>3, <2>1, DoneKept DEF HandlerError
  <2>2. CASE restarted'
    BY <2>2 DEF ProposalsKept, ProposalKept
  <2>3. QED
    BY <2>1, <2>2
<1>15. QED
  BY <1>9, <1>10, <1>11, <1>12, <1>13, <1>14 DEF BookInv

-----------------------------------------------------------------------------
(* What the other tasks and the other process do leaves the agents' books  *)
(* alone, as long as they publish no fill of the agents.                   *)
LEMMA AgentsAside ==
    ASSUME AuditInv, BookInv, Grows,
           UNCHANGED <<agents, pc, fill, proposals, pending, ledger, cut, restarted>>,
           \A t \in Trades : FilledBy(t, "agents")' => FilledBy(t, "agents")
    PROVE  /\ LedgerMatchesStream' /\ UnknownStrategyNeedsRestart' /\ FilledTradesForgotten'
           /\ ProposalsKept'
           /\ (epc' = "release" => FilledBy(ecur, "execution")') => FillInHand'
<1>1. /\ stream \in Seq(Entry) /\ Len(stream) \in Nat
      /\ agents.next \in Nat /\ agents.last \in Nat /\ agents.last <= Len(stream)
      /\ agents \in Group /\ agents.next <= agents.last + 1
      /\ pc # "idle" => Holds(agents) /\ agents.next <= agents.last
      /\ LedgerMatchesStream /\ UnknownStrategyNeedsRestart
      /\ FilledTradesForgotten /\ FillInHand /\ ProposalsKept
      /\ pending \subseteq Trades /\ proposals \subseteq Trades
  BY AuditFacts DEF BookInv, Holds, TypeOK, OrchestratorTypeOK
<1>2. \A i \in 1 .. Len(stream) : i \in 1 .. Len(stream') /\ stream'[i] = stream[i]
  BY <1>1 DEF Grows
<1>3. pc # "idle" => cur' = cur
  BY <1>1, CurKept
<1>4. Executing => pc # "idle"
  BY DEF Executing
<1>5. LedgerMatchesStream'
  BY <1>1, <1>2, <1>3, <1>4 DEF LedgerMatchesStream, Executing
<1>6. UnknownStrategyNeedsRestart'
  BY <1>1 DEF UnknownStrategyNeedsRestart
<1>7. FilledTradesForgotten'
  BY <1>1, <1>3, <1>4 DEF FilledTradesForgotten, Executing
<1>8. ProposalsKept'
  <2>1. \A j \in 1 .. Len(stream) : ProposalRead(j)' => ProposalRead(j)
    BY <1>2 DEF ProposalRead
  <2>2. \A j \in Len(stream) + 1 .. Len(stream') : ~ProposalRead(j)'
    BY <1>1 DEF ProposalRead
  <2>3. QED
    BY <1>1, <2>1, <2>2, KeptStep
<1>9. ASSUME epc' = "release" => FilledBy(ecur, "execution")'
      PROVE  FillInHand'
  <2>1. pc \in AfterFill => Posted(fill, cur, "agents")'
    BY <1>1, <1>2, <1>3 DEF FillInHand, Posted, AfterFill
  <2>2. QED
    BY <1>1, <1>3, <1>9, <2>1 DEF FillInHand
<1>10. QED
  BY <1>5, <1>6, <1>7, <1>8, <1>9

LEMMA ExecutionBook ==
    ASSUME AuditInv, BookInv, ExecStep \/ EHandlerError \/ ExecRestart,
           UNCHANGED <<agents, pc, fill, proposals, pending, ledger, cut, restarted>>
    PROVE  BookInv'
<1> USE DEF redisVars, EGoto
<1>1. /\ stream \in Seq(Entry) /\ Len(stream) \in Nat
      /\ exec \in Group /\ exec.next \in Nat /\ exec.last \in Nat
      /\ epc # "idle" => Holds(exec)
      /\ pc # "idle" => Holds(agents)
      /\ TypeOK /\ ExecCursorInv
      /\ PositionsExplained /\ FillInHand
  BY AuditFacts DEF BookInv
<1>2. Grows
  BY <1>1, ExecTypes
<1>3. Executing' = Executing /\ (Executing => cur' = cur)
  BY <1>1, <1>2, CurKept DEF Executing
<1>4. UNCHANGED exec /\ Holds(exec) => ecur' = ecur
  BY <1>2, CurKept
<1>5. \A t, x : FilledBy(t, x) => FilledBy(t, x)'
  BY <1>1, <1>2, FilledKept
<1>6. ASSUME NoNewFill, PositionsExplained', epc' = "release" => FilledBy(ecur, "execution")'
      PROVE  BookInv'
  BY <1>2, <1>6, AgentsAside DEF BookInv, NoNewFill
<1>7. CASE EFetch
  <2>1. UNCHANGED <<stream, positions, epc, execCut>> /\ epc = "idle"
    BY <1>7 DEF EFetch
  <2>2. PositionsExplained'
    BY <1>1, <1>3, <1>5, <2>1 DEF PositionsExplained
  <2>3. QED
    BY <1>6, <2>1, <2>2, UnchangedFills
<1>8. CASE EReserve
  <2>1. /\ UNCHANGED <<stream, exec, execCut>> /\ Holds(exec) /\ epc' = "execute" /\ epc = "idle"
        /\ positions' = positions \cup {ecur}
    BY <1>8 DEF EReserve
  <2>2. PositionsExplained'
    BY <1>1, <1>3, <1>4, <1>5, <2>1 DEF PositionsExplained
  <2>3. QED
    BY <1>6, <2>1, <2>2, UnchangedFills
<1>9. CASE EExecute
  <2>1. /\ Holds(exec) /\ ecur' = ecur /\ execFill' \in FillType
        /\ Publish(execFill', ecur, "execution")
        /\ epc # "idle" /\ epc' = "release" /\ UNCHANGED <<positions, execCut>>
    BY <1>1, <1>4, <1>9 DEF EExecute, Statuses, FillType
  <2>2. ecur \in Trades
    BY <1>1, <2>1, CurrentEntry DEF ecur, ExecCursorInv
  <2>3. /\ \A t \in Trades : FilledBy(t, "agents")' => FilledBy(t, "agents")
        /\ FilledBy(ecur, "execution")'
    <3>1. execFill' \in EventType /\ "execution" \in Source
      BY <2>1 DEF EventType, Source
    <3>2. /\ \A t, x : FilledBy(t, x)' => FilledBy(t, x) \/ (ecur = t /\ "execution" = x)
          /\ FilledBy(ecur, "execution")'
      BY <1>1, <2>1, <2>2, <3>1, PublishFills
    <3>3. QED
      BY <3>2
  <2>4. PositionsExplained'
    BY <1>1, <1>3, <1>5, <2>1 DEF PositionsExplained
  <2>5. QED
    BY <1>2, <2>1, <2>3, <2>4, AgentsAside DEF BookInv
<1>10. CASE ERelease
  <2>1. /\ UNCHANGED <<stream, execCut>> /\ epc = "release" /\ epc' = "idle"
        /\ positions' \subseteq positions
        /\ ecur \in positions' => ecur \in Directional
    BY <1>10 DEF ERelease, EDone
  <2>2. FilledBy(ecur, "execution")
    BY <1>1, <2>1 DEF FillInHand
  <2>3. PositionsExplained'
    BY <1>1, <1>3, <1>5, <2>1, <2>2 DEF PositionsExplained
  <2>4. QED
    BY <1>6, <2>1, <2>3, UnchangedFills
<1>11. CASE EHandlerError \/ ExecRestart
  <2>1. /\ UNCHANGED <<stream, positions>> /\ epc' = "idle" /\ execCut \subseteq execCut'
    BY <1>11 DEF EHandlerError, ExecRestart, EDone
  <2>2. epc # "idle" => ecur \in execCut'
    <3>1. CASE EHandlerError
      BY <3>1 DEF EHandlerError
    <3>2. CASE ExecRestart
      <4>1. exec.next \in exec.next .. exec.last
        BY <1>1, <3>2 DEF ExecRestart, Holds
      <4>2. QED
        BY <3>2, <4>1 DEF ExecRestart, Undone, ecur, Current
    <3>3. QED
      BY <1>11, <3>1, <3>2
  <2>3. PositionsExplained'
    BY <1>1, <1>3, <1>5, <2>1, <2>2 DEF PositionsExplained
  <2>4. QED
    BY <1>6, <2>1, <2>3, UnchangedFills
<1>12. QED
  BY <1>7, <1>8, <1>9, <1>10, <1>11 DEF ExecStep

(* A proposal is no fill; the monitor and the passing of time touch        *)
(* neither the stream nor a position.                                      *)
LEMMA BystanderBook ==
    ASSUME AuditInv, BookInv, Grows, NoNewFill,
           UNCHANGED <<positions, orchestratorVars, execVars, restarted>>
    PROVE  BookInv'
<1> USE DEF orchestratorVars, execVars
<1>1. /\ stream \in Seq(Entry)
      /\ pc # "idle" => Holds(agents)
      /\ epc # "idle" => Holds(exec)
      /\ PositionsExplained /\ FillInHand
  BY AuditFacts DEF BookInv
<1>2. /\ Executing' = Executing /\ (Executing => cur' = cur)
      /\ epc # "idle" => ecur' = ecur
  BY <1>1, CurKept DEF Executing
<1>3. \A t, x : FilledBy(t, x) => FilledBy(t, x)'
  BY <1>1, FilledKept
<1>4. PositionsExplained'
  BY <1>1, <1>2, <1>3 DEF PositionsExplained
<1>5. epc' = "release" => FilledBy(ecur, "execution")'
  BY <1>1, <1>2, <1>3 DEF FillInHand
<1>6. QED
  BY <1>4, <1>5, AgentsAside DEF BookInv, NoNewFill

-----------------------------------------------------------------------------
LEMMA BookStep == ASSUME AuditInv, BookInv, [Next]_vars PROVE BookInv'
<1> USE DEF redisVars, breakerVars
<1>1. stream \in Seq(Entry) /\ TypeOK /\ CursorsInv
  BY AuditFacts DEF AuditInv
<1>2. Grows
  BY <1>1, StepTypes
<1>3. CASE Orchestrate
  BY <1>3, OrchestratorBook DEF Orchestrate, execVars
<1>4. CASE OrchestratorError \/ AgentsRestart
  BY <1>4, OrchestratorFaultBook DEF OrchestratorError, AgentsRestart, execVars
<1>5. CASE Execution \/ ExecutionError \/ ExecutionRestart
  BY <1>5, ExecutionBook DEF Execution, ExecutionError, ExecutionRestart, orchestratorVars
<1>6. CASE Strategy
  <2>1. NoNewFill /\ UNCHANGED positions
    <3>1. CASE StartScan \/ EndScan
      BY <3>1, UnchangedFills DEF StartScan, EndScan
    <3>2. CASE Propose
      <4>1. PICK t \in Trades : Publish("trade.proposed", t, "agents")
        BY <3>2 DEF Propose
      <4>2. "trade.proposed" \in EventType \ FillType /\ "agents" \in Source
        BY DEF EventType, FillType, Source
      <4>3. QED
        BY <1>1, <3>2, <4>1, <4>2, PublishFills DEF NoNewFill, Propose
    <3>3. QED
      BY <1>6, <3>1, <3>2 DEF Strategy, StrategyStep
  <2>2. QED
    BY <1>2, <1>6, <2>1, BystanderBook DEF Strategy
<1>7. CASE Monitor \/ TimePasses \/ MonitorFault \/ UNCHANGED vars
  BY <1>2, <1>7, UnchangedFills, BystanderBook DEF Monitor, TimePasses, MonitorFault, vars
<1>8. QED
  BY <1>3, <1>4, <1>5, <1>6, <1>7 DEF Next

LEMMA BookInit == ASSUME Init PROVE BookInv
<1>1. /\ stream = <<>> /\ positions = {} /\ pc = "idle" /\ epc = "idle"
      /\ proposals = {} /\ pending = {} /\ ledger = {}
  BY DEF Init, RedisInit, OrchestratorInit, ExecInit
<1>2. 1 .. Len(stream) = {}
  BY <1>1
<1>3. QED
  BY <1>1, <1>2
  DEF BookInv, PositionsExplained, LedgerMatchesStream, UnknownStrategyNeedsRestart,
      FilledTradesForgotten, FillInHand, ProposalsKept, AfterFill, FilledBy

(* graph.py:44-63, portfolio/agent.py:14-33: the open positions, the       *)
(* ledger, _proposals and _pending stay what the audit trail and the fill  *)
(* in hand explain.                                                        *)
THEOREM BooksInvariant == Spec => [](AuditInv /\ BookInv)
<1>1. Init => AuditInv /\ BookInv
  BY AuditInit, BookInit
<1>2. AuditInv /\ BookInv /\ [Next]_vars => (AuditInv /\ BookInv)'
  BY AuditStep, BookStep
<1>3. QED
  BY <1>1, <1>2, PTL DEF Spec

(* graph.py:47-61, index.ts:71-75: whatever is counted against             *)
(* max_concurrent is held by a trade under way, written off by an error,   *)
(* or a directional trade that was filled.                                 *)
THEOREM PositionsAccounted == Spec => []PositionsExplained
<1>1. AuditInv /\ BookInv => PositionsExplained
  BY DEF BookInv
<1>2. QED
  BY <1>1, BooksInvariant, PTL

(* portfolio/agent.py:14-33: the ledger says neither more nor less than    *)
(* the audit trail.                                                        *)
THEOREM LedgerAgrees == Spec => []LedgerMatchesStream
<1>1. AuditInv /\ BookInv => LedgerMatchesStream
  BY DEF BookInv
<1>2. QED
  BY <1>1, BooksInvariant, PTL

(* graph.py:58: a fill is booked without its strategy only if _proposals   *)
(* was lost.                                                               *)
THEOREM StrategyKnown == Spec => []UnknownStrategyNeedsRestart
<1>1. AuditInv /\ BookInv => UnknownStrategyNeedsRestart
  BY DEF BookInv
<1>2. QED
  BY <1>1, BooksInvariant, PTL

(* graph.py:63: the two maps do not keep a filled trade, unless its        *)
(* handling was cut.                                                       *)
THEOREM MapsForget == Spec => []FilledTradesForgotten
<1>1. AuditInv /\ BookInv => FilledTradesForgotten
  BY DEF BookInv
<1>2. QED
  BY <1>1, BooksInvariant, PTL

-----------------------------------------------------------------------------
(* The streak of failures.                                                 *)

LEMMA ModOf ==
    ASSUME NEW q \in Nat, NEW r \in Nat, NEW m \in Nat \ {0}, r < m
    PROVE  (m * q + r) % m = r
OBVIOUS

(* Counting up modulo m.                                                   *)
LEMMA ModNext ==
    ASSUME NEW n \in Nat, NEW m \in Nat \ {0}
    PROVE  /\ n % m \in 0 .. m - 1
           /\ (n + 1) % m = IF (n % m) + 1 < m THEN (n % m) + 1 ELSE 0
<1> DEFINE q == n \div m
           r == n % m
<1>1. q \in Nat /\ r \in 0 .. m - 1 /\ n = m * q + r
  OBVIOUS
<1> HIDE DEF q, r
<1>2. CASE r + 1 < m
  <2>1. n + 1 = m * q + (r + 1)
    BY <1>1
  <2>2. (n + 1) % m = r + 1
    BY <1>1, <1>2, <2>1, ModOf
  <2>3. QED
    BY <1>1, <1>2, <2>2 DEF r
<1>3. CASE r + 1 = m
  <2>1. n + 1 = m * (q + 1) + 0
    BY <1>1, <1>3
  <2>2. (n + 1) % m = 0
    BY <1>1, <1>3, <2>1, ModOf
  <2>3. QED
    BY <1>1, <1>3, <2>2 DEF r
<1>4. QED
  BY <1>1, <1>2, <1>3

LEMMA TrailingFinite ==
    ASSUME stream \in Seq(Entry)
    PROVE  IsFiniteSet(FailuresSinceSuccess) /\ TrailingFailures \in Nat
<1>1. Len(stream) \in Nat /\ IsFiniteSet(1 .. Len(stream))
  BY FS_Interval
<1>2. FailuresSinceSuccess \subseteq 1 .. Len(stream)
  BY DEF FailuresSinceSuccess
<1>3. QED
  BY <1>1, <1>2, FS_Subset, FS_CardinalityType DEF TrailingFailures

(* What a publication does to the streak that the stream tells.            *)
LEMMA TrailingStep ==
    ASSUME stream \in Seq(Entry), NEW type \in EventType, NEW id \in Trades,
           NEW source \in Source, Publish(type, id, source)
    PROVE  /\ TrailingFailures \in Nat
           /\ type \notin FillType \/ source # "agents" => TrailingFailures' = TrailingFailures
           /\ type = "trade.failed" /\ source = "agents" => TrailingFailures' = TrailingFailures + 1
           /\ type = "trade.executed" /\ source = "agents" => TrailingFailures' = 0
<1>0. PICK n \in Nat : n = Len(stream) + 1
  OBVIOUS
<1>1. /\ stream' \in Seq(Entry) /\ Len(stream') = n /\ Len(stream) \in Nat /\ n \in Nat
      /\ \A i \in 1 .. Len(stream) : stream'[i] = stream[i]
      /\ stream'[n] = [type |-> type, id |-> id, source |-> source]
  BY <1>0, AppendEntry
<1>2. ASSUME NEW i \in 1 .. Len(stream), NEW t
      PROVE  AgentsFillAt(i, t)' <=> AgentsFillAt(i, t)
  <2>1. stream'[i] = stream[i]
    BY <1>1
  <2>2. QED
    BY <2>1 DEF AgentsFillAt
<1>3. /\ stream'[n].type = type
      /\ stream'[n].source = source
  BY <1>1
<1>4. IsFiniteSet(FailuresSinceSuccess) /\ TrailingFailures \in Nat
  BY TrailingFinite
<1>5. n \notin FailuresSinceSuccess
  BY <1>0, <1>1 DEF FailuresSinceSuccess
<1>6. 1 .. n = 1 .. Len(stream) \cup {n} /\ \A i \in 1 .. Len(stream) : i .. n = i .. Len(stream) \cup {n}
  BY <1>0, <1>1
<1>7. \A i : i \in FailuresSinceSuccess <=>
           /\ i \in 1 .. Len(stream) /\ AgentsFillAt(i, "trade.failed")
           /\ \A j \in i .. Len(stream) : ~AgentsFillAt(j, "trade.executed")
  BY DEF FailuresSinceSuccess
<1>8. \A i : i \in FailuresSinceSuccess' <=>
           /\ i \in 1 .. n /\ AgentsFillAt(i, "trade.failed")'
           /\ \A j \in i .. n : ~AgentsFillAt(j, "trade.executed")'
  BY <1>1 DEF FailuresSinceSuccess
<1>9. \A i \in 1 .. Len(stream) : \A j \in i .. Len(stream) : j \in 1 .. Len(stream)
  BY <1>1
<1>10. ASSUME type \notin FillType \/ source # "agents"
       PROVE  FailuresSinceSuccess' = FailuresSinceSuccess
  <2>1. ~AgentsFillAt(n, "trade.failed")' /\ ~AgentsFillAt(n, "trade.executed")'
    BY <1>3, <1>10 DEF FillType, AgentsFillAt
  <2>2. \A i : i \in FailuresSinceSuccess' <=> i \in FailuresSinceSuccess
    BY <1>2, <1>6, <1>7, <1>8, <1>9, <2>1
  <2>3. QED
    BY <2>2 DEF FailuresSinceSuccess
<1>11. ASSUME type = "trade.failed", source = "agents"
       PROVE  FailuresSinceSuccess' = FailuresSinceSuccess \cup {n}
  <2>1. AgentsFillAt(n, "trade.failed")' /\ ~AgentsFillAt(n, "trade.executed")'
    BY <1>3, <1>11 DEF AgentsFillAt
  <2>2. n .. n = {n}
    BY <1>1
  <2>3. \A i : i \in FailuresSinceSuccess' <=> i \in FailuresSinceSuccess \/ i = n
    BY <1>2, <1>6, <1>7, <1>8, <1>9, <2>1, <2>2
  <2>4. QED
    BY <2>3 DEF FailuresSinceSuccess
<1>12. ASSUME type = "trade.executed", source = "agents"
       PROVE  FailuresSinceSuccess' = {}
  <2>1. AgentsFillAt(n, "trade.executed")'
    BY <1>3, <1>12 DEF AgentsFillAt
  <2>2. \A i \in 1 .. n : n \in i .. n
    BY <1>1
  <2>3. \A i : i \notin FailuresSinceSuccess'
    BY <1>8, <2>1, <2>2
  <2>4. QED
    BY <2>3 DEF FailuresSinceSuccess
<1>13. QED
  BY <1>4, <1>5, <1>10, <1>11, <1>12, FS_AddElement, FS_EmptySet DEF TrailingFailures

LEMMA TrailingUnchanged == ASSUME UNCHANGED stream PROVE TrailingFailures' = TrailingFailures
BY DEF TrailingFailures, FailuresSinceSuccess, AgentsFillAt

LEMMA StreakStep == ASSUME AuditInv, StreakInv, [Next]_vars PROVE StreakInv'
<1> USE DEF redisVars, breakerVars, orchestratorVars, execVars, memoryVars, Goto
<1>1. /\ stream \in Seq(Entry) /\ TrailingFailures \in Nat /\ failStreak \in Nat
      /\ pc # "idle" => Holds(agents)
      /\ epc # "idle" => Holds(exec)
      /\ fill \in FillType \cup {"none"} /\ pc \in AfterFill => fill \in FillType
      /\ FailThreshold \in Nat \ {0} /\ faults \in Nat
      /\ Holds(agents) => cur \in Trades
      /\ Holds(exec) => ecur \in Trades
  BY AuditFacts, TrailingFinite, CurrentEntry, OrchestratorAssumption, FaultsAssumption
  DEF TypeOK, OrchestratorTypeOK, cur, ecur, AgentsCursorInv, ExecCursorInv
<1>2. CASE TrailingFailures' = TrailingFailures /\ UNCHANGED <<failStreak, faults>>
           /\ pc \notin Accounting /\ pc' \notin Accounting
  BY <1>2 DEF StreakInv, Accounting
<1>3. CASE UNCHANGED <<stream, pc, fill, failStreak, faults>>
  BY <1>3, TrailingUnchanged DEF StreakInv
<1>4. ASSUME NEW type \in EventType \ FillType, NEW id \in Trades, Publish(type, id, "agents")
      PROVE  TrailingFailures' = TrailingFailures
  BY <1>1, <1>4, TrailingStep DEF Source
<1>5. CASE Orchestrate
  <2>1. CASE Fetch \/ OnProposed \/ OnSized \/ OnApproved \/ Gate \/ TripDrawdown \/ Reserve \/ Book
             \/ Release
    <3>1. /\ UNCHANGED <<stream, failStreak, faults>>
          /\ pc \notin Accounting /\ pc' \notin Accounting
      BY <1>5, <2>1
      DEF Orchestrate, Fetch, OnProposed, OnSized, OnApproved, Gate, TripDrawdown, Reserve, Book,
          Release, Done, Accounting
    <3>2. QED
      BY <1>2, <3>1, TrailingUnchanged
  <2>2. CASE GateLimits \/ Reject \/ Approve \/ Simulate
    <3>1. /\ UNCHANGED <<failStreak, faults>>
          /\ pc \notin Accounting /\ pc' \notin Accounting /\ pc # "idle"
          /\ \/ UNCHANGED stream
             \/ \E type \in EventType \ FillType : Publish(type, cur, "agents")
      BY <1>5, <2>2
      DEF Orchestrate, GateLimits, Reject, Approve, Simulate, Done, Accounting, EventType, FillType
    <3>2. QED
      BY <1>1, <1>2, <1>4, <3>1, TrailingUnchanged
  <2>3. CASE Execute
    <3>1. /\ pc = "execute" /\ pc' = "account" /\ UNCHANGED <<failStreak, faults>>
          /\ fill' \in FillType /\ Publish(fill', cur, "agents") /\ cur \in Trades
      BY <1>1, <1>5, <2>3 DEF Orchestrate, Execute, FillType
    <3>2. fill' \in EventType /\ "agents" \in Source
      BY <3>1 DEF EventType, Source
    <3>3. /\ fill' = "trade.failed" => TrailingFailures' = TrailingFailures + 1
          /\ fill' = "trade.executed" => TrailingFailures' = 0
      BY <1>1, <3>1, <3>2, TrailingStep
    <3>4. ASSUME faults = 0 PROVE failStreak = TrailingFailures % FailThreshold
      BY <3>1, <3>4 DEF StreakInv, Accounting
    <3>5. QED
      BY <1>1, <3>1, <3>3, <3>4 DEF StreakInv, Accounting, FillType
  <2>4. CASE AccountFill
    <3>1. /\ pc = "account" /\ UNCHANGED <<faults, stream, fill>>
          /\ failStreak' = IF fill = "trade.failed" THEN failStreak + 1 ELSE 0
          /\ pc' = IF failStreak' >= FailThreshold THEN "tripFailures" ELSE "book"
      BY <1>5, <2>4 DEF Orchestrate, AccountFill
    <3>2. TrailingFailures' = TrailingFailures
      BY <3>1, TrailingUnchanged
    <3>3. CASE fill = "trade.failed" /\ faults = 0
      <4>1. TrailingFailures - 1 \in Nat /\ failStreak = (TrailingFailures - 1) % FailThreshold
        BY <1>1, <3>1, <3>3 DEF StreakInv
      <4>2. /\ failStreak \in 0 .. FailThreshold - 1
            /\ TrailingFailures % FailThreshold = IF failStreak + 1 < FailThreshold THEN failStreak + 1 ELSE 0
        <5>1. PICK k \in Nat : k = TrailingFailures - 1
          BY <4>1
        <5>2. k + 1 = TrailingFailures
          BY <1>1, <5>1
        <5>3. QED
          BY <1>1, <4>1, <5>1, <5>2, ModNext
      <4>3. QED
        BY <1>1, <3>1, <3>2, <3>3, <4>2 DEF StreakInv, Accounting
    <3>4. CASE fill # "trade.failed" /\ faults = 0
      <4>1. TrailingFailures = 0
        BY <3>1, <3>4 DEF StreakInv
      <4>2. 0 % FailThreshold = 0 /\ ~(0 >= FailThreshold)
        BY <1>1
      <4>3. QED
        BY <3>1, <3>2, <3>4, <4>1, <4>2 DEF StreakInv, Accounting
    <3>5. QED
      BY <3>1, <3>3, <3>4 DEF StreakInv
  <2>5. CASE TripFailures \/ ClearStreak
    <3>1. /\ pc \in Accounting \ {"account"} /\ UNCHANGED <<faults, stream>>
          /\ \/ pc' = "clearStreak" /\ UNCHANGED failStreak
             \/ pc' = "book" /\ failStreak' = 0
      BY <1>5, <2>5 DEF Orchestrate, TripFailures, ClearStreak, Accounting
    <3>2. QED
      BY <3>1, TrailingUnchanged DEF StreakInv, Accounting
  <2>6. QED
    BY <1>5, <2>1, <2>2, <2>3, <2>4, <2>5 DEF Orchestrate, OrchestratorStep
<1>6. CASE Fault
  BY <1>1, <1>6 DEF Fault, StreakInv
<1>7. CASE Strategy
  <2>1. CASE Propose
    <3>1. PICK t \in Trades : Publish("trade.proposed", t, "agents")
      BY <2>1 DEF Propose
    <3>2. TrailingFailures' = TrailingFailures
      BY <1>4, <3>1 DEF EventType, FillType
    <3>3. QED
      BY <1>7, <3>2 DEF Strategy, StreakInv
  <2>2. QED
    BY <1>3, <1>7, <2>1 DEF Strategy, StrategyStep, StartScan, EndScan
<1>8. CASE Execution
  <2>1. CASE EExecute
    <3>1. /\ Publish(execFill', ecur, "execution") /\ ecur \in Trades /\ execFill' \in EventType
      BY <1>1, <2>1 DEF EExecute, Statuses, EventType, FillType
    <3>2. TrailingFailures' = TrailingFailures
      BY <1>1, <3>1, TrailingStep DEF Source
    <3>3. QED
      BY <1>8, <3>2 DEF Execution, StreakInv
  <2>2. QED
    BY <1>3, <1>8, <2>1 DEF Execution, ExecStep, EFetch, EReserve, ERelease
<1>9. CASE Monitor \/ TimePasses \/ UNCHANGED vars
  BY <1>3, <1>9 DEF Monitor, TimePasses, vars
<1>10. QED
  BY <1>5, <1>6, <1>7, <1>8, <1>9
  DEF Next, OrchestratorError, MonitorFault, ExecutionError, AgentsRestart, ExecutionRestart

LEMMA StreakInit == ASSUME Init PROVE StreakInv
<1>1. stream = <<>> /\ pc = "idle" /\ failStreak = 0 /\ FailThreshold \in Nat \ {0}
  BY OrchestratorAssumption DEF Init, RedisInit, OrchestratorInit
<1>2. FailuresSinceSuccess = {}
  BY <1>1 DEF FailuresSinceSuccess
<1>3. TrailingFailures = 0 /\ 0 % FailThreshold = 0
  BY <1>1, <1>2, FS_EmptySet DEF TrailingFailures
<1>4. QED
  BY <1>1, <1>3 DEF StreakInv, Accounting

(* risk/agent.py:68-75: as long as nothing fails, the streak that trips    *)
(* the breaker is what the audit trail says of the fills of the agents,    *)
(* modulo the threshold.                                                   *)
THEOREM StreakAgrees == Spec => []StreakMatchesStream
<1>1. AuditInv /\ StreakInv /\ [Next]_vars => (AuditInv /\ StreakInv)'
  BY AuditStep, StreakStep
<1>2. Init => AuditInv /\ StreakInv
  BY AuditInit, StreakInit
<1>3. StreakInv => StreakMatchesStream
  BY DEF StreakInv, StreakMatchesStream, Accounting
<1>4. QED
  BY <1>1, <1>2, <1>3, PTL DEF Spec
-----------------------------------------------------------------------------
(* What no failure and no interleaving loses.                              *)

(* Who publishes what.                                                     *)
Publication(type, id, source) ==
    /\ Publish(type, id, source)
    /\ type = "trade.proposed" => UNCHANGED agents
    /\ type = "trade.sized" => pc = "limits" /\ id = cur
    /\ source = "execution" => epc = "execute"
    /\ UNCHANGED exec

LEMMA Publications ==
    ASSUME AuditInv, [Next]_vars
    PROVE  \/ UNCHANGED stream
           \/ \E type \in EventType, id \in Trades, source \in Source : Publication(type, id, source)
<1> USE DEF redisVars
<1>1. /\ stream \in Seq(Entry) /\ agents \in Group /\ exec \in Group
      /\ agents.last <= Len(stream) /\ exec.last <= Len(stream)
      /\ pc # "idle" => Holds(agents)
      /\ epc # "idle" => Holds(exec)
  BY AuditFacts DEF ExecCursorInv, AgentsCursorInv
<1>2. (pc # "idle" => cur \in Trades) /\ (epc # "idle" => ecur \in Trades)
  BY <1>1, CurrentEntry DEF cur, ecur
<1>3. CASE Orchestrate
  <2>1. CASE GateLimits \/ Reject \/ Simulate \/ Approve \/ Execute
    <3>1. pc # "idle" /\ (pc = "limits" \/ ~GateLimits)
      BY <2>1 DEF GateLimits, Reject, Simulate, Approve, Execute
    <3>2. \/ UNCHANGED stream
          \/ \E type \in EventType \ {"trade.proposed"} :
                /\ Publish(type, cur, "agents") /\ (type = "trade.sized" => GateLimits)
      <4>1. CASE GateLimits
        BY <4>1 DEF GateLimits, EventType
      <4>2. CASE Reject
        BY <4>2 DEF Reject, EventType
      <4>3. CASE Simulate
        BY <4>3 DEF Simulate, EventType
      <4>4. CASE Approve
        BY <4>4 DEF Approve, EventType
      <4>5. CASE Execute
        <5>1. PICK type \in FillType : Publish(type, cur, "agents")
          BY <4>5 DEF Execute, FillType
        <5>2. type \in EventType \ {"trade.proposed"} /\ type # "trade.sized"
          BY DEF FillType, EventType
        <5>3. QED
          BY <5>1, <5>2
      <4>6. QED
        BY <2>1, <4>1, <4>2, <4>3, <4>4, <4>5
    <3>3. QED
      BY <1>2, <1>3, <3>1, <3>2 DEF Publication, Source, Orchestrate, execVars
  <2>2. UNCHANGED stream \/ GateLimits \/ Reject \/ Simulate \/ Approve \/ Execute
    BY <1>3 DEF Orchestrate, OrchestratorStep, Fetch, OnProposed, OnSized, OnApproved, Gate,
       TripDrawdown, Reserve, AccountFill, TripFailures, ClearStreak, Book, Release
  <2>3. QED
    BY <2>1, <2>2
<1>4. CASE Strategy
  <2>1. CASE StartScan \/ EndScan
    BY <2>1 DEF StartScan, EndScan
  <2>2. CASE Propose
    <3>1. PICK t \in Trades : Publish("trade.proposed", t, "agents")
      BY <2>2 DEF Propose
    <3>2. QED
      BY <1>4, <3>1 DEF Strategy, orchestratorVars, execVars, Publication, EventType, Source
  <2>3. QED
    BY <1>4, <2>1, <2>2 DEF Strategy, StrategyStep
<1>5. CASE Execution
  <2>1. CASE EExecute
    <3>1. PICK type \in FillType : Publish(type, ecur, "execution") /\ epc = "execute" /\ UNCHANGED exec
      BY <2>1 DEF EExecute, Statuses, FillType
    <3>2. type \in EventType /\ type # "trade.proposed" /\ type # "trade.sized"
      BY DEF FillType, EventType
    <3>3. QED
      BY <1>2, <3>1, <3>2 DEF Publication, Source
  <2>2. CASE EFetch \/ EReserve \/ ERelease
    BY <2>2 DEF EFetch, EReserve, ERelease
  <2>3. QED
    BY <1>5, <2>1, <2>2 DEF Execution, ExecStep
<1>6. CASE Monitor \/ TimePasses \/ MonitorFault \/ UNCHANGED vars
  BY <1>6 DEF Monitor, TimePasses, MonitorFault, vars
<1>7. CASE OrchestratorError \/ ExecutionError \/ AgentsRestart \/ ExecutionRestart
  BY <1>7 DEF OrchestratorError, HandlerError, ExecutionError, EHandlerError,
     AgentsRestart, OrchestratorRestart, ExecutionRestart, ExecRestart
<1>8. QED
  BY <1>3, <1>4, <1>5, <1>6, <1>7 DEF Next

(* What a publication adds to the stream.                                  *)
LEMMA PublishAdds ==
    ASSUME stream \in Seq(Entry), NEW type \in EventType, NEW id \in Trades,
           NEW source \in Source, Publish(type, id, source)
    PROVE  \A e, t : InStream(e, t)' <=> InStream(e, t) \/ (e = type /\ t = id)
<1>1. /\ Len(stream') = Len(stream) + 1 /\ Len(stream) \in Nat
      /\ \A i \in 1 .. Len(stream) : stream'[i] = stream[i]
      /\ stream'[Len(stream) + 1] = [type |-> type, id |-> id, source |-> source]
  BY AppendEntry
<1>2. 1 .. Len(stream') = 1 .. Len(stream) \cup {Len(stream) + 1}
  BY <1>1
<1>3. QED
  BY <1>1, <1>2 DEF InStream

LEMMA InStreamKept ==
    ASSUME stream \in Seq(Entry), Grows, NEW e, NEW t, InStream(e, t)
    PROVE  InStream(e, t)'
<1>1. \A i \in 1 .. Len(stream) : i \in 1 .. Len(stream') /\ stream'[i] = stream[i]
  BY DEF Grows
<1>2. QED
  BY <1>1 DEF InStream

(* The orchestrator still has to read an entry about the trade, or has it  *)
(* in hand.                                                                *)
Ahead(t) == \E j \in agents.next .. Len(stream) : stream[j].id = t /\ stream[j].type \in Handled

NoProposalLost ==
    \A t \in Trades : InStream("trade.proposed", t) => Settled(t) \/ t \in cut \/ Ahead(t)

(* The same for the execution service and what was approved.               *)
ExecAhead(t) == \E j \in exec.next .. Len(stream) :
                    stream[j].id = t /\ stream[j].type = "trade.approved"

NoApprovalLost ==
    \A t \in Trades : InStream("trade.approved", t) =>
        FilledBy(t, "execution") \/ t \in execCut \/ ExecAhead(t)

LEMMA AheadStays ==
    ASSUME stream \in Seq(Entry), Grows, agents \in Group, agents'.next \in Nat,
           NEW t, Ahead(t),
           \A j \in agents.next .. agents'.next - 1 :
               stream[j].type \in Handled => stream[j].id # t
    PROVE  Ahead(t)'
<1>1. PICK j \in agents.next .. Len(stream) : stream[j].id = t /\ stream[j].type \in Handled
  BY DEF Ahead
<1>2. /\ Len(stream) \in Nat /\ Len(stream') \in Nat /\ Len(stream) <= Len(stream')
      /\ agents.next \in Nat \ {0}
  BY DEF Grows, Group
<1>3. j \in agents'.next .. Len(stream') /\ j \in 1 .. Len(stream)
  BY <1>1, <1>2
<1>4. stream'[j] = stream[j]
  BY <1>3 DEF Grows
<1>5. QED
  BY <1>1, <1>3, <1>4 DEF Ahead, Handled

(* What is published comes after everything that has been read.            *)
LEMMA NewIsAhead ==
    ASSUME stream \in Seq(Entry), agents' \in Group, NEW type \in EventType, NEW id \in Trades,
           NEW source \in Source, Publish(type, id, source),
           agents'.next <= agents'.last + 1, agents'.last <= Len(stream), type \in Handled
    PROVE  Ahead(id)'
<1>1. /\ Len(stream') = Len(stream) + 1 /\ Len(stream) \in Nat
      /\ stream'[Len(stream) + 1] = [type |-> type, id |-> id, source |-> source]
  BY AppendEntry
<1>2. Len(stream) + 1 \in agents'.next .. Len(stream')
  BY <1>1 DEF Group
<1>3. QED
  BY <1>1, <1>2 DEF Ahead, Handled

LEMMA SettledStays ==
    ASSUME stream \in Seq(Entry), Grows, NEW t, Settled(t)
    PROVE  Settled(t)'
BY FilledKept, InStreamKept DEF Settled

(* handle() is done with an entry: its trade is settled, or written off,   *)
(* or the next entry about it is in the stream.                            *)
LEMMA DoneAhead ==
    ASSUME AuditInv, BookInv, Grows, Holds(agents), Done, agents' \in Group,
           GateLimits \/ Reject \/ Approve \/ Release \/ HandlerError
    PROVE  \A t \in Trades : Ahead(t) => Ahead(t)' \/ Settled(t)' \/ t \in cut'
<1> USE DEF redisVars, memoryVars
<1>1. /\ stream \in Seq(Entry) /\ agents \in Group /\ agents.next \in Nat /\ agents.last \in Nat
      /\ agents.last <= Len(stream) /\ AgentsCursorInv /\ FillInHand
      /\ cur \in Trades
  BY AuditFacts, CurrentEntry DEF BookInv, cur
<1>2. /\ agents'.next \in Nat /\ agents.next < agents'.next /\ agents'.last = agents.last
      /\ agents'.next <= agents'.last + 1
  BY <1>1, DoneMovesCursor DEF Group, AgentsCursorInv
<1>3. ASSUME NEW t, Ahead(t), t # cur
      PROVE  Ahead(t)'
  <2>1. ASSUME NEW j \in agents.next .. agents'.next - 1, stream[j].type \in Handled
        PROVE  stream[j].id # t
    <3>1. j = agents.next \/ j \in agents.next + 1 .. agents'.next - 1
      BY <1>1, <1>2
    <3>2. agents' \in Advanced(agents, Handled)
      BY DEF Done
    <3>3. j = agents.next
      BY <2>1, <3>1, <3>2, SeekingSkips
    <3>4. QED
      BY <1>3, <3>3 DEF cur, Current
  <2>2. QED
    BY <1>1, <1>2, <1>3, <2>1, AheadStays
<1>4. ASSUME NEW t \in Trades, t = cur
      PROVE  Ahead(t)' \/ Settled(t)' \/ t \in cut'
  <2>1. CASE HandlerError
    BY <1>4, <2>1 DEF HandlerError
  <2>2. CASE Release
    <3>1. pc = "release" /\ UNCHANGED stream
      BY <2>2 DEF Release
    <3>2. Posted(fill, cur, "agents") /\ fill \in FillType
      BY <1>1, <3>1 DEF FillInHand, AgentsCursorInv, AfterFill
    <3>3. FilledBy(t, "agents")
      BY <1>4, <3>2 DEF Posted, FilledBy
    <3>4. Settled(t)
      BY <3>3 DEF Settled
    <3>5. QED
      BY <1>1, <3>4, SettledStays
  <2>3. CASE Reject
    <3>1. Publish("trade.rejected", t, "agents")
      BY <1>4, <2>3 DEF Reject
    <3>2. InStream("trade.rejected", t)'
      BY <1>1, <3>1, PublishAdds DEF EventType, Source
    <3>3. QED
      BY <1>1, <2>3, <3>2 DEF Settled
  <2>4. CASE Approve
    BY <1>1, <1>2, <1>4, <2>4, NewIsAhead DEF Approve, EventType, Source, Handled
  <2>5. CASE GateLimits
    <3>1. CASE UNCHANGED agents
      BY <1>1, <1>2, <3>1
    <3>2. CASE Publish("trade.sized", cur, "agents")
      BY <1>1, <1>2, <1>4, <3>2, NewIsAhead DEF EventType, Source, Handled
    <3>3. QED
      BY <2>5, <3>1, <3>2 DEF GateLimits
  <2>6. QED
    BY <2>1, <2>2, <2>3, <2>4, <2>5
<1>5. QED
  BY <1>3, <1>4

LEMMA AheadNext ==
    ASSUME AuditInv, BookInv, [Next]_vars
    PROVE  /\ cut \subseteq cut'
           /\ \A t \in Trades : Ahead(t) => Ahead(t)' \/ Settled(t)' \/ t \in cut'
<1> USE DEF redisVars, memoryVars, orchestratorVars
<1>1. /\ stream \in Seq(Entry) /\ agents \in Group /\ agents.next \in Nat /\ agents.last \in Nat
      /\ agents.next <= agents.last + 1 /\ agents.last <= Len(stream) /\ Len(stream) \in Nat
      /\ pc # "idle" => Holds(agents)
      /\ AgentsCursorInv /\ TypeOK /\ CursorsInv
  BY AuditFacts DEF AuditInv
<1>2. Grows /\ agents' \in Group /\ agents'.next \in Nat
  BY <1>1, StepTypes DEF TypeOK, OrchestratorTypeOK, Group
<1>3. ASSUME UNCHANGED agents
      PROVE  \A t \in Trades : Ahead(t) => Ahead(t)'
  BY <1>1, <1>2, <1>3, AheadStays
<1>4. CASE OrchestratorStep
  <2>1. UNCHANGED cut
    BY <1>4 DEF OrchestratorStep, Fetch, OnProposed, OnSized, OnApproved, Gate, TripDrawdown,
       GateLimits, Reject, Simulate, Approve, Reserve, Execute, AccountFill, TripFailures,
       ClearStreak, Book, Release
  <2>2. CASE Fetch
    <3>1. agents' \in Fetched(agents, ReadCount, Handled) /\ agents.next = agents.last + 1
      BY <1>1, <2>2 DEF Fetch, CanFetch, Holds
    <3>2. \A j \in agents.next .. agents'.next - 1 : stream[j].type \notin Handled
      BY <3>1, SeekingSkips
    <3>3. QED
      BY <1>1, <1>2, <2>1, <3>2, AheadStays
  <2>3. CASE (GateLimits \/ Reject \/ Approve \/ Release) /\ Done
    <3>1. Holds(agents)
      BY <1>1, <2>3 DEF GateLimits, Reject, Approve, Release
    <3>2. QED
      BY <1>2, <2>1, <2>3, <3>1, DoneAhead
  <2>4. CASE UNCHANGED agents
    BY <1>3, <2>1, <2>4
  <2>5. ((GateLimits \/ Reject \/ Approve \/ Release) /\ Done) \/ UNCHANGED agents \/ Fetch
    BY <1>4 DEF OrchestratorStep, OnProposed, OnSized, OnApproved, Gate, TripDrawdown,
       GateLimits, Reject, Simulate, Approve, Reserve, Execute, AccountFill, TripFailures,
       ClearStreak, Book, Release
  <2>6. QED
    BY <2>2, <2>3, <2>4, <2>5
<1>5. CASE HandlerError
  <2>1. cut \subseteq cut' /\ Done /\ Holds(agents)
    BY <1>1, <1>5 DEF HandlerError
  <2>2. QED
    BY <1>2, <1>5, <2>1, DoneAhead
<1>6. CASE OrchestratorRestart
  <2>1. /\ agents'.next = agents.last + 1 /\ cut' = cut \cup Undone(agents)
    BY <1>1, <1>6 DEF OrchestratorRestart, Restarted, Group
  <2>2. ASSUME NEW t \in Trades, Ahead(t), t \notin Undone(agents)
        PROVE  Ahead(t)'
    <3>1. \A j \in agents.next .. agents'.next - 1 : stream[j].id # t
      BY <1>1, <2>1, <2>2 DEF Undone
    <3>2. QED
      BY <1>1, <1>2, <2>2, <3>1, AheadStays
  <2>3. QED
    BY <2>1, <2>2
<1>7. CASE UNCHANGED <<agents, cut>>
  BY <1>3, <1>7
<1>8. QED
  BY <1>4, <1>5, <1>6, <1>7
  DEF Next, Strategy, Orchestrate, Monitor, Execution, TimePasses, OrchestratorError, MonitorFault,
      ExecutionError, AgentsRestart, ExecutionRestart, vars

LEMMA ProposalStep ==
    ASSUME AuditInv, BookInv, NoProposalLost, [Next]_vars
    PROVE  NoProposalLost'
<1>1. /\ stream \in Seq(Entry) /\ agents \in Group /\ agents.next <= agents.last + 1
      /\ agents.last <= Len(stream) /\ TypeOK /\ CursorsInv
  BY AuditFacts DEF AuditInv
<1>2. Grows
  BY <1>1, StepTypes
<1>3. SUFFICES ASSUME NEW t \in Trades, InStream("trade.proposed", t)'
               PROVE  Settled(t)' \/ t \in cut' \/ Ahead(t)'
  BY DEF NoProposalLost
<1>4. CASE InStream("trade.proposed", t)
  <2>1. Settled(t) \/ t \in cut \/ Ahead(t)
    BY <1>4 DEF NoProposalLost
  <2>2. QED
    BY <1>1, <1>2, <2>1, AheadNext, SettledStays
<1>5. CASE ~InStream("trade.proposed", t)
  <2>1. stream' # stream
    BY <1>3, <1>5 DEF InStream
  <2>2. PICK type \in EventType, id \in Trades, source \in Source : Publication(type, id, source)
    BY <2>1, Publications
  <2>3. type = "trade.proposed" /\ id = t /\ Publish(type, id, source) /\ UNCHANGED agents
    BY <1>1, <1>3, <1>5, <2>2, PublishAdds DEF Publication
  <2>4. QED
    BY <1>1, <2>3, NewIsAhead DEF Handled
<1>6. QED
  BY <1>4, <1>5

LEMMA ExecAheadStays ==
    ASSUME stream \in Seq(Entry), Grows, exec \in Group, exec'.next \in Nat,
           NEW t, ExecAhead(t),
           \A j \in exec.next .. exec'.next - 1 :
               stream[j].type = "trade.approved" => stream[j].id # t
    PROVE  ExecAhead(t)'
<1>1. PICK j \in exec.next .. Len(stream) : stream[j].id = t /\ stream[j].type = "trade.approved"
  BY DEF ExecAhead
<1>2. /\ Len(stream) \in Nat /\ Len(stream') \in Nat /\ Len(stream) <= Len(stream')
      /\ exec.next \in Nat \ {0}
  BY DEF Grows, Group
<1>3. j \in exec'.next .. Len(stream') /\ j \in 1 .. Len(stream)
  BY <1>1, <1>2
<1>4. stream'[j] = stream[j]
  BY <1>3 DEF Grows
<1>5. QED
  BY <1>1, <1>3, <1>4 DEF ExecAhead

LEMMA ExecAheadNext ==
    ASSUME AuditInv, BookInv, [Next]_vars
    PROVE  /\ execCut \subseteq execCut'
           /\ \A t \in Trades : ExecAhead(t) =>
                  ExecAhead(t)' \/ FilledBy(t, "execution")' \/ t \in execCut'
<1> USE DEF redisVars, execVars
<1>1. /\ stream \in Seq(Entry) /\ exec \in Group /\ exec.next \in Nat /\ exec.last \in Nat
      /\ exec.next <= exec.last + 1 /\ exec.last <= Len(stream) /\ Len(stream) \in Nat
      /\ epc # "idle" => Holds(exec)
      /\ FillInHand /\ TypeOK /\ CursorsInv
  BY AuditFacts DEF AuditInv, ExecCursorInv, BookInv
<1>2. Grows /\ exec' \in Group /\ exec'.next \in Nat
  BY <1>1, StepTypes DEF TypeOK, ExecTypeOK, Group
<1>3. ASSUME UNCHANGED exec
      PROVE  \A t \in Trades : ExecAhead(t) => ExecAhead(t)'
  BY <1>1, <1>2, <1>3, ExecAheadStays
<1>4. ASSUME Holds(exec), EDone, NEW t \in Trades, ExecAhead(t)
      PROVE  ExecAhead(t)' \/ t = ecur
  <2>1. SUFFICES ASSUME t # ecur
                 PROVE  ExecAhead(t)'
    OBVIOUS
  <2>2. ASSUME NEW j \in exec.next .. exec'.next - 1, stream[j].type = "trade.approved"
        PROVE  stream[j].id # t
    <3>1. exec' \in Advanced(exec, {"trade.approved"})
      BY <1>4 DEF EDone
    <3>2. j = exec.next \/ j \in exec.next + 1 .. exec'.next - 1
      BY <1>1, <1>2
    <3>3. j = exec.next
      BY <2>2, <3>1, <3>2 DEF Advanced, Seeking
    <3>4. QED
      BY <2>1, <3>3 DEF ecur, Current
  <2>3. QED
    BY <1>1, <1>2, <1>4, <2>2, ExecAheadStays
<1>5. CASE EFetch
  <2>1. /\ exec' \in Fetched(exec, ExecReadCount, {"trade.approved"})
        /\ exec.next = exec.last + 1 /\ UNCHANGED execCut
    BY <1>1, <1>5 DEF EFetch, CanFetch, Holds
  <2>2. \A j \in exec.next .. exec'.next - 1 : stream[j].type # "trade.approved"
    BY <2>1 DEF Fetched, Seeking
  <2>3. QED
    BY <1>1, <1>2, <2>1, <2>2, ExecAheadStays
<1>6. CASE ERelease
  <2>1. Holds(exec) /\ EDone /\ FilledBy(ecur, "execution") /\ UNCHANGED execCut
    BY <1>1, <1>6 DEF ERelease, FillInHand
  <2>2. ASSUME NEW t \in Trades, t = ecur
        PROVE  FilledBy(t, "execution")'
    BY <1>1, <1>2, <2>1, <2>2, FilledKept
  <2>3. QED
    BY <1>4, <2>1, <2>2
<1>7. CASE EHandlerError
  <2>1. Holds(exec) /\ EDone /\ execCut' = execCut \cup {ecur}
    BY <1>7 DEF EHandlerError
  <2>2. QED
    BY <1>4, <2>1
<1>8. CASE ExecRestart
  <2>1. /\ exec'.next = exec.last + 1 /\ execCut' = execCut \cup Undone(exec)
    BY <1>1, <1>8 DEF ExecRestart, Restarted, Group
  <2>2. ASSUME NEW t \in Trades, ExecAhead(t), t \notin Undone(exec)
        PROVE  ExecAhead(t)'
    <3>1. \A j \in exec.next .. exec'.next - 1 : stream[j].id # t
      BY <1>1, <2>1, <2>2 DEF Undone
    <3>2. QED
      BY <1>1, <1>2, <2>2, <3>1, ExecAheadStays
  <2>3. QED
    BY <2>1, <2>2
<1>9. CASE UNCHANGED <<exec, execCut>>
  BY <1>3, <1>9
<1>10. QED
  <2>1. CASE Execution
    BY <1>5, <1>6, <1>9, <2>1 DEF Execution, ExecStep, EReserve, EExecute
  <2>2. CASE ~Execution
    BY <1>7, <1>8, <1>9, <2>2
    DEF Next, Strategy, Orchestrate, Monitor, TimePasses, OrchestratorError, MonitorFault,
        ExecutionError, AgentsRestart, ExecutionRestart, vars
  <2>3. QED
    BY <2>1, <2>2

LEMMA ApprovalStep ==
    ASSUME AuditInv, BookInv, NoApprovalLost, [Next]_vars
    PROVE  NoApprovalLost'
<1>1. /\ stream \in Seq(Entry) /\ exec \in Group /\ exec.next \in Nat /\ exec.last \in Nat
      /\ exec.next <= exec.last + 1 /\ exec.last <= Len(stream) /\ TypeOK /\ CursorsInv
  BY AuditFacts DEF AuditInv, ExecCursorInv
<1>2. Grows
  BY <1>1, StepTypes
<1>3. SUFFICES ASSUME NEW t \in Trades, InStream("trade.approved", t)'
               PROVE  FilledBy(t, "execution")' \/ t \in execCut' \/ ExecAhead(t)'
  BY DEF NoApprovalLost
<1>4. CASE InStream("trade.approved", t)
  <2>1. FilledBy(t, "execution") \/ t \in execCut \/ ExecAhead(t)
    BY <1>4 DEF NoApprovalLost
  <2>2. QED
    BY <1>1, <1>2, <2>1, ExecAheadNext, FilledKept
<1>5. CASE ~InStream("trade.approved", t)
  <2>1. stream' # stream
    BY <1>3, <1>5 DEF InStream
  <2>2. PICK type \in EventType, id \in Trades, source \in Source : Publication(type, id, source)
    BY <2>1, Publications
  <2>3. type = "trade.approved" /\ id = t /\ Publish(type, id, source) /\ UNCHANGED exec
    BY <1>1, <1>3, <1>5, <2>2, PublishAdds DEF Publication
  <2>4. /\ Len(stream') = Len(stream) + 1 /\ Len(stream) \in Nat
        /\ stream'[Len(stream) + 1] = [type |-> type, id |-> id, source |-> source]
    BY <1>1, <2>3, AppendEntry
  <2>5. Len(stream) + 1 \in exec'.next .. Len(stream')
    BY <1>1, <2>3, <2>4
  <2>6. QED
    BY <2>3, <2>4, <2>5 DEF ExecAhead
<1>6. QED
  BY <1>4, <1>5

(* graph.py:72-81, index.ts:60-84: both loops acknowledge what they failed *)
(* to handle and drop the batch of a process that died, yet nothing else   *)
(* gets lost.  A proposal is rejected or filled, or its handling was cut   *)
(* short, or an entry about it is still to be read; an approval is filled  *)
(* by the service, or cut short, or still to be read.                      *)
THEOREM NothingElseLost == Spec => [](NoProposalLost /\ NoApprovalLost)
<1>1. Init => NoProposalLost /\ NoApprovalLost
  BY DEF Init, RedisInit, NoProposalLost, NoApprovalLost, InStream
<1>2. AuditInv /\ BookInv /\ NoProposalLost /\ NoApprovalLost /\ [Next]_vars
          => (NoProposalLost /\ NoApprovalLost)'
  BY ProposalStep, ApprovalStep
<1>3. QED
  BY <1>1, <1>2, BooksInvariant, PTL DEF Spec

-----------------------------------------------------------------------------
(* How far the claims hold that the program does not keep in general.      *)

(* The trades that are past their gate, or have read the breaker there.    *)
Admitted == {t \in Trades : InStream("trade.sized", t) \/ (pc = "limits" /\ t = cur)}

LEMMA AdmittedStep ==
    ASSUME AuditInv, [Next]_vars, Tripped
    PROVE  Admitted' \subseteq Admitted
<1> USE DEF redisVars, memoryVars, Goto
<1>1. /\ stream \in Seq(Entry) /\ TypeOK /\ CursorsInv
      /\ pc # "idle" => Holds(agents)
  BY AuditFacts DEF AuditInv
<1>2. Grows
  BY <1>1, StepTypes
<1>3. pc' = "limits" => pc = "limits" /\ UNCHANGED agents
  <2>1. CASE Gate
    BY <2>1 DEF Gate, CurrentState, Tripped
  <2>2. CASE OrchestratorStep /\ ~Gate
    BY <2>2
    DEF OrchestratorStep, Fetch, OnProposed, OnSized, OnApproved, TripDrawdown, GateLimits, Reject,
        Simulate, Approve, Reserve, Execute, AccountFill, TripFailures, ClearStreak, Book, Release, Done
  <2>3. CASE HandlerError \/ OrchestratorRestart
    BY <2>3 DEF HandlerError, OrchestratorRestart, Done
  <2>4. CASE UNCHANGED <<pc, agents>>
    BY <2>4
  <2>5. QED
    BY <2>1, <2>2, <2>3, <2>4
    DEF Next, Strategy, Orchestrate, Monitor, Execution, TimePasses, OrchestratorError, MonitorFault,
        ExecutionError, AgentsRestart, ExecutionRestart, vars, orchestratorVars
<1>4. pc' = "limits" => cur' = cur
  BY <1>1, <1>2, <1>3, CurKept
<1>5. ASSUME NEW t \in Trades, InStream("trade.sized", t)', ~InStream("trade.sized", t)
      PROVE  pc = "limits" /\ t = cur
  <2>1. stream' # stream
    BY <1>5 DEF InStream
  <2>2. PICK type \in EventType, id \in Trades, source \in Source : Publication(type, id, source)
    BY <2>1, Publications
  <2>3. type = "trade.sized" /\ id = t
    BY <1>1, <1>5, <2>2, PublishAdds DEF Publication
  <2>4. QED
    BY <2>2, <2>3 DEF Publication
<1>6. QED
  BY <1>3, <1>4, <1>5 DEF Admitted

(* What a filled trade has behind it.                                      *)
LEMMA FilledWasAdmitted ==
    ASSUME AuditInv, NEW t \in Trades, NEW x \in Source, FilledBy(t, x)
    PROVE  t \in Admitted
<1>1. CausesInv /\ Len(stream) \in Nat
  BY AuditFacts
<1>2. PICK i \in 1 .. Len(stream) : stream[i].type \in FillType /\ stream[i].id = t /\ stream[i].source = x
  BY DEF FilledBy
<1>3. CausedBy(i)
  BY <1>1 DEF CausesInv
<1>4. PICK j \in 1 .. i - 1 : Cause(i, j, "trade.approved")
  BY <1>2, <1>3 DEF CausedBy, AgentsFillFromApproval, ExecFillFromApproval, Source
<1>5. j \in 1 .. Len(stream) /\ stream[j].type = "trade.approved" /\ stream[j].id = t
  BY <1>1, <1>2, <1>4 DEF Cause
<1>6. CausedBy(j)
  BY <1>1, <1>5 DEF CausesInv
<1>7. PICK k \in 1 .. j - 1 : Cause(j, k, "trade.sized")
  BY <1>5, <1>6 DEF CausedBy, ApprovalFromSized
<1>8. k \in 1 .. Len(stream) /\ stream[k].type = "trade.sized" /\ stream[k].id = t
  BY <1>1, <1>5, <1>7 DEF Cause
<1>9. QED
  BY <1>8 DEF Admitted, InStream

(* risk/agent.py:22: the breaker does not halt the trades that are past    *)
(* their gate when it trips, but it lets no other trade in as long as it   *)
(* is tripped; and only admitted trades are filled.  So the fills of a     *)
(* tripped breaker are bounded by what was admitted before.                *)
THEOREM TrippedAdmitsNone ==
    Spec => /\ [][Tripped => Admitted' \subseteq Admitted]_vars
            /\ [](\A t \in Trades, x \in Source : FilledBy(t, x) => t \in Admitted)
<1>1. AuditInv /\ [Next]_vars => (Tripped => Admitted' \subseteq Admitted)
  BY AdmittedStep
<1>2. AuditInv => \A t \in Trades, x \in Source : FilledBy(t, x) => t \in Admitted
  BY FilledWasAdmitted
<1>3. QED
  BY <1>1, <1>2, AuditInvariant, PTL DEF Spec

(* A service that is not deployed reads and publishes nothing.             *)
ServiceOff == mode = "off" => /\ ~Holds(exec) /\ epc = "idle"
                              /\ \A i \in 1 .. Len(stream) : stream[i].source = "agents"

LEMMA ServiceOffStep ==
    ASSUME AuditInv, ServiceOff, [Next]_vars
    PROVE  ServiceOff'
<1> USE DEF redisVars, execVars
<1>1. stream \in Seq(Entry) /\ Len(stream) \in Nat
  BY AuditFacts
<1>2. CASE Execution \/ ExecutionError \/ ExecutionRestart
  <2>1. mode' = mode /\ (mode = "off" => FALSE)
    BY <1>2 DEF ServiceOff, Execution, ExecStep, EFetch, EReserve, EExecute, ERelease,
       ExecutionError, EHandlerError, ExecutionRestart, ExecRestart
  <2>2. QED
    BY <2>1 DEF ServiceOff
<1>3. CASE UNCHANGED <<mode, exec, epc>>
  <2>1. CASE UNCHANGED stream
    BY <1>3, <2>1 DEF ServiceOff, Holds
  <2>2. CASE mode = "off" /\ ~UNCHANGED stream
    <3>1. PICK type \in EventType, id \in Trades, source \in Source : Publication(type, id, source)
      BY <2>2, Publications
    <3>2. source = "agents" /\ Publish(type, id, source)
      BY <2>2, <3>1 DEF Publication, ServiceOff, Source
    <3>3. /\ Len(stream') = Len(stream) + 1
          /\ \A i \in 1 .. Len(stream) : stream'[i] = stream[i]
          /\ stream'[Len(stream) + 1].source = "agents"
      <4>1. [type |-> type, id |-> id, source |-> source].source = "agents"
        BY <3>2
      <4>2. QED
        BY <1>1, <3>2, <4>1, AppendEntry
    <3>4. \A i \in 1 .. Len(stream') : i \in 1 .. Len(stream) \/ i = Len(stream) + 1
      BY <1>1, <3>3
    <3>5. \A i \in 1 .. Len(stream') : stream'[i].source = "agents"
      BY <2>2, <3>3, <3>4 DEF ServiceOff
    <3>6. QED
      BY <1>3, <2>2, <3>5 DEF ServiceOff, Holds
  <2>3. QED
    BY <1>3, <2>1, <2>2 DEF ServiceOff
<1>4. QED
  BY <1>2, <1>3
  DEF Next, Strategy, Orchestrate, Monitor, TimePasses, OrchestratorError, MonitorFault,
      AgentsRestart, vars

LEMMA OffInvariant == Spec => []ServiceOff
<1>1. Init => ServiceOff
  <2>1. Init => stream = <<>> /\ exec = NewGroup /\ epc = "idle"
    BY DEF Init, RedisInit, ExecInit
  <2>2. ~Holds(NewGroup)
    BY DEF Holds, NewGroup
  <2>3. QED
    BY <2>1, <2>2 DEF ServiceOff
<1>2. AuditInv /\ ServiceOff /\ [Next]_vars => ServiceOff'
  BY ServiceOffStep
<1>3. QED
  BY <1>1, <1>2, AuditInvariant, PTL DEF Spec

(* An approval leads to one fill of a trade at most.                       *)
FilledOnce ==
    \A i, j \in 1 .. Len(stream) :
        /\ stream[i].type \in FillType /\ stream[j].type \in FillType
        /\ stream[i].id = stream[j].id
        => i = j

(* graph.py:50 against executor_paper.py:2: it takes the execution service *)
(* to fill a trade a second time.  Where it is not deployed, no trade has  *)
(* two fills, restarts and errors included.                                *)
THEOREM AloneFillsOnce == Spec => [](mode = "off" => FilledOnce /\ FilledByOneExecutor)
<1>1. ASSUME AuditInv, ServiceOff, mode = "off"
      PROVE  FilledOnce /\ FilledByOneExecutor
  <2>1. FilledOnce
    BY <1>1 DEF ServiceOff, AuditInv, PublishedOnce, SameStep, FilledOnce
  <2>2. FilledByOneExecutor
    BY <1>1 DEF ServiceOff, FilledByOneExecutor, FilledBy
  <2>3. QED
    BY <2>1, <2>2
<1>2. AuditInv /\ ServiceOff => (mode = "off" => FilledOnce /\ FilledByOneExecutor)
  BY <1>1
<1>3. QED
  BY <1>2, AuditInvariant, OffInvariant, PTL

-----------------------------------------------------------------------------
(* Members of risk:open_positions that no task gives back any more: their  *)
(* handling was cut short, or the execution service has filled them and    *)
(* keeps the position of a directional trade.                              *)
LeftOpen == cut \cup execCut \cup {t \in Directional : FilledBy(t, "execution")}

(* How many trades can be in hand at a time.                               *)
InHand == IF mode = "off" THEN 1 ELSE 2

LEMMA PairSize ==
    ASSUME NEW a, NEW b
    PROVE  /\ IsFiniteSet({a}) /\ Cardinality({a}) = 1
           /\ IsFiniteSet({a, b}) /\ Cardinality({a, b}) <= 2
<1>1. IsFiniteSet({a}) /\ Cardinality({a}) = 1
  BY FS_Singleton
<1>2. CASE a = b
  <2>1. {a, b} = {a}
    BY <1>2
  <2>2. QED
    BY <1>1, <2>1
<1>3. CASE a # b
  <2>1. {a, b} = {a} \cup {b} /\ b \notin {a}
    BY <1>3
  <2>2. /\ IsFiniteSet({a} \cup {b})
        /\ Cardinality({a} \cup {b}) = IF b \in {a} THEN 1 ELSE 1 + 1
    BY <1>1, FS_AddElement
  <2>3. QED
    BY <1>1, <2>1, <2>2
<1>4. QED
  BY <1>2, <1>3

LEMMA PositionsInHand ==
    ASSUME AuditInv, BookInv, ServiceOff
    PROVE  Cardinality(positions \ LeftOpen) <= InHand /\ IsFiniteSet(positions)
<1>1. /\ PositionsExplained /\ positions \subseteq Trades /\ IsFiniteSet(Trades)
  BY AuditFacts, TradesAssumption DEF BookInv, TypeOK, RedisTypeOK
<1>2. IsFiniteSet(positions)
  BY <1>1, FS_Subset
<1>3. positions \ LeftOpen \subseteq {cur} \cup (IF epc = "idle" THEN {} ELSE {ecur})
  BY <1>1 DEF PositionsExplained, LeftOpen
<1>4. /\ IsFiniteSet({cur}) /\ Cardinality({cur}) = 1
      /\ IsFiniteSet({cur, ecur}) /\ Cardinality({cur, ecur}) <= 2
  BY PairSize
<1>5. CASE mode = "off"
  <2>1. positions \ LeftOpen \subseteq {cur}
    BY <1>3, <1>5 DEF ServiceOff
  <2>2. Cardinality(positions \ LeftOpen) <= 1
    BY <1>4, <2>1, FS_Subset
  <2>3. QED
    BY <1>2, <1>5, <2>2 DEF InHand
<1>6. CASE mode # "off"
  <2>1. positions \ LeftOpen \subseteq {cur, ecur}
    BY <1>3
  <2>2. /\ Cardinality(positions \ LeftOpen) <= Cardinality({cur, ecur})
        /\ Cardinality(positions \ LeftOpen) \in Nat /\ Cardinality({cur, ecur}) \in Nat
    BY <1>4, <2>1, FS_Subset, FS_CardinalityType
  <2>3. QED
    BY <1>2, <1>4, <1>6, <2>2 DEF InHand
<1>7. QED
  BY <1>5, <1>6

(* risk/agent.py:44 counts the positions at the gate, long before one is   *)
(* added.  What goes beyond the cap for good are the positions that nobody *)
(* gives back: all others are of the trade each process has in hand.  So   *)
(* the cap of README.md:48 holds without them in every profile, since      *)
(* none allows fewer than two, and the agents alone hold one at most.      *)
THEOREM CapExceededByLeftovers ==
    Spec => [](/\ Cardinality(positions \ LeftOpen) <= InHand
               /\ LeftOpen = {} /\ InHand <= MaxConcurrent => PositionsWithinLimit)
<1>1. ASSUME AuditInv, BookInv, ServiceOff, LeftOpen = {}, InHand <= MaxConcurrent
      PROVE  PositionsWithinLimit
  <2>1. positions \ LeftOpen = positions
    BY <1>1
  <2>2. /\ Cardinality(positions) <= InHand /\ Cardinality(positions) \in Nat
        /\ InHand \in Nat /\ MaxConcurrent \in Nat
    BY <1>1, <2>1, PositionsInHand, FS_CardinalityType, OrchestratorAssumption DEF InHand
  <2>3. QED
    BY <1>1, <2>2 DEF PositionsWithinLimit
<1>2. AuditInv /\ BookInv /\ ServiceOff
          => /\ Cardinality(positions \ LeftOpen) <= InHand
             /\ LeftOpen = {} /\ InHand <= MaxConcurrent => PositionsWithinLimit
  BY <1>1, PositionsInHand
<1>3. QED
  BY <1>2, BooksInvariant, OffInvariant, PTL
=============================================================================
