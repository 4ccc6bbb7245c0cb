------------------------ MODULE TradeLifecycleProofs ------------------------
(***************************************************************************)
(* Proofs about the trade lifecycle, for every set of trades and every     *)
(* value of the other constants: the type invariant and the order and the  *)
(* uniqueness of what is published.                                        *)
(***************************************************************************)
EXTENDS TradeLifecycle, TLAPS

(* Appending an entry leaves the entries before it where they are.         *)
LEMMA AppendEntry ==
    ASSUME stream \in Seq(Entry), NEW type \in EventType, NEW id \in Trades,
           NEW source \in Source, Publish(type, id, source)
    PROVE  /\ stream' \in Seq(Entry)
           /\ Len(stream') = Len(stream) + 1
           /\ \A i \in 1 .. Len(stream) : stream'[i] = stream[i]
           /\ stream'[Len(stream) + 1] = [type |-> type, id |-> id, source |-> source]
BY DEF Publish, Entry

(* What a cursor may become when it seeks the next entry it handles.       *)
LEMMA SeekingBounds ==
    ASSUME NEW from \in Nat \ {0}, NEW last \in Nat, from <= last + 1, NEW wanted,
           NEW g \in Seeking(from, last, wanted)
    PROVE  /\ g \in Group
           /\ g.last = last /\ from <= g.next /\ g.next <= last + 1
           /\ Holds(g) => Current(g).type \in wanted
BY DEF Seeking, Group, Holds, Current

(* A group that fetches never goes back and never runs past the stream.    *)
LEMMA FetchedBounds ==
    ASSUME stream \in Seq(Entry), NEW g \in Group, g.next <= g.last + 1, CanFetch(g),
           NEW count \in Nat \ {0}, NEW wanted, NEW h \in Fetched(g, count, wanted)
    PROVE  /\ h \in Group
           /\ g.next <= h.next /\ h.next <= h.last + 1 /\ h.last <= Len(stream)
           /\ Holds(h) => Current(h).type \in wanted
<1> DEFINE end == IF g.last + count < Len(stream) THEN g.last + count ELSE Len(stream)
<1>1. /\ g.last \in Nat /\ g.next \in Nat \ {0} /\ g.next = g.last + 1
      /\ Len(stream) \in Nat /\ g.last < Len(stream)
  BY DEF CanFetch, Holds, Group
<1>2. end \in Nat /\ end <= Len(stream) /\ g.last + 1 <= end + 1
  BY <1>1
<1>3. h \in Seeking(g.last + 1, end, wanted)
  BY DEF Fetched
<1> HIDE DEF end
<1>4. QED BY <1>1, <1>2, <1>3, SeekingBounds

(* A group that is done with an entry moves forward within its batch.      *)
LEMMA AdvancedBounds ==
    ASSUME NEW g \in Group, Holds(g), NEW wanted, NEW h \in Advanced(g, wanted)
    PROVE  /\ h \in Group
           /\ g.next < h.next /\ h.next <= h.last + 1 /\ h.last = g.last
           /\ Holds(h) => Current(h).type \in wanted
<1>1. g.next + 1 \in Nat \ {0} /\ g.last \in Nat /\ g.next + 1 <= g.last + 1 /\ g.next \in Nat
  BY DEF Holds, Group
<1>2. h \in Seeking(g.next + 1, g.last, wanted)
  BY DEF Advanced
<1>3. /\ h \in Group
      /\ h.last = g.last /\ g.next + 1 <= h.next /\ h.next <= g.last + 1
      /\ Holds(h) => Current(h).type \in wanted
  BY <1>1, <1>2, SeekingBounds
<1>4. h.next \in Nat
  BY <1>3 DEF Group
<1>5. QED BY <1>1, <1>3, <1>4

-----------------------------------------------------------------------------
(* The stream only grows.                                                  *)
Grows == /\ stream' \in Seq(Entry)
         /\ Len(stream) <= Len(stream')
         /\ \A i \in 1 .. Len(stream) : stream'[i] = stream[i]

LEMMA PublishGrows ==
    ASSUME stream \in Seq(Entry), NEW type \in EventType, NEW id \in Trades,
           NEW source \in Source, Publish(type, id, source)
    PROVE  Grows
<1>1. /\ stream' \in Seq(Entry)
      /\ Len(stream') = Len(stream) + 1
      /\ \A i \in 1 .. Len(stream) : stream'[i] = stream[i]
  BY AppendEntry
<1>2. Len(stream) \in Nat
  OBVIOUS
<1>3. QED BY <1>1, <1>2 DEF Grows

LEMMA UnchangedGrows ==
    ASSUME stream \in Seq(Entry), UNCHANGED stream
    PROVE  Grows
BY DEF Grows

(* The entry a consumer is working on has a trade id.                      *)
LEMMA CurrentEntry ==
    ASSUME stream \in Seq(Entry), NEW g \in Group, Holds(g), g.last <= Len(stream)
    PROVE  /\ g.next \in 1 .. Len(stream)
           /\ Current(g) \in Entry /\ Current(g).id \in Trades /\ Current(g).type \in EventType
<1>1. g.next \in Nat \ {0} /\ g.last \in Nat /\ g.next <= g.last /\ Len(stream) \in Nat
  BY DEF Holds, Group
<1>2. g.next \in 1 .. Len(stream)
  BY <1>1
<1>3. stream[g.next] \in Entry
  BY <1>2
<1>4. QED BY <1>2, <1>3 DEF Current, Entry

(* Whatever a batch still holds when its process dies are trades.          *)
LEMMA UndoneTrades ==
    ASSUME stream \in Seq(Entry), NEW g \in Group, g.last <= Len(stream)
    PROVE  Undone(g) \subseteq Trades
<1>1. g.next \in Nat \ {0} /\ g.last \in Nat /\ Len(stream) \in Nat
  BY DEF Group
<1>2. SUFFICES ASSUME NEW i \in g.next .. g.last
               PROVE  stream[i].id \in Trades
  BY DEF Undone
<1>3. i \in 1 .. Len(stream)
  BY <1>1
<1>4. stream[i] \in Entry
  BY <1>3
<1>5. QED
  BY <1>4 DEF Entry

(* What one consumer knows survives what the other processes publish.      *)
LEMMA AgentsCursorStable ==
    ASSUME stream \in Seq(Entry), agents \in Group, AgentsCursorInv, Grows,
           UNCHANGED <<agents, pc, fill>>
    PROVE  AgentsCursorInv'
<1>1. agents.last \in Nat /\ Len(stream) \in Nat /\ Len(stream') \in Nat
  BY DEF Group, Grows
<1>2. agents'.last <= Len(stream')
  BY <1>1 DEF AgentsCursorInv, Grows
<1>3. Holds(agents) => Current(agents)' = Current(agents)
  BY CurrentEntry DEF AgentsCursorInv, Grows, Current
<1>4. pc # "idle" => Holds(agents) /\ Holds(agents)'
  BY DEF AgentsCursorInv, Holds
<1>5. QED
  BY <1>2, <1>3, <1>4 DEF AgentsCursorInv, GatePc, SimPc, FillPc, AfterFill

LEMMA ExecCursorStable ==
    ASSUME stream \in Seq(Entry), exec \in Group, ExecCursorInv, Grows,
           UNCHANGED <<exec, epc>>
    PROVE  ExecCursorInv'
<1>1. exec.last \in Nat /\ Len(stream) \in Nat /\ Len(stream') \in Nat
  BY DEF Group, Grows
<1>2. exec'.last <= Len(stream')
  BY <1>1 DEF ExecCursorInv, Grows
<1>3. Holds(exec) => Current(exec)' = Current(exec)
  BY CurrentEntry DEF ExecCursorInv, Grows, Current
<1>4. Holds(exec)' <=> Holds(exec)
  BY DEF Holds
<1>5. QED
  BY <1>2, <1>3, <1>4 DEF ExecCursorInv

-----------------------------------------------------------------------------
(* Orchestrator: types, and where its cursor is.                           *)

(* The type an entry has when handle() is at l.                            *)
EntryTypeAt(l, type) == /\ l \in GatePc => type = "trade.proposed"
                        /\ l \in SimPc => type = "trade.sized"
                        /\ l \in FillPc => type = "trade.approved"
                        /\ l = "reject" => type \in {"trade.proposed", "trade.sized"}

LEMMA GotoKeepsCursor ==
    ASSUME stream \in Seq(Entry), agents \in Group, AgentsCursorInv, Grows,
           UNCHANGED agents, Holds(agents), EntryTypeAt(pc', Current(agents).type),
           pc' \in AfterFill => fill' \in FillType
    PROVE  AgentsCursorInv'
<1>1. agents.last \in Nat /\ Len(stream) \in Nat /\ Len(stream') \in Nat
  BY DEF Group, Grows
<1>2. agents'.last <= Len(stream')
  BY <1>1 DEF AgentsCursorInv, Grows
<1>3. Current(agents)' = Current(agents)
  BY CurrentEntry DEF AgentsCursorInv, Grows, Current
<1>4. Holds(agents)'
  BY DEF Holds
<1>5. QED
  BY <1>2, <1>3, <1>4 DEF AgentsCursorInv, EntryTypeAt, GatePc, SimPc, FillPc, AfterFill

LEMMA DoneMovesCursor ==
    ASSUME stream \in Seq(Entry), agents \in Group, AgentsCursorInv, Grows, Holds(agents), Done
    PROVE  /\ agents' \in Group /\ agents.next < agents'.next /\ agents'.last = agents.last
           /\ pc' = "idle"
           /\ AgentsCursorInv'
<1>1. agents' \in Advanced(agents, Handled) /\ pc' = "idle"
  BY DEF Done, Goto
<1>2. /\ agents' \in Group
      /\ agents.next < agents'.next /\ agents'.next <= agents'.last + 1
      /\ agents'.last = agents.last
  BY <1>1, AdvancedBounds
<1>3. agents.last \in Nat /\ Len(stream) \in Nat /\ Len(stream') \in Nat
  BY DEF Group, Grows
<1>4. agents'.last <= Len(stream')
  BY <1>2, <1>3 DEF AgentsCursorInv, Grows
<1>5. QED
  BY <1>1, <1>2, <1>4 DEF AgentsCursorInv, GatePc, SimPc, FillPc, AfterFill

LEMMA OrchestratorTypes ==
    ASSUME TypeOK, AgentsCursorInv, OrchestratorStep
    PROVE  /\ RedisTypeOK' /\ OrchestratorTypeOK' /\ Grows /\ AgentsCursorInv'
           /\ breaker' \in [state : BreakerState, aged : BOOLEAN]
           /\ agents.next <= agents'.next
<1> DEFINE Goal == /\ RedisTypeOK' /\ OrchestratorTypeOK' /\ Grows /\ AgentsCursorInv'
                   /\ breaker' \in [state : BreakerState, aged : BOOLEAN]
                   /\ agents.next <= agents'.next
<1> USE DEF redisVars, memoryVars, Goto
<1>1. /\ stream \in Seq(Entry) /\ positions \subseteq Trades /\ agents \in Group
      /\ breaker \in [state : BreakerState, aged : BOOLEAN]
      /\ OrchestratorTypeOK /\ agents.next \in Nat
  BY DEF TypeOK, RedisTypeOK, BreakerTypeOK, OrchestratorTypeOK, Group
<1>2. ASSUME Holds(agents)
      PROVE  cur \in Trades
  BY <1>1, <1>2, CurrentEntry DEF AgentsCursorInv, cur
<1>3. pc # "idle" => Holds(agents)
  BY DEF AgentsCursorInv
<1>4. ASSUME UNCHANGED stream
      PROVE  Grows
  BY <1>1, <1>4, UnchangedGrows
<1>5. CASE Fetch
  <2>1. agents' \in Fetched(agents, ReadCount, Handled) /\ CanFetch(agents)
    BY <1>5 DEF Fetch
  <2>2. /\ agents' \in Group /\ agents.next <= agents'.next
        /\ agents'.next <= agents'.last + 1 /\ agents'.last <= Len(stream)
    BY <1>1, <2>1, FetchedBounds, OrchestratorAssumption DEF AgentsCursorInv
  <2>3. AgentsCursorInv'
    BY <1>5, <2>2 DEF Fetch, AgentsCursorInv, GatePc, SimPc, FillPc, AfterFill
  <2>4. QED
    BY <1>1, <1>4, <1>5, <2>2, <2>3 DEF Fetch, OrchestratorTypeOK, RedisTypeOK
<1>6. CASE OnProposed
  <2>1. AgentsCursorInv'
    BY <1>1, <1>4, <1>6, GotoKeepsCursor
    DEF OnProposed, EntryTypeAt, GatePc, SimPc, FillPc, AfterFill
  <2>2. QED
    BY <1>1, <1>2, <1>4, <1>6, <2>1
    DEF OnProposed, OrchestratorTypeOK, RedisTypeOK, OrchestratorPc, GatePc
<1>7. CASE OnSized
  <2>1. AgentsCursorInv'
    BY <1>1, <1>4, <1>7, GotoKeepsCursor
    DEF OnSized, EntryTypeAt, GatePc, SimPc, FillPc, AfterFill
  <2>2. QED
    BY <1>1, <1>2, <1>4, <1>7, <2>1
    DEF OnSized, OrchestratorTypeOK, RedisTypeOK, OrchestratorPc, SimPc
<1>8. CASE OnApproved
  <2>1. AgentsCursorInv'
    BY <1>1, <1>4, <1>8, GotoKeepsCursor
    DEF OnApproved, EntryTypeAt, GatePc, SimPc, FillPc, AfterFill
  <2>2. QED
    BY <1>1, <1>4, <1>8, <2>1
    DEF OnApproved, OrchestratorTypeOK, RedisTypeOK, OrchestratorPc, FillPc
<1>9. CASE Gate
  <2>1. AgentsCursorInv'
    BY <1>1, <1>3, <1>4, <1>9, GotoKeepsCursor
    DEF Gate, AgentsCursorInv, EntryTypeAt, GatePc, SimPc, FillPc, AfterFill
  <2>2. QED
    BY <1>1, <1>4, <1>9, <2>1 DEF Gate, OrchestratorTypeOK, RedisTypeOK, OrchestratorPc, GatePc
<1>10. CASE TripDrawdown
  <2>1. AgentsCursorInv'
    BY <1>1, <1>3, <1>4, <1>10, GotoKeepsCursor
    DEF TripDrawdown, AgentsCursorInv, EntryTypeAt, GatePc, SimPc, FillPc, AfterFill
  <2>2. QED
    BY <1>1, <1>4, <1>10, <2>1
    DEF TripDrawdown, Trip, BreakerState, OrchestratorTypeOK, RedisTypeOK, OrchestratorPc
<1>11. CASE GateLimits
  <2>1. CASE pc' = "reject" /\ UNCHANGED <<stream, agents>>
    <3>1. AgentsCursorInv'
      BY <1>1, <1>3, <1>4, <1>11, <2>1, GotoKeepsCursor
      DEF GateLimits, AgentsCursorInv, EntryTypeAt, GatePc, SimPc, FillPc, AfterFill
    <3>2. QED
      BY <1>1, <1>4, <1>11, <2>1, <3>1
      DEF GateLimits, OrchestratorTypeOK, RedisTypeOK, OrchestratorPc
  <2>2. CASE Publish("trade.sized", cur, "agents") /\ Done
    <3>1. Holds(agents)
      BY <1>3, <1>11 DEF GateLimits
    <3>2. Grows
      BY <1>1, <1>2, <2>2, <3>1, PublishGrows DEF EventType, Source
    <3>3. QED
      BY <1>1, <1>11, <2>2, <3>1, <3>2, DoneMovesCursor
      DEF GateLimits, Grows, Group, OrchestratorTypeOK, RedisTypeOK, OrchestratorPc
  <2>3. QED
    BY <1>11, <2>1, <2>2 DEF GateLimits
<1>12. CASE Reject
  <2>1. Holds(agents)
    BY <1>3, <1>12 DEF Reject
  <2>2. Grows
    BY <1>1, <1>2, <1>12, <2>1, PublishGrows DEF Reject, EventType, Source
  <2>3. QED
    BY <1>1, <1>12, <2>1, <2>2, DoneMovesCursor
    DEF Reject, Grows, Group, OrchestratorTypeOK, RedisTypeOK, OrchestratorPc
<1>13. CASE Simulate
  <2>1. Holds(agents)
    BY <1>3, <1>13 DEF Simulate
  <2>2. PICK passed \in BOOLEAN :
            /\ Publish(IF passed THEN "simulation.passed" ELSE "simulation.failed", cur, "agents")
            /\ pc' = IF passed THEN "approve" ELSE "reject"
    BY <1>13 DEF Simulate
  <2>3. Grows
    BY <1>1, <1>2, <2>1, <2>2, PublishGrows DEF EventType, Source
  <2>4. AgentsCursorInv'
    BY <1>1, <1>13, <2>1, <2>2, <2>3, GotoKeepsCursor
    DEF Simulate, AgentsCursorInv, EntryTypeAt, GatePc, SimPc, FillPc, AfterFill
  <2>5. QED
    BY <1>1, <1>13, <2>2, <2>3, <2>4
    DEF Simulate, Grows, OrchestratorTypeOK, RedisTypeOK, OrchestratorPc, SimPc
<1>14. CASE Approve
  <2>1. Holds(agents)
    BY <1>3, <1>14 DEF Approve
  <2>2. Grows
    BY <1>1, <1>2, <1>14, <2>1, PublishGrows DEF Approve, EventType, Source
  <2>3. QED
    BY <1>1, <1>14, <2>1, <2>2, DoneMovesCursor
    DEF Approve, Grows, Group, OrchestratorTypeOK, RedisTypeOK, OrchestratorPc
<1>15. CASE Reserve
  <2>1. AgentsCursorInv'
    BY <1>1, <1>3, <1>4, <1>15, GotoKeepsCursor
    DEF Reserve, AgentsCursorInv, EntryTypeAt, GatePc, SimPc, FillPc, AfterFill
  <2>2. QED
    BY <1>1, <1>2, <1>3, <1>4, <1>15, <2>1
    DEF Reserve, OrchestratorTypeOK, RedisTypeOK, OrchestratorPc, FillPc
<1>16. CASE Execute
  <2>1. Holds(agents)
    BY <1>3, <1>16 DEF Execute
  <2>2. fill' \in FillType
    BY <1>16 DEF Execute, FillType
  <2>3. Grows
    BY <1>1, <1>2, <1>16, <2>1, <2>2, PublishGrows DEF Execute, EventType, Source
  <2>4. AgentsCursorInv'
    BY <1>1, <1>16, <2>1, <2>2, <2>3, GotoKeepsCursor
    DEF Execute, AgentsCursorInv, EntryTypeAt, GatePc, SimPc, FillPc, AfterFill
  <2>5. QED
    BY <1>1, <1>16, <2>2, <2>3, <2>4
    DEF Execute, Grows, OrchestratorTypeOK, RedisTypeOK, OrchestratorPc, FillPc
<1>17. CASE AccountFill
  <2>1. failStreak' \in Nat /\ pc' \in {"tripFailures", "book"}
    BY <1>1, <1>17 DEF AccountFill, OrchestratorTypeOK
  <2>2. AgentsCursorInv'
    BY <1>1, <1>3, <1>4, <1>17, <2>1, GotoKeepsCursor
    DEF AccountFill, AgentsCursorInv, EntryTypeAt, GatePc, SimPc, FillPc, AfterFill
  <2>3. QED
    BY <1>1, <1>4, <1>17, <2>1, <2>2
    DEF AccountFill, OrchestratorTypeOK, RedisTypeOK, OrchestratorPc, FillPc
<1>18. CASE TripFailures
  <2>1. AgentsCursorInv'
    BY <1>1, <1>3, <1>4, <1>18, GotoKeepsCursor
    DEF TripFailures, AgentsCursorInv, EntryTypeAt, GatePc, SimPc, FillPc, AfterFill
  <2>2. QED
    BY <1>1, <1>4, <1>18, <2>1
    DEF TripFailures, Trip, BreakerState, OrchestratorTypeOK, RedisTypeOK, OrchestratorPc, FillPc
<1>19. CASE ClearStreak
  <2>1. AgentsCursorInv'
    BY <1>1, <1>3, <1>4, <1>19, GotoKeepsCursor
    DEF ClearStreak, AgentsCursorInv, EntryTypeAt, GatePc, SimPc, FillPc, AfterFill
  <2>2. QED
    BY <1>1, <1>4, <1>19, <2>1
    DEF ClearStreak, OrchestratorTypeOK, RedisTypeOK, OrchestratorPc, FillPc
<1>20. CASE Book
  <2>1. fill \in FillType /\ cur \in Trades
    BY <1>2, <1>3, <1>20 DEF Book, AgentsCursorInv, AfterFill
  <2>2. AgentsCursorInv'
    BY <1>1, <1>3, <1>4, <1>20, GotoKeepsCursor
    DEF Book, AgentsCursorInv, EntryTypeAt, GatePc, SimPc, FillPc, AfterFill
  <2>3. ledger' \subseteq Row
    <3> DEFINE known == cur \in proposals
    <3>1. known \in BOOLEAN
      OBVIOUS
    <3>2. ledger' = ledger \cup {[id |-> cur, status |-> fill, known |-> known]}
      BY <1>20 DEF Book
    <3> HIDE DEF known
    <3>3. [id |-> cur, status |-> fill, known |-> known] \in Row
      BY <2>1, <3>1 DEF Row
    <3>4. QED
      BY <1>1, <3>2, <3>3 DEF OrchestratorTypeOK
  <2>4. QED
    BY <1>1, <1>4, <1>20, <2>2, <2>3
    DEF Book, OrchestratorTypeOK, RedisTypeOK, OrchestratorPc, FillPc
<1>21. CASE Release
  <2>1. Holds(agents)
    BY <1>3, <1>21 DEF Release
  <2>2. QED
    BY <1>1, <1>4, <1>21, <2>1, DoneMovesCursor
    DEF Release, Group, OrchestratorTypeOK, RedisTypeOK, OrchestratorPc
<1>22. QED
  BY <1>5, <1>6, <1>7, <1>8, <1>9, <1>10, <1>11, <1>12, <1>13, <1>14, <1>15, <1>16, <1>17,
     <1>18, <1>19, <1>20, <1>21 DEF OrchestratorStep

LEMMA OrchestratorFaultTypes ==
    ASSUME TypeOK, AgentsCursorInv, HandlerError \/ OrchestratorRestart
    PROVE  /\ RedisTypeOK' /\ OrchestratorTypeOK' /\ Grows /\ AgentsCursorInv'
           /\ UNCHANGED breaker
           /\ agents.next <= agents'.next
<1>1. /\ stream \in Seq(Entry) /\ positions \subseteq Trades /\ agents \in Group
      /\ OrchestratorTypeOK /\ agents.next \in Nat
  BY DEF TypeOK, RedisTypeOK, OrchestratorTypeOK, Group
<1>2. CASE HandlerError
  <2>1. Holds(agents)
    BY <1>2 DEF HandlerError, AgentsCursorInv
  <2>2. Grows
    BY <1>1, <1>2, UnchangedGrows DEF HandlerError, redisVars
  <2>3. cur \in Trades
    BY <1>1, <2>1, CurrentEntry DEF AgentsCursorInv, cur
  <2>4. QED
    BY <1>1, <1>2, <2>1, <2>2, <2>3, DoneMovesCursor
    DEF HandlerError, redisVars, memoryVars, Group, OrchestratorTypeOK, RedisTypeOK, OrchestratorPc
<1>3. CASE OrchestratorRestart
  <2>1. /\ agents.next \in Nat \ {0} /\ agents.last \in Nat
        /\ agents' = [next |-> agents.last + 1, last |-> agents.last]
    BY <1>1, <1>3 DEF OrchestratorRestart, Restarted, Group
  <2>2. agents' \in Group /\ agents.next <= agents'.next
    BY <2>1 DEF Group, AgentsCursorInv
  <2>3. AgentsCursorInv'
    BY <1>3, <2>1 DEF OrchestratorRestart, Goto, redisVars, AgentsCursorInv, GatePc, SimPc, FillPc, AfterFill
  <2>4. Undone(agents) \subseteq Trades
    BY <1>1, UndoneTrades DEF AgentsCursorInv
  <2>5. QED
    BY <1>1, <1>3, <2>2, <2>3, <2>4, UnchangedGrows
    DEF OrchestratorRestart, Goto, redisVars, OrchestratorTypeOK, RedisTypeOK, OrchestratorPc
<1>4. QED
  BY <1>2, <1>3

-----------------------------------------------------------------------------
(* Execution service: types, and where its cursor is.                      *)

LEMMA EDoneMovesCursor ==
    ASSUME stream \in Seq(Entry), exec \in Group, ExecCursorInv, Grows, Holds(exec), EDone
    PROVE  /\ exec' \in Group /\ exec.next < exec'.next /\ exec'.last = exec.last
           /\ epc' = "idle"
           /\ ExecCursorInv'
<1>1. exec' \in Advanced(exec, {"trade.approved"}) /\ epc' = "idle"
  BY DEF EDone, EGoto
<1>2. /\ exec' \in Group
      /\ exec.next < exec'.next /\ exec'.next <= exec'.last + 1
      /\ exec'.last = exec.last
      /\ Holds(exec') => Current(exec').type \in {"trade.approved"}
  BY <1>1, AdvancedBounds
<1>3. exec.last \in Nat /\ Len(stream) \in Nat /\ Len(stream') \in Nat
  BY DEF Group, Grows
<1>4. exec'.last <= Len(stream')
  BY <1>2, <1>3 DEF ExecCursorInv, Grows
<1>5. Holds(exec)' => Current(exec)'.type = "trade.approved"
  <2>1. SUFFICES ASSUME Holds(exec')
                 PROVE  stream'[exec'.next].type = "trade.approved"
    BY DEF Holds, Current
  <2>2. exec'.next \in 1 .. Len(stream)
    BY <1>2, <1>3, <2>1 DEF Holds, ExecCursorInv, Group
  <2>3. QED
    BY <1>2, <2>1, <2>2 DEF Grows, Current
<1>6. QED
  BY <1>1, <1>2, <1>4, <1>5 DEF ExecCursorInv

LEMMA ExecTypes ==
    ASSUME TypeOK, ExecCursorInv, ExecStep \/ EHandlerError \/ ExecRestart
    PROVE  /\ RedisTypeOK' /\ ExecTypeOK' /\ Grows /\ ExecCursorInv'
           /\ exec.next <= exec'.next
<1> USE DEF redisVars, EGoto
<1>1. /\ stream \in Seq(Entry) /\ positions \subseteq Trades /\ exec \in Group
      /\ ExecTypeOK /\ exec.next \in Nat /\ exec.last \in Nat
  BY DEF TypeOK, RedisTypeOK, ExecTypeOK, Group
<1>2. ASSUME Holds(exec)
      PROVE  ecur \in Trades
  BY <1>1, <1>2, CurrentEntry DEF ExecCursorInv, ecur
<1>3. epc # "idle" => Holds(exec)
  BY DEF ExecCursorInv
<1>4. ASSUME UNCHANGED stream
      PROVE  Grows
  BY <1>1, <1>4, UnchangedGrows
<1>5. CASE EFetch
  <2>1. exec' \in Fetched(exec, ExecReadCount, {"trade.approved"}) /\ CanFetch(exec)
    BY <1>5 DEF EFetch
  <2>2. /\ exec' \in Group /\ exec.next <= exec'.next
        /\ exec'.next <= exec'.last + 1 /\ exec'.last <= Len(stream)
        /\ Holds(exec') => Current(exec').type \in {"trade.approved"}
    BY <1>1, <2>1, FetchedBounds, ExecutionAssumption DEF ExecCursorInv
  <2>3. ExecCursorInv'
    BY <1>5, <2>2 DEF EFetch, ExecCursorInv, Holds, Current
  <2>4. QED
    BY <1>1, <1>4, <1>5, <2>2, <2>3 DEF EFetch, ExecTypeOK, RedisTypeOK
<1>6. CASE EReserve
  <2>1. Holds(exec)' /\ Current(exec)' = Current(exec)
    BY <1>6 DEF EReserve, Holds, Current
  <2>2. ExecCursorInv'
    BY <1>6, <2>1 DEF EReserve, ExecCursorInv
  <2>3. QED
    BY <1>1, <1>2, <1>4, <1>6, <2>2 DEF EReserve, ExecTypeOK, RedisTypeOK, ExecPc
<1>7. CASE EExecute
  <2>1. Holds(exec)
    BY <1>3, <1>7 DEF EExecute
  <2>2. execFill' \in FillType
    BY <1>7 DEF EExecute, Statuses, FillType
  <2>3. Grows
    BY <1>1, <1>2, <1>7, <2>1, <2>2, PublishGrows DEF EExecute, EventType, Source
  <2>4. Current(exec)' = Current(exec) /\ Holds(exec)'
    BY <1>1, <1>7, <2>1, <2>3, CurrentEntry DEF EExecute, Grows, ExecCursorInv, Current, Holds
  <2>5. exec'.last <= Len(stream')
    BY <1>1, <1>7, <2>3 DEF EExecute, Grows, ExecCursorInv
  <2>6. ExecCursorInv'
    BY <1>7, <2>4, <2>5 DEF EExecute, ExecCursorInv
  <2>7. QED
    BY <1>1, <1>7, <2>2, <2>3, <2>6 DEF EExecute, Grows, ExecTypeOK, RedisTypeOK, ExecPc
<1>8. CASE ERelease
  <2>1. Holds(exec)
    BY <1>3, <1>8 DEF ERelease
  <2>2. QED
    BY <1>1, <1>4, <1>8, <2>1, EDoneMovesCursor DEF ERelease, Group, ExecTypeOK, RedisTypeOK, ExecPc
<1>9. CASE EHandlerError
  <2>1. Holds(exec)
    BY <1>9 DEF EHandlerError
  <2>2. QED
    BY <1>1, <1>2, <1>4, <1>9, <2>1, EDoneMovesCursor
    DEF EHandlerError, Group, ExecTypeOK, RedisTypeOK, ExecPc
<1>10. CASE ExecRestart
  <2>1. exec' = [next |-> exec.last + 1, last |-> exec.last]
    BY <1>1, <1>10 DEF ExecRestart, Restarted, Group
  <2>2. exec' \in Group /\ exec.next <= exec'.next
    BY <1>1, <2>1 DEF Group, ExecCursorInv
  <2>3. ExecCursorInv'
    BY <1>1, <1>10, <2>1 DEF ExecRestart, ExecCursorInv, Holds
  <2>4. Undone(exec) \subseteq Trades
    BY <1>1, UndoneTrades DEF ExecCursorInv
  <2>5. QED
    BY <1>1, <1>4, <1>10, <2>2, <2>3, <2>4 DEF ExecRestart, ExecTypeOK, RedisTypeOK, ExecPc
<1>11. QED
  BY <1>5, <1>6, <1>7, <1>8, <1>9, <1>10 DEF ExecStep

-----------------------------------------------------------------------------
(* The composed system.                                                    *)

LEMMA StepTypes ==
    ASSUME TypeOK, CursorsInv, [Next]_vars
    PROVE  /\ TypeOK' /\ CursorsInv' /\ Grows
           /\ agents.next <= agents'.next /\ exec.next <= exec'.next
<1> USE DEF redisVars, breakerVars, orchestratorVars, execVars, memoryVars
<1>1. /\ stream \in Seq(Entry) /\ positions \subseteq Trades
      /\ agents \in Group /\ agents.next \in Nat /\ exec \in Group /\ exec.next \in Nat
      /\ RedisTypeOK /\ BreakerTypeOK /\ ScanTypeOK /\ OrchestratorTypeOK /\ ExecTypeOK
      /\ faults \in 0 .. MaxFaults /\ restarted \in BOOLEAN
      /\ AgentsCursorInv /\ ExecCursorInv
  BY DEF TypeOK, RedisTypeOK, OrchestratorTypeOK, ExecTypeOK, Group, CursorsInv
<1>2. ASSUME UNCHANGED stream
      PROVE  Grows
  BY <1>1, <1>2, UnchangedGrows
<1>3. ASSUME Grows, UNCHANGED <<agents, pc, fill>>
      PROVE  AgentsCursorInv'
  BY <1>1, <1>3, AgentsCursorStable
<1>4. ASSUME Grows, UNCHANGED <<exec, epc>>
      PROVE  ExecCursorInv'
  BY <1>1, <1>4, ExecCursorStable
<1>5. ASSUME UNCHANGED <<agents, pc, fill, proposals, pending, failStreak, ledger, cut>>
      PROVE  OrchestratorTypeOK'
  BY <1>1, <1>5 DEF OrchestratorTypeOK
<1>6. ASSUME UNCHANGED <<mode, exec, epc, execFill, execCut>>
      PROVE  ExecTypeOK'
  BY <1>1, <1>6 DEF ExecTypeOK
<1>7. ASSUME Fault
      PROVE  faults' \in 0 .. MaxFaults
  BY <1>1, <1>7, FaultsAssumption DEF Fault
<1>8. CASE Strategy
  <2>1. Grows /\ UNCHANGED positions /\ ScanTypeOK'
    <3>1. CASE StartScan \/ EndScan
      BY <1>1, <1>2, <3>1 DEF StartScan, EndScan, ScanTypeOK
    <3>2. CASE Propose
      BY <1>1, <3>2, PublishGrows DEF Propose, EventType, Source, ScanTypeOK
    <3>3. QED
      BY <1>8, <3>1, <3>2 DEF Strategy, StrategyStep
  <2>2. AgentsCursorInv' /\ ExecCursorInv' /\ OrchestratorTypeOK' /\ ExecTypeOK'
    BY <1>3, <1>4, <1>5, <1>6, <1>8, <2>1 DEF Strategy
  <2>3. QED
    BY <1>1, <1>8, <2>1, <2>2 DEF Strategy, TypeOK, CursorsInv, Grows, RedisTypeOK, BreakerTypeOK
<1>9. CASE Orchestrate
  <2>1. /\ RedisTypeOK' /\ OrchestratorTypeOK' /\ Grows /\ AgentsCursorInv'
        /\ breaker' \in [state : BreakerState, aged : BOOLEAN]
        /\ agents.next <= agents'.next
    BY <1>1, <1>9, OrchestratorTypes DEF Orchestrate
  <2>2. ExecCursorInv' /\ ExecTypeOK'
    BY <1>4, <1>6, <1>9, <2>1 DEF Orchestrate
  <2>3. QED
    BY <1>1, <1>9, <2>1, <2>2 DEF Orchestrate, TypeOK, CursorsInv, BreakerTypeOK, ScanTypeOK
<1>10. CASE Monitor
  <2>1. BreakerTypeOK'
    <3>1. CASE MonitorTrip
      BY <1>1, <3>1 DEF MonitorTrip, Trip, BreakerTypeOK, BreakerState, MonitorPc
    <3>2. CASE MonitorRead
      <4>1. UNCHANGED breaker /\ monitor' \in {"write", "watch"}
        BY <3>2 DEF MonitorRead
      <4>2. QED
        BY <1>1, <4>1 DEF BreakerTypeOK, MonitorPc
    <3>3. CASE MonitorWrite
      BY <1>1, <3>3 DEF MonitorWrite, BreakerTypeOK, BreakerState, MonitorPc
    <3>4. QED
      BY <1>10, <3>1, <3>2, <3>3 DEF Monitor, MonitorStep
  <2>2. QED
    BY <1>1, <1>2, <1>3, <1>4, <1>5, <1>6, <1>10, <2>1
    DEF Monitor, TypeOK, CursorsInv, RedisTypeOK, ScanTypeOK
<1>11. CASE Execution
  <2>1. RedisTypeOK' /\ ExecTypeOK' /\ Grows /\ ExecCursorInv' /\ exec.next <= exec'.next
    BY <1>1, <1>11, ExecTypes DEF Execution
  <2>2. AgentsCursorInv' /\ OrchestratorTypeOK'
    BY <1>3, <1>5, <1>11, <2>1 DEF Execution
  <2>3. QED
    BY <1>1, <1>11, <2>1, <2>2 DEF Execution, TypeOK, CursorsInv, BreakerTypeOK, ScanTypeOK
<1>12. CASE TimePasses
  <2>1. BreakerTypeOK'
    BY <1>1, <1>12 DEF TimePasses, CooldownElapses, BreakerTypeOK
  <2>2. QED
    BY <1>1, <1>2, <1>3, <1>4, <1>5, <1>6, <1>12, <2>1
    DEF TimePasses, TypeOK, CursorsInv, RedisTypeOK, ScanTypeOK
<1>13. CASE OrchestratorError
  <2>1. /\ RedisTypeOK' /\ OrchestratorTypeOK' /\ Grows /\ AgentsCursorInv'
        /\ UNCHANGED breaker /\ agents.next <= agents'.next
    BY <1>1, <1>13, OrchestratorFaultTypes DEF OrchestratorError
  <2>2. ExecCursorInv' /\ ExecTypeOK' /\ faults' \in 0 .. MaxFaults
    BY <1>4, <1>6, <1>7, <1>13, <2>1 DEF OrchestratorError
  <2>3. QED
    BY <1>1, <1>13, <2>1, <2>2 DEF OrchestratorError, TypeOK, CursorsInv, BreakerTypeOK, ScanTypeOK
<1>14. CASE MonitorFault
  <2>1. BreakerTypeOK' /\ faults' \in 0 .. MaxFaults
    BY <1>1, <1>7, <1>14 DEF MonitorFault, MonitorError, BreakerTypeOK, MonitorPc
  <2>2. QED
    BY <1>1, <1>2, <1>3, <1>4, <1>5, <1>6, <1>14, <2>1
    DEF MonitorFault, TypeOK, CursorsInv, RedisTypeOK, ScanTypeOK
<1>15. CASE ExecutionError \/ ExecutionRestart
  <2>1. RedisTypeOK' /\ ExecTypeOK' /\ Grows /\ ExecCursorInv' /\ exec.next <= exec'.next
    BY <1>1, <1>15, ExecTypes DEF ExecutionError, ExecutionRestart
  <2>2. AgentsCursorInv' /\ OrchestratorTypeOK' /\ faults' \in 0 .. MaxFaults
    BY <1>3, <1>5, <1>7, <1>15, <2>1 DEF ExecutionError, ExecutionRestart
  <2>3. QED
    BY <1>1, <1>15, <2>1, <2>2
    DEF ExecutionError, ExecutionRestart, TypeOK, CursorsInv, BreakerTypeOK, ScanTypeOK
<1>16. CASE AgentsRestart
  <2>1. /\ RedisTypeOK' /\ OrchestratorTypeOK' /\ Grows /\ AgentsCursorInv'
        /\ UNCHANGED breaker /\ agents.next <= agents'.next
    BY <1>1, <1>16, OrchestratorFaultTypes DEF AgentsRestart
  <2>2. ExecCursorInv' /\ ExecTypeOK' /\ faults' \in 0 .. MaxFaults
    BY <1>4, <1>6, <1>7, <1>16, <2>1 DEF AgentsRestart
  <2>3. BreakerTypeOK' /\ ScanTypeOK' /\ restarted' \in BOOLEAN
    BY <1>1, <1>16, <2>1 DEF AgentsRestart, BreakerTypeOK, MonitorPc, ScanTypeOK
  <2>4. QED
    BY <1>1, <1>16, <2>1, <2>2, <2>3 DEF AgentsRestart, TypeOK, CursorsInv
<1>17. CASE UNCHANGED vars
  BY <1>1, <1>2, <1>3, <1>4, <1>5, <1>6, <1>17
  DEF vars, TypeOK, CursorsInv, RedisTypeOK, BreakerTypeOK, ScanTypeOK
<1>18. QED
  BY <1>8, <1>9, <1>10, <1>11, <1>12, <1>13, <1>14, <1>15, <1>16, <1>17 DEF Next

LEMMA InitTypes == ASSUME Init PROVE TypeOK /\ CursorsInv
<1>1. stream = <<>> /\ Len(stream) = 0 /\ agents = NewGroup /\ exec = NewGroup
      /\ pc = "idle" /\ epc = "idle"
  BY DEF Init, RedisInit, OrchestratorInit, ExecInit
<1>2. NewGroup \in Group /\ NewGroup.next = 1 /\ NewGroup.last = 0
  BY DEF NewGroup, Group
<1>3. RedisTypeOK /\ BreakerTypeOK /\ ScanTypeOK
  BY DEF Init, RedisInit, BreakerInit, ScanInit, RedisTypeOK, BreakerTypeOK, ScanTypeOK,
     BreakerState, MonitorPc
<1>4. OrchestratorTypeOK /\ ExecTypeOK
  BY <1>2 DEF Init, OrchestratorInit, ExecInit, OrchestratorTypeOK, ExecTypeOK, OrchestratorPc, ExecPc
<1>5. faults \in 0 .. MaxFaults /\ restarted \in BOOLEAN
  <2>1. faults = 0 /\ restarted = FALSE
    BY DEF Init
  <2>2. 0 \in 0 .. MaxFaults
    BY FaultsAssumption
  <2>3. QED
    BY <2>1, <2>2
<1>6. CursorsInv
  BY <1>1, <1>2 DEF CursorsInv, AgentsCursorInv, ExecCursorInv, Holds, GatePc, SimPc, FillPc, AfterFill
<1>7. QED
  BY <1>3, <1>4, <1>5, <1>6 DEF TypeOK

(* Every variable of the composed system stays in its type and both        *)
(* cursors stay on the stream: handle() only ever works on an entry that   *)
(* was delivered to it and whose type fits where it is.                    *)
THEOREM TypeCorrect == Spec => [](TypeOK /\ CursorsInv)
<1>1. Init => TypeOK /\ CursorsInv
  BY InitTypes
<1>2. TypeOK /\ CursorsInv /\ [Next]_vars => (TypeOK /\ CursorsInv)'
  BY StepTypes
<1>3. QED
  BY <1>1, <1>2, PTL DEF Spec
-----------------------------------------------------------------------------
(* The diagram of the breaker as the program moves through it.             *)
BreakerMoves == /\ CurrentState = "ARMED" => CurrentState' \in {"ARMED", "TRIPPED"}
                /\ CurrentState = "TRIPPED" => CurrentState' \in {"TRIPPED", "COOLDOWN"}
                /\ CurrentState = "COOLDOWN" => CurrentState' \in {"COOLDOWN", "TRIPPED"}

(* maybe_recover writes COOLDOWN over nothing but TRIPPED: whatever comes  *)
(* between its two awaits, the state it has read is still there.           *)
WritesOverTrip == monitor = "write" => Tripped

LEMMA BreakerStep ==
    ASSUME TypeOK, WritesOverTrip, [Next]_vars
    PROVE  WritesOverTrip' /\ BreakerMoves
<1> USE DEF CurrentState, Tripped, WritesOverTrip, BreakerMoves
<1>1. breaker \in [state : BreakerState, aged : BOOLEAN]
  BY DEF TypeOK, BreakerTypeOK
<1>2. CASE UNCHANGED breakerVars
  BY <1>1, <1>2 DEF breakerVars, BreakerState
<1>3. CASE Trip /\ (UNCHANGED monitor \/ monitor' = "read")
  BY <1>1, <1>3 DEF Trip, BreakerState
<1>4. CASE Strategy \/ Execution \/ ExecutionError \/ ExecutionRestart \/ UNCHANGED vars
  BY <1>2, <1>4 DEF Strategy, Execution, ExecutionError, ExecutionRestart, vars
<1>5. CASE OrchestratorStep /\ UNCHANGED monitor
  <2>1. Trip \/ UNCHANGED breaker
    BY <1>5 DEF OrchestratorStep, Fetch, OnProposed, OnSized, OnApproved, Gate, TripDrawdown,
       GateLimits, Reject, Simulate, Approve, Reserve, Execute, AccountFill, TripFailures,
       ClearStreak, Book, Release
  <2>2. QED
    BY <1>2, <1>3, <1>5, <2>1 DEF breakerVars
<1>6. CASE MonitorStep
  <2>1. CASE MonitorTrip
    BY <1>3, <2>1 DEF MonitorTrip
  <2>2. CASE MonitorRead
    BY <1>1, <2>2 DEF MonitorRead, BreakerState
  <2>3. CASE MonitorWrite
    BY <1>1, <2>3 DEF MonitorWrite, BreakerState
  <2>4. QED
    BY <1>6, <2>1, <2>2, <2>3 DEF MonitorStep
<1>7. CASE CooldownElapses
  BY <1>1, <1>7 DEF CooldownElapses, BreakerState
<1>8. CASE UNCHANGED breaker /\ (UNCHANGED monitor \/ monitor' = "watch")
  BY <1>1, <1>8 DEF BreakerState
<1>9. CASE OrchestratorError \/ MonitorFault \/ AgentsRestart
  BY <1>8, <1>9 DEF OrchestratorError, HandlerError, MonitorFault, MonitorError,
     AgentsRestart, OrchestratorRestart
<1>10. QED
  BY <1>4, <1>5, <1>6, <1>7, <1>9 DEF Next, Orchestrate, Monitor, TimePasses

(* circuit_breaker.py:11-26 with its callers: the breaker trips, cools     *)
(* down and trips again, and does nothing else.  No step leads back to     *)
(* ARMED, whichever task writes the hash in between.                       *)
THEOREM BreakerDiagram == Spec => [][BreakerMoves]_vars
<1>1. Init => WritesOverTrip
  BY DEF Init, BreakerInit, WritesOverTrip
<1>2. TypeOK /\ WritesOverTrip /\ [Next]_vars => WritesOverTrip' /\ BreakerMoves
  BY BreakerStep
<1>3. QED
  BY <1>1, <1>2, TypeCorrect, PTL DEF Spec

(* circuit_breaker.py:1 against line 25: the return to ARMED it documents  *)
(* fails in every behaviour in which the breaker cools down, not only in   *)
(* one that a bounded run finds.                                           *)
THEOREM CooledNeverRearms == Spec /\ <>(CurrentState = "COOLDOWN") => ~BreakerRearms
<1>1. CurrentState = "COOLDOWN" => ~(CurrentState = "ARMED")
  OBVIOUS
<1>2. /\ BreakerMoves /\ TypeOK /\ ~(CurrentState = "ARMED") => ~(CurrentState = "ARMED")'
      /\ UNCHANGED vars /\ ~(CurrentState = "ARMED") => ~(CurrentState = "ARMED")'
  <2>1. TypeOK => CurrentState \in {"ARMED", "TRIPPED", "COOLDOWN"}
    BY DEF TypeOK, BreakerTypeOK, BreakerState, CurrentState
  <2>2. UNCHANGED vars => CurrentState' = CurrentState
    BY DEF vars, breakerVars, CurrentState
  <2>3. QED
    BY <2>1, <2>2 DEF BreakerMoves
<1>3. QED
  BY <1>1, <1>2, TypeCorrect, BreakerDiagram, PTL DEF BreakerRearms
=============================================================================
