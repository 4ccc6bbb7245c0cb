------------------------------ MODULE RedisBus ------------------------------
(***************************************************************************)
(* What the agents and the execution service share through Redis: the      *)
(* stream events:trade, read through consumer groups, and the set          *)
(* risk:open_positions.  (The breaker hash is in CircuitBreaker.)          *)
(*                                                                         *)
(* An entry keeps its type, the trade id of its payload and its source     *)
(* field.  simulation.result is split by the verdict in its payload into   *)
(* simulation.passed and simulation.failed.  agent.decision and            *)
(* risk.circuit_breaker entries are left out: both consumers skip them and *)
(* no property speaks of them.  Trimming at about 20000 entries is out of  *)
(* reach of the bounded runs and is not modelled.                          *)
(***************************************************************************)
EXTENDS Integers, Sequences, FiniteSets

CONSTANTS Trades,       \* trade ids
          Directional   \* the trades of kind "directional"; the others are cycles

ASSUME TradesAssumption == Directional \subseteq Trades /\ IsFiniteSet(Trades)

VARIABLES stream,       \* the entries of events:trade, oldest first
          positions     \* members of risk:open_positions

redisVars == <<stream, positions>>

FillType == {"trade.executed", "trade.failed"}
EventType == FillType \cup
             {"trade.proposed", "trade.sized", "trade.approved", "trade.rejected",
              "simulation.passed", "simulation.failed"}
Source == {"agents", "execution"}
Entry == [type : EventType, id : Trades, source : Source]

Publish(type, id, source) ==
    stream' = Append(stream, [type |-> type, id |-> id, source |-> source])

-----------------------------------------------------------------------------
(* A consumer group with its single consumer.  Entries 1..last have been   *)
(* delivered (the group's last-delivered-id, kept by Redis), and the       *)
(* consumer works on entry next of the batch next..last it holds, or holds *)
(* none when next = last + 1.  Both consumers read with ">" only: an entry *)
(* delivered to a process that died stays in the pending list and is never *)
(* asked for again, so acknowledging changes nothing that is ever read.    *)
(* Entries of a type the consumer has no handler for are acknowledged      *)
(* without effect: it passes over them in the step that precedes them.     *)

Group == [next : Nat \ {0}, last : Nat]

NewGroup == [next |-> 1, last |-> 0]

Holds(g) == g.next <= g.last

Current(g) == stream[g.next]

(* The group once it reaches, from entry from on, the first one it wants.  *)
Seeking(from, last, wanted) ==
    {g \in [next : from .. last + 1, last : {last}] :
        /\ \A i \in from .. g.next - 1 : stream[i].type \notin wanted
        /\ Holds(g) => Current(g).type \in wanted}

CanFetch(g) == ~Holds(g) /\ g.last < Len(stream)

(* XREADGROUP: the batch of at most count entries that follows last.       *)
Fetched(g, count, wanted) ==
    LET end == IF g.last + count < Len(stream) THEN g.last + count ELSE Len(stream)
    IN  Seeking(g.last + 1, end, wanted)

(* The handler returned: on to the next entry of the batch.                *)
Advanced(g, wanted) == Seeking(g.next + 1, g.last, wanted)

(* Mutant of Restarted: a new process asks for its pending entries first.  *)
RestartedWithPending(g) == g

(* A new process has nothing in hand.                                      *)
Restarted(g) == [g EXCEPT !.next = g.last + 1]

Undone(g) == {stream[i].id : i \in g.next .. g.last}

-----------------------------------------------------------------------------
InStream(type, id) ==
    \E i \in 1 .. Len(stream) : stream[i].type = type /\ stream[i].id = id

FilledBy(id, source) ==
    \E i \in 1 .. Len(stream) : /\ stream[i].type \in FillType
                                /\ stream[i].id = id
                                /\ stream[i].source = source

RedisInit == stream = <<>> /\ positions = {}

RedisTypeOK == stream \in Seq(Entry) /\ positions \subseteq Trades
=============================================================================
