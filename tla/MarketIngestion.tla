--------------------------- MODULE MarketIngestion ---------------------------
(***************************************************************************)
(* services/ingestion: the boot and the loops of index.ts, the sources and *)
(* the snapshots.  A job is one call of a handler or of a timer, none of   *)
(* which waits for an earlier one.  All commands of the process go over    *)
(* one Redis connection, in the order they are issued: wire holds the jobs *)
(* whose command is not answered.  A command takes effect when its answer  *)
(* comes.                                                                  *)
(***************************************************************************)
EXTENDS RegimeClassifier, SequencesExt

CONSTANTS MaxJobs,   \* handler calls that may be under way at a time
          Configs,   \* settings: WebSocket URL, subgraph URL, database URL
          Loads,     \* bounds on the jobs of each class
          MaxBlocks, MaxBoots, MaxPaper   \* bounds

Jobs == 1 .. MaxJobs
None == "none"
Quit == 0         \* the QUIT of the shutdown handler

ASSUME IngestionAssumption ==
    /\ Configs \subseteq [ws : BOOLEAN, subgraph : BOOLEAN, db : BOOLEAN]
    /\ Loads \subseteq [event : Nat, block : Nat, timer : Nat]
    /\ {MaxJobs, MaxBlocks} \subseteq Nat \ {0} /\ {MaxBoots, MaxPaper} \subseteq Nat

VARIABLES config,   \* the parsed environment; never changes
          head,     \* height of the chain
          paper,    \* trades the paper executor has written
          phase,    \* of the process: down, boot, up, stopping
          cause,    \* what ended it
          boots,    \* how often it was started
          seen,     \* last block handed to the watcher
          left,     \* how many more jobs of each class may start
          job,      \* where each job stands, with its local variables
          wire,     \* commands issued and not answered
          recorded  \* the source registry has an entry

envVars == <<config, head, paper>>
procVars == <<phase, cause, boots, seen, left>>
jobVars == <<job, wire, recorded>>
vars == <<graphVars, regimeVars, envVars, procVars, jobVars>>

(* Of a refresh: its block, the height its values are of and the pools it  *)
(* has yet to write; of an event: pool, token sold, verdict and the one    *)
(* before; of a catalog: where it comes from.  found: a price or a row.    *)
Idle == [pc |-> "idle", block |-> 0, data |-> 0, todo |-> <<>>, token |-> None,
         found |-> FALSE, regime |-> "unknown", prev |-> "unknown", source |-> None]

(* A job waits for a source, for the database, or for Redis.               *)
SourcePc == {"multicall", "gasPrice", "round", "ticker", "subgraph"}
Events == {"alert", "gasEvent", "divergence"}
Unhandled == {"pair", "tick", "change", "pairMid", "bnb", "alert", "announce", "row", "health"}
Handled == {"pool", "gas", "gasEvent", "price", "mid", "divergence", "quotes", "entries"}
RedisPc == Unhandled \cup Handled

JobState == [pc : {"idle", "insert"} \cup SourcePc \cup RedisPc, block : Nat, data : Nat,
             todo : Seq(Pools), token : BSC_TOKENS \cup {None}, found : BOOLEAN,
             regime : Regime, prev : Regime, source : CatalogSource \cup {None}]

Init == /\ GraphInit /\ Forgotten
        /\ config \in Configs /\ head = 1 /\ paper = 0
        /\ phase = "down" /\ cause = None /\ boots = 0 /\ seen = 0 /\ left \in Loads
        /\ job = [j \in Jobs |-> Idle] /\ wire = <<>> /\ recorded = FALSE

Enter(j, l, w) == /\ job' = [job EXCEPT ![j] = l]
                  /\ wire' = IF l.pc \in RedisPc THEN Append(w, j) ELSE w

Free(j) == job[j] = Idle /\ \A i \in 1 .. j - 1 : job[i] # Idle

Fire(j, class, l) == /\ phase = "up" /\ Free(j)
                     /\ left[class] > 0 /\ left' = [left EXCEPT ![class] = @ - 1]
                     /\ Enter(j, l, wire)
                     /\ UNCHANGED <<envVars, phase, cause, boots, recorded>>

Due(j, l) == Fire(j, "timer", l) /\ UNCHANGED <<graphVars, regimeVars, seen>>

(* What job j waited for has come, from the network or from Redis.         *)
Resume(j, l) == Enter(j, l, wire) /\ UNCHANGED <<envVars, procVars>>
Answered(j) == wire # <<>> /\ Head(wire) = j
Reply(j, l) == Answered(j) /\ Enter(j, l, Tail(wire)) /\ UNCHANGED <<envVars, recorded>>
To(j, pc) == [job[j] EXCEPT !.pc = pc]

record == recorded' = TRUE

(* The process ends: its memory is gone.                                   *)
Die(why) == /\ phase' = "down" /\ cause' = why /\ seen' = 0
            /\ job' = [j \in Jobs |-> Idle] /\ wire' = <<>> /\ recorded' = FALSE
            /\ Forget
            /\ UNCHANGED <<graphVars, envVars, boots, left>>

-----------------------------------------------------------------------------
(* The catalog comes from the subgraph, when one is configured and has     *)
(* data, or from the seed list.                                            *)
RefreshCatalog == IF config.subgraph THEN [Idle EXCEPT !.pc = "subgraph"]
                  ELSE [Idle EXCEPT !.pc = "entries", !.source = "seed"]

Start == /\ phase = "down" /\ boots < MaxBoots
         /\ phase' = "boot" /\ cause' = None /\ boots' = boots + 1
         /\ Enter(1, RefreshCatalog, wire)
         /\ UNCHANGED <<graphVars, regimeVars, envVars, seen, left, recorded>>

CatalogDue(j) == Due(j, RefreshCatalog)

SubgraphAnswered(j) ==
    /\ job[j].pc = "subgraph" /\ record
    /\ \E s \in CatalogSource : Resume(j, [To(j, "entries") EXCEPT !.source = s])
    /\ UNCHANGED <<graphVars, regimeVars>>

(* The errors of a pipeline are in its result, which nobody looks at.      *)
EntriesStored(j) ==
    /\ job[j].pc = "entries"
    /\ catalog' \in {job[j].source, catalog}
    /\ Reply(j, To(j, "announce"))
    /\ UNCHANGED <<pools, pairs, bnbUsd, changes, regimeVars, procVars>>

CatalogAnnounced(j) ==
    /\ job[j].pc = "announce"
    /\ phase' = IF phase = "boot" THEN "up" ELSE phase
    /\ Reply(j, Idle)
    /\ UNCHANGED <<graphVars, regimeVars, cause, boots, seen, left>>

-----------------------------------------------------------------------------
(* The per-block refresh.  Two blocks may be under way at a time; the node *)
(* that is asked for the values may be behind the one that told the block. *)
Heights == {h \in 0 .. head : h + Lag >= head}

BlockSeen(j) ==
    /\ \E b \in Heights :
          /\ b > seen /\ seen' = b
          /\ Fire(j, "block", [Idle EXCEPT !.pc = "multicall", !.block = b])
    /\ UNCHANGED <<graphVars, regimeVars>>

NextPool(l) == IF l.todo = <<>> THEN Idle ELSE [l EXCEPT !.pc = "pool"]

(* The pools whose calls succeed are written one after the other.          *)
MulticallAnswered(j) ==
    /\ job[j].pc = "multicall" /\ record
    /\ \E d \in Heights, S \in SUBSET Pools :
          Resume(j, NextPool([job[j] EXCEPT !.data = d, !.todo = SetToSeq(S)]))
    /\ UNCHANGED <<graphVars, regimeVars>>

MulticallFailed(j) == /\ job[j].pc = "multicall"
                      /\ Resume(j, Idle)
                      /\ UNCHANGED <<graphVars, regimeVars, recorded>>

(* A pool that Redis does not take is skipped.  The mutant stays with it.  *)
PoolRepeated(j) ==
    /\ job[j].pc = "pool"
    /\ \/ writePool(Head(job[j].todo), job[j].block, job[j].data)
          /\ Reply(j, NextPool([job[j] EXCEPT !.todo = Tail(@)]))
       \/ UNCHANGED pools /\ Reply(j, job[j])
    /\ UNCHANGED <<pairs, bnbUsd, catalog, changes, regimeVars, procVars>>

PoolWritten(j) ==
    /\ job[j].pc = "pool"
    /\ \/ writePool(Head(job[j].todo), job[j].block, job[j].data)
       \/ UNCHANGED pools
    /\ Reply(j, NextPool([job[j] EXCEPT !.todo = Tail(@)]))
    /\ UNCHANGED <<pairs, bnbUsd, catalog, changes, regimeVars, procVars>>

-----------------------------------------------------------------------------
(* The WebSocket events.  maybeWhaleAlert looks up what it needs to price  *)
(* the token that was sold; a stable coin needs nothing, and a token that  *)
(* is not known is not priced.                                             *)
Whale(p, t) == LET l == [Idle EXCEPT !.todo = <<p>>, !.token = t]
               IN IF t = None THEN {Idle}
                  ELSE IF t \in Stables THEN {Idle, [l EXCEPT !.pc = "alert"]}
                  ELSE IF t = "WBNB" THEN {[l EXCEPT !.pc = "bnb"]}
                  ELSE {[l EXCEPT !.pc = "pairMid"]}

AfterTick(j) == Whale(Head(job[j].todo), job[j].token)
KeyOf(j) == pairKey(Head(job[j].todo))

(* A tick of pool p: its verdict is r, and the one before was s.           *)
Tick(p, t, r, s) ==
    [Idle EXCEPT !.pc = "pair", !.todo = <<p>>, !.token = t, !.regime = r, !.prev = s]

(* onPriceTick up to its first await, for a V2 Sync (no token) or a V3     *)
(* Swap.  The mutant issues the write with the verdict of before.          *)
PriceTickStale(j, p, t) ==
    LET k == pairKey(p)
    IN \E r \in Verdicts(k) : /\ pushPrice(k) /\ Remember(k, r)
                              /\ Fire(j, "event", Tick(p, t, lastRegime[k], lastRegime[k]))

PriceTick(j, p, t) ==
    LET k == pairKey(p)
    IN \E r \in Verdicts(k) : /\ pushPrice(k) /\ Remember(k, r)
                              /\ Fire(j, "event", Tick(p, t, r, lastRegime[k]))

(* A Sync or a V3 Swap whose price is no positive number has no tick.      *)
SyncSeen(j) == /\ config.ws
               /\ \E p \in {q \in Pools : q.poolType = 2} : PriceTick(j, p, None)
               /\ UNCHANGED <<graphVars, seen>>

SwapV3Seen(j) ==
    /\ config.ws
    /\ \E p \in {q \in Pools : q.poolType = 3} : \E t \in TokensOf(p) :
          \/ PriceTick(j, p, t)
          \/ (\E l \in Whale(p, t) : Fire(j, "event", l)) /\ UNCHANGED regimeVars
    /\ UNCHANGED <<graphVars, seen>>

SwapV2Seen(j) ==
    /\ config.ws
    /\ \E p \in {q \in Pools : q.poolType = 2} : \E t \in TokensOf(p) :
          \E l \in Whale(p, t) : Fire(j, "event", l)
    /\ UNCHANGED <<graphVars, regimeVars, seen>>

PairWritten(j) ==
    /\ job[j].pc = "pair"
    /\ writePair(KeyOf(j), job[j].regime)
    /\ Reply(j, To(j, "tick"))
    /\ UNCHANGED <<pools, bnbUsd, catalog, changes, regimeVars, procVars>>

(* A change from "unknown" is not told.                                    *)
Changed(l) == l.regime # l.prev /\ l.prev # "unknown" /\ l.regime # "unknown"

TickPublished(j) ==
    /\ job[j].pc = "tick"
    /\ IF Changed(job[j]) THEN Reply(j, To(j, "change"))
       ELSE \E l \in AfterTick(j) : Reply(j, l)
    /\ UNCHANGED <<graphVars, regimeVars, procVars>>

(* Mutant: the new regime is read again after the awaits.                  *)
ChangeReread(j) ==
    /\ job[j].pc = "change"
    /\ changes' = Append(changes, [pair |-> KeyOf(j), from |-> job[j].prev,
                                   to |-> lastRegime[KeyOf(j)], run |-> boots])
    /\ \E l \in AfterTick(j) : Reply(j, l)
    /\ UNCHANGED <<pools, pairs, bnbUsd, catalog, regimeVars, procVars>>

ChangePublished(j) ==
    /\ job[j].pc = "change"
    /\ changes' = Append(changes, [pair |-> KeyOf(j), from |-> job[j].prev,
                                   to |-> job[j].regime, run |-> boots])
    /\ \E l \in AfterTick(j) : Reply(j, l)
    /\ UNCHANGED <<pools, pairs, bnbUsd, catalog, regimeVars, procVars>>

PairMidRead(j) == /\ job[j].pc = "pairMid"
                  /\ Reply(j, [To(j, "bnb") EXCEPT !.found = Priced(<<job[j].token, "WBNB">>)])
                  /\ UNCHANGED <<graphVars, regimeVars, procVars>>

BnbUsdRead(j) ==
    /\ job[j].pc = "bnb"
    /\ \/ Reply(j, Idle)
       \/ /\ bnbUsd /\ (job[j].token = "WBNB" \/ job[j].found)
          /\ Reply(j, To(j, "alert"))
    /\ UNCHANGED <<graphVars, regimeVars, procVars>>

-----------------------------------------------------------------------------
(* The pollers ask their source, then store what it says, then publish.    *)
StoreOf == [gasPrice |-> "gas", round |-> "price", ticker |-> "quotes"]

PollDue(j) == \E pc \in DOMAIN StoreOf : Due(j, [Idle EXCEPT !.pc = pc])

SourceAnswered(j) == /\ job[j].pc \in DOMAIN StoreOf /\ record
                     /\ Resume(j, To(j, StoreOf[job[j].pc]))
                     /\ UNCHANGED <<graphVars, regimeVars>>

SourceFailed(j) == /\ job[j].pc \in DOMAIN StoreOf /\ record
                   /\ Resume(j, Idle)
                   /\ UNCHANGED <<graphVars, regimeVars>>

GasStored(j) == /\ job[j].pc = "gas"
                /\ Reply(j, To(j, "gasEvent"))
                /\ UNCHANGED <<graphVars, regimeVars, procVars>>

PriceStored(j) == /\ job[j].pc = "price"
                  /\ bnbUsd' = TRUE
                  /\ Reply(j, To(j, "mid"))
                  /\ UNCHANGED <<pools, pairs, catalog, changes, regimeVars, procVars>>

QuotesStored(j) == /\ job[j].pc = "quotes"
                   /\ Reply(j, Idle)
                   /\ UNCHANGED <<graphVars, regimeVars, procVars>>

(* The mid of our own pool may be missing or near enough to the oracle.    *)
MidRead(j) == /\ job[j].pc = "mid"
              /\ \/ Reply(j, Idle)
                 \/ Priced(<<"WBNB", "USDT">>) /\ Reply(j, To(j, "divergence"))
              /\ UNCHANGED <<graphVars, regimeVars, procVars>>

EventPublished(j) == /\ job[j].pc \in Events
                     /\ Reply(j, Idle)
                     /\ UNCHANGED <<graphVars, regimeVars, procVars>>

(* The snapshot reads the tracked pools one by one.                        *)
SnapshotDue(j) == /\ config.db
                  /\ Due(j, [Idle EXCEPT !.pc = "row", !.todo = SetToSeq(Pools)])

RowRead(j) ==
    /\ job[j].pc = "row"
    /\ LET l == [job[j] EXCEPT !.todo = Tail(@),
                               !.found = @ \/ Head(job[j].todo) \in DOMAIN pools]
       IN Reply(j, IF l.todo # <<>> THEN l
                   ELSE IF l.found THEN [l EXCEPT !.pc = "insert"] ELSE Idle)
    /\ UNCHANGED <<graphVars, regimeVars, procVars>>

RowsInserted(j) == /\ job[j].pc = "insert"
                   /\ Resume(j, Idle)
                   /\ UNCHANGED <<graphVars, regimeVars, recorded>>

FlushDue(j) == recorded /\ Due(j, [Idle EXCEPT !.pc = "health"])

HealthFlushed(j) == /\ job[j].pc = "health"
                    /\ Reply(j, Idle)
                    /\ UNCHANGED <<graphVars, regimeVars, procVars>>

-----------------------------------------------------------------------------
(* Redis rejects a command of a poller, which counts its source as failed. *)
PollRejected(j) == /\ job[j].pc \in {"gas", "gasEvent", "price", "mid", "divergence"}
                   /\ Reply(j, Idle)
                   /\ UNCHANGED <<graphVars, regimeVars, procVars>>

(* Nobody catches the other rejections, nor one of the database: the       *)
(* process ends.                                                           *)
RedisFailed == /\ wire # <<>> /\ Head(wire) # Quit /\ job[Head(wire)].pc \in Unhandled
               /\ Die("redis")

InsertFailed(j) == job[j].pc = "insert" /\ Die("database")

(* SIGTERM: the watchers and timers stop and QUIT goes behind the commands *)
(* that wait; before the handler is installed the process just ends.       *)
Stop == \/ phase = "boot" /\ Die("stop")
        \/ /\ phase = "up" /\ phase' = "stopping"
           /\ wire' = Append(wire, Quit)
           /\ UNCHANGED <<graphVars, regimeVars, envVars, cause, boots, seen, left, job,
                          recorded>>

HasQuit == wire # <<>> /\ Head(wire) = Quit /\ Die("stop")

-----------------------------------------------------------------------------
NewBlock == /\ head < MaxBlocks /\ head' = head + 1
            /\ UNCHANGED <<graphVars, regimeVars, config, paper, procVars, jobVars>>

PaperExecutor == /\ paper < MaxPaper /\ paper' = paper + 1
                 /\ \E p \in Pools : PaperTrade(p)
                 /\ UNCHANGED <<regimeVars, config, head, procVars, jobVars>>

Begins(j) == \/ CatalogDue(j) \/ BlockSeen(j) \/ SyncSeen(j) \/ SwapV2Seen(j) \/ SwapV3Seen(j)
             \/ PollDue(j) \/ SnapshotDue(j) \/ FlushDue(j)

Resumes(j) == \/ SubgraphAnswered(j) \/ MulticallAnswered(j) \/ MulticallFailed(j)
              \/ SourceAnswered(j) \/ SourceFailed(j) \/ RowsInserted(j) \/ InsertFailed(j)

Answers(j) == \/ EntriesStored(j) \/ CatalogAnnounced(j) \/ PoolWritten(j) \/ PairWritten(j)
              \/ TickPublished(j) \/ ChangePublished(j) \/ PairMidRead(j) \/ BnbUsdRead(j)
              \/ GasStored(j) \/ PriceStored(j) \/ QuotesStored(j) \/ MidRead(j)
              \/ EventPublished(j) \/ RowRead(j) \/ HealthFlushed(j) \/ PollRejected(j)

RedisAnswers == HasQuit \/ RedisFailed \/ \E j \in Jobs : Answers(j)

Next == \/ Start \/ NewBlock \/ PaperExecutor \/ Stop \/ RedisAnswers
        \/ \E j \in Jobs : Begins(j) \/ Resumes(j)

Spec == Init /\ [][Next]_vars

(* Redis answers or its client gives up after three retries, and every     *)
(* request to a source ends with an answer, an error or its timeout.       *)
FairSpec == Spec /\ WF_vars(RedisAnswers) /\ \A j \in Jobs : WF_vars(Resumes(j))

-----------------------------------------------------------------------------
(* Every variable has its type; a job waits for Redis exactly when its     *)
(* command is on the wire, once.                                           *)
IngestionTypeOK ==
    /\ GraphTypeOK /\ RegimeTypeOK
    /\ config \in Configs /\ head \in 1 .. MaxBlocks /\ paper \in 0 .. MaxPaper
    /\ phase \in {"down", "boot", "up", "stopping"}
    /\ cause \in {None, "redis", "database", "stop"}
    /\ boots \in 0 .. MaxBoots /\ seen \in 0 .. MaxBlocks
    /\ left \in [{"event", "block", "timer"} -> Nat]
    /\ recorded \in BOOLEAN
    /\ wire \in Seq(Jobs \cup {Quit})
    /\ job \in [Jobs -> JobState]
    /\ \A j \in Jobs : job[j].pc \in RedisPc <=> \E i \in 1 .. Len(wire) : wire[i] = j
    /\ \A i, n \in 1 .. Len(wire) : wire[i] = wire[n] /\ wire[i] # Quit => i = n

(* rpc.ts:56-80, marketGraph.ts:21-31: whatever refreshes overlap, a pool  *)
(* hash has the mid and the reserves of one read, except for reserves the  *)
(* paper executor has written, and no block number much newer than them.   *)
PoolExplained ==
    \A p \in DOMAIN pools : LET h == pools[p]
                            IN /\ h.reserves \in {h.midPrice, Paper}
                               /\ h.blockNumber <= h.midPrice + Lag

(* rpcWs.ts:85-89: ticks of one pair overlap over their awaits, yet its    *)
(* regime changes in the stream are a chain within a run of the service.   *)
RegimeEventsChain ==
    \A i, n \in DOMAIN changes :
       LET a == changes[i] b == changes[n]
       IN (/\ i < n /\ a.pair = b.pair /\ a.run = b.run
           /\ \A m \in i + 1 .. n - 1 : changes[m].pair # a.pair) => a.to = b.from

(* marketGraph.ts:33-45: once the service has seen a price of a pair and   *)
(* no write of the pair is under way, Redis has the regime it remembers.   *)
PairMirrorsMemory ==
    \A k \in Pairs :
       (series[k] > 0 /\ \A j \in Jobs : job[j].pc = "pair" => KeyOf(j) # k)
          => pairs[k] = lastRegime[k]

(* The claim of services/ingestion/src/snapshots.ts:7-8 and of the comment *)
(* at index.ts:17: the database is optional, and when it dies the service  *)
(* degrades to Redis only and is not killed.                               *)
DegradesToRedisOnly == cause # "database"

(* Every handler that starts comes to its end, whatever its sources do.    *)
EveryJobEnds == \A j \in Jobs : (job[j].pc # "idle") ~> (job[j].pc = "idle")
=============================================================================
