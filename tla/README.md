# Formal verification of PancakeFlow

This directory holds TLA+ models of PancakeFlow, configurations that check them
with TLC on small instances, and proofs that TLAPS checks for every value of the
constants. The subject is the Python agents process (`agents/`), the TypeScript
execution service with its transactions (`services/execution`), the ingestion of
market data (`services/ingestion`), the dashboard (`apps/web`), and what they share
through Redis and the chain.

## 1. Inventory of the system

| Component | State | Operations | Talks to | What makes it correct |
|---|---|---|---|---|
| Event bus (`agents/common/bus.py`, `services/execution/src/redis.ts`) | stream `events:trade`, one group per consumer, set `risk:open_positions` | publish, consume in batches, ack | everything | an event is delivered at most once per group, in order |
| Circuit breaker (`agents/risk/circuit_breaker.py`) | hash `risk:breaker` | trip, maybe_recover, current_state, arm | risk gate, monitor, strategy | a trip stops trading; it recovers after a cooldown |
| Risk monitor (`risk.agent.monitor_loop`) | none | compare with the oracle, trip, recover | breaker | never stops |
| Strategy (`agents/strategy`) | vector memory | scan, publish proposals | bus, market graph | proposes only while not tripped |
| Orchestrator (`agents/orchestrator/graph.py`) | `_pending`, `_proposals`, its group | handle one event at a time | bus, gate, dry run, paper executor, portfolio | no trade skips a stage, none is executed twice |
| Risk gate (`agents/risk/agent.py`, `limits.py`) | `_fail_streak` | gate_proposal, approve_after_sim, on_fill | breaker, ledger, positions | limits hold when the trade is executed |
| Paper executor (`executor_paper.py`) | pool reserves in Redis | execute | market graph | same outcome as the dry run minus slippage |
| Portfolio (`agents/portfolio`) | ledger in Postgres, Redis or memory | on_fill, metrics | bus | every fill is booked once |
| Execution service (`services/execution/src/index.ts`) | its group, lazily built executor | fill approved trades, pause on trip | bus, chain | each approved trade is filled once |
| On-chain executor and nonces (`modes/onchain.ts`, `nonceManager.ts`) | next nonce | simulate, send, wait, retry, pause | chain | one transaction per trade takes effect |
| Contract (`contracts/src/ArbExecutor.sol`) | owner, operators, paused | executeCycle, flash, pause | pools | a cycle pays back more than it took or reverts |
| Scanner and AMM arithmetic (`agents/strategy/arbitrage`) | none | find a negative cycle, size it | market graph | what it reports is a cycle and its output is not overstated |
| Ingestion (`services/ingestion`) | price windows and regimes in memory, source registry; pool, pair, oracle and catalog hashes in Redis | refresh per block, ticks and whales per event, poll, snapshot, shut down | chain, oracle, CEX, subgraph, Postgres | a hash is of one read, regime changes form a chain, every handler ends, without a database it goes on |
| Dashboard (`apps/web`) | per page: feed, figures, equity curve, console log, tables | connect and reconnect, poll, ask, navigate | API, its WebSocket | what it shows catches up with the desk and the ledger, nothing loads for ever |
| API (`services/api`) | none of its own | read Redis and the ledger, relay `ui:push` | Redis, ledger | presentation |
| Backtest, scripts, infrastructure | none of their own | offline, deploy | - | presentation |

Interaction. One asyncio event loop runs the orchestrator, the strategy and the
monitor (`agents/main.py`), so these interleave at `await` only. The execution
service is a second process with a consumer group of its own on the same stream.
Either process may die and be restarted by docker; any Redis or database call may
raise. Inside the execution service the loop and the handlers of the breaker
subscription interleave over the executor they share. The ingestion service
starts a handler per event, block and timer, none of which waits for the one
before; they meet in one Redis connection, in the classifier's maps and in the hashes,
one of which the paper executor writes too. The dashboard polls through the API and
listens to a relay of `ui:push`, which keeps nothing for those who are not connected.

Hard behaviours: interleaving of the tasks around the breaker and the set of open
positions, two executors on one event, exceptions in the middle of `handle()`
(swallowed, and the event acknowledged), restarts that lose memory and the rest of
a batch, state that is read at one stage and used at a later one, receipts that come
after their timeout, answers that overtake each other, and pushes that are lost.
`PROJECT.json` lists the hazards one by one with the line where each bites.

## 2. Modules

```
RedisBus   CircuitBreaker
   |   \    /    |
   |  StrategyAgent, Orchestrator
ExecutionService   |
        \          |
        TradeLifecycle ----> implements ----> TradeProtocol
           |         \
   MCTradeLifecycle   TradeLifecycleProofs -> AuditTrailProofs -> ProtocolProofs
                                                              \-> BookkeepingProofs

SignerAccount -> OnchainExecutor ----> implements ----> Settlement
                   |         \
               MCOnchain    OnchainProofs

ChainConfig -> MarketGraph -> RegimeClassifier -> MarketIngestion -> MCIngestion
                                                            \-> IngestionProofs

LiveFeed -> Dashboard \
              Pages  -> WebApp -> MCWeb
                             \-> WebProofs -> TimelineProofs
```

* **RedisBus** - `stream` is `events:trade`: each entry has a type, a trade id and
  a source. `simulation.result` appears as `simulation.passed` or
  `simulation.failed`, since its payload decides what happens next.
  `agent.decision` and `risk.circuit_breaker` entries, which no consumer handles,
  are left out. A group with its single consumer is a pair `[next, last]`:
  `last` is what Redis has delivered, `next` the entry in hand. Both consumers
  read with `>` only, so pending entries are never redelivered and `Restarted`
  drops the rest of the batch.
* **CircuitBreaker** - the hash and `monitor_loop`. `maybe_recover` is two
  actions, `MonitorRead` and `MonitorWrite`, because its two Redis calls are two
  awaits. Time is the flag `aged`.
* **StrategyAgent** - the breaker check and the publications of one scan.
* **Orchestrator** - `handle()`, one action per await that touches shared state:
  `OnProposed, Gate, TripDrawdown, GateLimits, Reject` for a proposal,
  `OnSized, Simulate, Approve` (or `Reject`) for a sized trade, and
  `OnApproved, Reserve, Execute, AccountFill, TripFailures, ClearStreak, Book,
  Release` for an approved one. `pc` is the await it stands at. `HandlerError` is
  the `except` and `finally` of `run()`; `OrchestratorRestart` the end of the process.
* **ExecutionService** - the loop of `index.ts`, with its own error and restart.
  The mode "off" is a deployment without it (`render.yaml`).
* **TradeLifecycle** - both processes with faults bounded by `MaxFaults`; the
  properties and the inductive invariants.
* **TradeProtocol** - the abstract specification: the diagram in the header of
  `graph.py`. A trade advances one phase at a time, never back, and is filled
  at most once per executor and only when approved.

* **SignerAccount** - external to the program: the account of the signer at a node,
  its mempool with at most one transaction per nonce, mined in order, and
  `ArbExecutor.paused`, which a pause that does not revert sets and the owner clears by hand
  (`Unpause`). With `PRIVATE_RPC` (`relayed`) the public node that is asked
  for the pending count does not see what is queued.
* **OnchainExecutor** - `getOnchain` (check, await, assign), `execute` and `pause` of
  `modes/onchain.ts` and `NonceManager`, one action per await. A caller is the
  consumer loop or the handler of one TRIPPED message; `inst` is the executor it uses,
  `next` the counter of each executor. `Receipt` takes what viem's `waitForTransactionReceipt`
  resolves with (`IsReceipt`): the receipt of the transaction or, where the node has seen it queued, of
  the one that was mined under its nonce in its place; through a private relay it was never seen and
  only its own receipt counts. The code looks at `status` alone. `Caught` is the catch of an attempt, from
  whatever await, with the transaction sent or not; `Crash` a restart that
  loses the memory, the trade in hand and the trips told meanwhile.
* **Settlement** - the abstract specification of an executor: one status per trade, nothing
  carried out while the contract is paused, and "executed" only for a trade the chain has carried out,
  or, once the contract has been paused, possibly in error (finding 6).
* **ChainConfig** - tokens, the static catalog, regimes and the key of a pair.
* **MarketGraph** - the hashes and the regime changes in `events:market`. A price or
  a reserve is the height it was read at, which is what tells fresh from stale.
* **RegimeClassifier** - `pushPrice`, `classify` and `updateVol`: the window up to the
  `WARMUP` prices (60 in the code) the first verdict takes, the precedence of
  the verdicts and the hysteresis. The statistics are open.
* **MarketIngestion** - the process: `job[j]` is a handler call with its local
  variables and the await it stands at; `wire` the commands on the one Redis connection, answered
  in order. Rejections that a handler catches end the job (`PollRejected`), the others
  the process (`RedisFailed`, `InsertFailed`). `Stop` is SIGTERM, with the QUIT behind
  the commands that wait.
* **LiveFeed** - `useLiveFeed`: the chain of sockets and timers of each mount.
* **Dashboard** - the desk page: `chains` are the refreshes under way, each at one of
  its three requests; a request is answered with what held when it was sent or with what holds
  now. `LiveEvent` is a message with the effect React runs after it.
* **Pages** - the other four pages: requests under way, data, and what is shown; the
  decision graph of `agents/page.tsx` as its two nested loops compute it: `byTrade` collects the
  events of a trade, `Row` draws them, `DecisionGraph` does so trade by trade. An event that names no
  trade has the empty name and is left out (`Named`).
* **WebApp** - one page mounted at a time, and behind it the desk, the ledger and the relay.

Operators described as "mutant" or "a bug to detect" are faulty variants kept before the
definition they vary; each property is known to fail when one of them takes its place.

History variables, which the code does not have: `cut` and `execCut` (trades whose
handling an error or restart cut short), `faults`, `restarted`; `given` (numbers handed out
since the last reset), `threw`; `cause`, `boots`; `late` (sockets opened after the cleanup),
`answered`.

## 3. What is checked

| Run | Instance | Shows |
|---|---|---|
| `TwoExecutors.cfg` | cycle and directional trade, paper execution service, batches of 2 and 1, one fault | `TypeOK`; `PublishedOnce`; `PositionsExplained`: a member of the open positions has a holder or a reason; `LedgerMatchesStream`; `ImplementsProtocol` |
| `AgentsAlone.cfg` | two cycles, no execution service, oracle divergence possible, streak limit 2, one fault, `FairSpec` | `PipelineOrder`; `UnknownStrategyNeedsRestart`; `FilledTradesForgotten`; `StreakMatchesStream`; `EveryProposalSettles`; `PositionsDrain`; `BreakerCools` |
| `BreakerRearms.cfg` | cycle and directional trade, oracle divergence possible, one fault | violated: nothing re-arms the breaker |
| `TrippedBreaker.cfg` | as BreakerRearms | violated: a trade that passed the gate is executed while the breaker is tripped |
| `OneExecutor.cfg` | both processes, paper or on-chain | violated: every approved trade is filled twice |
| `PositionLimit.cfg` | both processes, limit 1, no faults | violated: two trades sized on the same count hold positions at once |
| `Onchain.cfg` | a cycle, a directional trade, a trip; paper, testnet and live with and without the override; public or private submission; 2 retries, 1 crash | `OnchainTypeOK`; `NonceGivenOnce`; `GapNeedsException`; `EveryTradeReturns`; `ImplementsSettlement` |
| `CycleMinedOnce.cfg` | a cycle and a trip on the testnet, 1 retry | violated: a retry under another nonce lets the cycle be carried out twice |
| `ExecutedWasMined.cfg` | as CycleMinedOnce | violated: with two executors a pause takes the place of a cycle, and its receipt is told as the execution of that cycle |
| `Ingestion.cfg` | a V2 and a V3 pool, polling or streaming, two handlers at a time, 2 blocks, 2 boots, a node one block behind, one paper trade | `IngestionTypeOK`; `PoolExplained`; `RegimeEventsChain`; `PairMirrorsMemory`; `EveryJobEnds` |
| `DatabaseLost.cfg` | one handler at a time, a timer | violated: a rejected INSERT ends the ingestion |
| `Web.cfg` | five scenes: fills and summaries, trips, pipeline steps, console, a walk through the pages | `WebTypeOK`; `AtMostOneLeak`; `EquityCurve`; `BusyMeansAsking`; `UnreachableTold`; `TimelineGraph`; `FeedKeepsTrying`; `BannerFollowsTrip`; `FiguresCatchUp`; `LoadingEnds` |

Bounds. Two trades suffice for two tasks or processes to work on different trades
and on the same one, to cut a batch in the middle, and for a streak to reach its limit or be
broken below it; a trade is proposed once, so the number of trades bounds the
stream. A cycle can fail its dry run and its execution, a directional trade
cannot; without the execution service that is the only difference, so there two cycles have the
behaviours of every pair, and the other runs have one trade of each kind. One fault at any point covers
each await failing and each crash; the proofs cover any number. `MaxConcurrent`
1 makes the limit bite, and 2 lets both trades through in the runs about two
executors. `FailThreshold` is 2 where the streak is checked, so that one failure does not trip the breaker and two do, and 1 where
any failure is to trip it; it is 3 in the code, and `StreakAgrees` (section 4) holds for every value.

Open choices stand for data the properties do not depend on: which opportunity a
scan finds, the drawdown comparison, tier, slippage and size checks, the outcome of
the requote and of the slippage haircut. The drawdown gate is left free to trip even
though booked paper profits are never negative: the lifecycle then covers every ledger.

On chain, one trade in the loop and one pause are all that can be under way at a time, so
one of each gives every interleaving of two callers; two retries are the default of
`MAX_RETRIES`. In the ingestion two jobs are two ticks of a pair, two refreshes, or
one of each with a timer; `SomeLoads` says how many jobs of each class a behaviour
has, three events being what a chain of two regime changes takes. `WARMUP` is 1 instead of 60:
the model counts prices only up to the first verdict. Two boots let the second start from what
the first has left in Redis. In the dashboard two mounts show what a page that was left still
does; the caps of feed, curve and log are 2 instead of 200, 60 and 8, so that they cut; two
refreshes overlap; two figures tell an old answer from a new one. A timeline of three
events, some without an id, links, interrupts and starts a row. `clicks` bounds navigation.

The runs of the lifecycle keep the deadlock check: the monitor always has a step. The other
three systems may stop: every trade has its status and the trip is spent, the loads
of a behaviour are used up, or nothing is left to click and no push comes.

Fairness (`FairSpec`). Weak fairness of the orchestrator, of the monitor's recovery
(`Recover`), of the execution service and of time: an event loop resumes every task whose await has
completed, the two loops have no exit but a crash, and docker restarts what died
(`restart: unless-stopped`). Each of them is a single sequential task, so fairness of
the task as a whole is what the scheduler gives. The strategy is not assumed to
propose anything, the market to diverge from the oracle, or a fault to happen.

On chain: weak fairness of the miner and of each caller; promises settle, because viem
times out every request and `waitForTransactionReceipt` has its own timeout. A retry is
bounded by the code, so no strong fairness is needed. Ingestion: weak fairness of the Redis connection
(ioredis answers or gives up after `maxRetriesPerRequest`) and of the answers of the
sources, each of which is a request with a timeout. New blocks, events and
timers are not assumed. Dashboard: timers run off, a socket that is
neither open nor closed becomes one of the two, requests end. Weak fairness suffices for
`PageRefreshDue` because the interval fires whatever is under way, as long as one of the
`MaxRefresh` places is free; places are freed by `PageRefreshed`.

## 4. What is proved

TLAPS proves for every finite set of trades, every partition into cycles and
directional trades, and every value of the limits, batch sizes, modes and number of
faults (assumptions: `TradesAssumption`, `DivergencesAssumption`,
`OrchestratorAssumption`, `ExecutionAssumption`, `FaultsAssumption`):

* `TypeCorrect`: `Spec => [](TypeOK /\ CursorsInv)`. `TypeOK` alone is not inductive: that
  `cur` is a trade needs the cursors to be on the stream, and that a handler stands on an
  entry of the right type (`AgentsCursorInv`, `ExecCursorInv`).
* `AuditInvariant`: `Spec => []AuditInv`, with `AuditInv` the conjunction of those two,
  `CausesInv` and `PublishedOnce`. `CausesInv` says for every entry that it was caused by
  an earlier entry which the publishing consumer has passed or stands on. This is
  what makes "at most once" inductive: a duplicate would need its cause twice, the cause
  is unique by induction, and the cursor never goes back. `OldEntries` shows that a step keeps
  what is known about old entries, `NewEntry` and `PublishStep` what a new entry needs,
  and `AtProposal`, `AtSized`, `AtApproved`, `AtExecution` what a consumer may conclude
  about the trade it is working on.
* `AtMostOnce`: `Spec => []PublishedOnce`.
* `UnskippableGate`: `Spec => []PipelineOrder`.
* `BreakerDiagram`: `Spec => [][BreakerMoves]_vars`, the moves the breaker can make. `maybe_recover` reads
  in one await and writes in another; `WritesOverTrip` says that the trip it has read is still there,
  since nothing else writes over one. `CooledNeverRearms`: every behaviour in which the
  breaker cools down refutes `BreakerRearms`.
* `Implementation`: `Spec => ImplementsProtocol`, the refinement of `TradeProtocol` under
  the mapping `phase[t] = PhaseOf(t)`, `fills[t]` = the sources with a fill of `t`. It needs
  one fact more, `RejectInv` (a trade about to be rejected has not passed its dry run).
  `PublishView` and `PublishPhase` say what a new entry changes, `ProposalPhase`, `SizedPhase`,
  `ApprovedPhase` and `NewPhase` which phase its trade was in, and `AdmittedStep` that the
  result is a step of the protocol; `simulation.failed` and steps that publish nothing stutter.

`OnchainProofs` proves for every set of trades and trips, every configuration, number of retries
and crashes (assumptions: `AccountAssumption`, `ExecutorAssumption`):

* `OnchainTypes`: `Spec => []OnchainTypeOK`.
* `NoncesGivenOnce`: `Spec => []NonceGivenOnce`. Each executor's counter is above everything it
  has given out since its reset, whoever asks.
* `GapsNeedExceptions`: `Spec => []GapNeedsException`. Inductive with `NoGap`: while nothing
  has thrown, every number a caller is about to take or has taken, and every counter, is `Reached`:
  all numbers below it are mined, queued or held (`Covered`). It holds although two
  executors may be constructed, because each starts from a pending count.
* `ExecutorImplementsSettlement`: `Spec => ImplementsSettlement`, under the mapping in `OnchainExecutor`.
  It needs `SettleInv` (on paper nothing is queued or mined, a mined cycle is of a trade that is one,
  a trade in hand has no status yet), `ChainInv` (the n-th transaction mined has the n-th nonce, and what is
  queued comes after) and `WaitInv`: what is queued or mined under the nonce of a transaction whose receipt
  the loop awaits is that transaction or a pause, since the loop submits nothing else meanwhile.
  `ReceiptExplained` puts them together: a receipt with status "success" is of the cycle, or
  of a pause that took effect.
* `ReportsStand` spells out what that means for the code: a trade told as executed has been mined, or the mode is
  paper, or the contract has been paused and the submission was public (`ReportExplained`); its status never
  changes, and while the contract is paused nothing is carried out (`SettlementStep`).
* `OneExecutorTellsTruth`: `Spec /\ []OneExecutor => []ExecutedWasMined`. What is waited for is queued or
  mined (`PendingInv`), because with one counter nothing is replaced until something throws.
* `MinedOnceUnlessThrown`: `Spec => [](~threw => CycleMinedOnce)`. `OnceInv` says that at most one cycle of
  a trade is queued, it is the one in hand, and what is mined of that trade is of an earlier attempt and
  has reverted, or is the transaction whose receipt is awaited.
* `QueuedUntilMined`: `Spec /\ []OneExecutor => [][~threw' => NothingReplaced]_vars`: until something throws a transaction leaves
  the mempool by being mined, a pause included. `KeptInv` says that the one counter is above everything queued and held, and
  that numbers held are all different. `OneExecutor` is a hypothesis because the code does not ensure it (finding 6);
  it holds in every behaviour in which the first call of `getOnchain` ends before the second begins.

`BookkeepingProofs` builds on the audit trail and has the same assumptions:

* `BooksInvariant`: `Spec => [](AuditInv /\ BookInv)`. The four properties of the books are not
  inductive: `Book` writes what the await before it left in hand, and so `BookInv` adds that the
  fill in hand is in the stream under its trade and is booked before the release (`FillInHand`), and
  that `_proposals` keeps a proposal that was read until its approval is passed, unless a
  restart comes between (`ProposalsKept`).
* `PositionsAccounted`, `LedgerAgrees`, `StrategyKnown`, `MapsForget`: the four properties,
  `PositionsExplained`, `LedgerMatchesStream`, `UnknownStrategyNeedsRestart`, `FilledTradesForgotten`.
* `StreakAgrees`: `Spec => []StreakMatchesStream`. `StreakInv` says at each await of `on_fill` by how
  much the streak is behind the stream. `TrailingStep` says what a new entry does to the trailing
  failures: a failed fill of the agents adds one, an executed one leaves none, any other keeps them.
* `NothingElseLost`: a proposal is settled, cut short, or has an entry that the orchestrator has in hand or is
  still to read; an approval likewise at the execution service. Both loops acknowledge what they failed
  to handle, and nothing but `cut` and `execCut` gets lost that way.
* `TrippedAdmitsNone`, `AloneFillsOnce`, `CapExceededByLeftovers`: what is left of the properties that findings 2,
  3 and 4 refute. A tripped breaker admits no trade and only admitted trades are filled; where the execution
  service is off, a trade has one fill; besides the positions nobody gives back (`LeftOpen`) there is at
  most one per process, whatever the limit.

`IngestionProofs` holds for every set of pools, window, number of handlers under way, loads, blocks and
boots (assumptions: `GraphAssumption`, at least one pool, as in the catalog; `ClassifierAssumption`;
`IngestionAssumption`, room for a handler and a block):

* `ServiceCorrect`: `Spec => []ServiceInv`, types, the wire (one command of each job that waits for Redis,
  and of no other), what a job at each await has in hand, and that a process that is down has neither.
  `IngestionTypes` follows. Everything else is proved relative to it.
* `OnlyRowsNeedTheDatabase`: `Spec => []DatabaseNeeded`: the database ends the service only where its URL is
  set and only after a tracked pool was written (finding 7). `SnapshotInv` says that a snapshot under way
  has found a pool of the graph if it is about to insert; pools are added and never removed.
* `PoolsExplained`: `Spec => []PoolExplained`, with `BlockInv`: of a refresh under way the block is at most
  `Lag` above the height its values are of. Without it nothing is known of what `PoolWritten` stores.
* `RegimeInvariant`: `Spec => []RegimeInv`. Ticks of a pair overlap, so the chain that `rpcWs.ts:84-89`
  tells is not visible in the hashes alone. `ChainInv` orders the ticks under way (by stage, and at
  the same stage by their place on the wire) and says that from the last change told, over these
  ticks from the oldest to the youngest, to the verdict in memory, each starts from the
  one before. What makes this inductive is that the one Redis connection answers in order: no tick overtakes
  another of its stage.
* `PairsMirrored` and `RegimeChain`: `PairMirrorsMemory` and `RegimeEventsChain`, from `RegimeInv`.

`WebProofs` holds for every number of mounts, clicks and requests under way, all caps, figures,
answers and scenes (assumptions: `FeedAssumption`; `WebAssumption`, in which the curve keeps a point, a page
may ask once, the figure of an empty ledger is one of the figures, and a timeline is a sequence of
events with four fields, a missing one being ""):

* `WebTypes`: `Spec => []WebTypeOK`. `WebInv` adds what a page that was left has under way:
  a late answer finds neither a refresh nor a question (`Blank`), and no tab is asked from the desk.
* `OneLeak`: `Spec => []AtMostOneLeak`. `LeakInv`: a page that is shown, or that waits for its
  timer, has opened no late socket; the timer opens it, and its close finds `stop` set.
* `ButtonReleased`: `Spec => []BusyMeansAsking`.
* `ToldOnce`: `Spec => []UnreachableTold`, with `AnsweredInv`: a page that was answered has
  something to show.
* `CurveDrawn`: `Spec => []EquityCurve`, with `CurveInv`: until the curve is full the index of its last
  point is the number of points before it. `PlotPoints` says what a new point does to the curve, and
  `LatestIn` that a pushed figure is one of the figures; it rests on `Least`, that a set of numbers has a
  least one.

`TimelineProofs` holds for timelines of any length and any number of trades:

* `GraphDrawn`: `Spec => []TimelineGraph`. The graph is a fold over trades of a fold over the row of each, and
  that is a fold over the timeline. `FoldExists` constructs the function `FoldLeft` is defined by, one index
  at a time; with it `ByTradeFold`, `RowFold` and `GraphFold` restate each loop as a sequence of states, the first
  of which is empty and each other a step from the one before. `Upwards`, induction over
  an interval as the well-ordering of `Least`, then carries what is known from one to the next: `IsRow` (the row
  after k events has those of the trade, in order, the n-th at the place `Seen`), `Drawn` (a row of j
  nodes and j - 1 edges) and `Draws` (what is drawn once some trades are). `ListedOnce` says that `SetToSeq` lists every
  trade once, and `FollowsNext` that neighbours in a row are the pairs `Follows` names.

`NextShape`, `FeedShape`, `FigureShape`, `ConsoleShape` and `TabShape` (and `NextShape` of the ingestion) state
once what the steps do to one group of variables; the proofs of the invariants go by those few cases.

Only model-checked:

* All liveness (`EveryProposalSettles`, `PositionsDrain`, `BreakerCools`, `EveryTradeReturns`, `EveryJobEnds`,
  `FeedKeepsTrying`, `BannerFollowsTrip`, `FiguresCatchUp`, `LoadingEnds`): it rests on fairness and
  on ENABLED, which are out of the prover's reach.
* The seven properties of the runs that expect a violation, which do not hold; what holds instead is proved (section 5).

All safety invariants and the refinements that the passing runs check are theorems.

## 5. Findings

1. `circuit_breaker.py` documents ARMED -> TRIPPED -> COOLDOWN -> ARMED; only the
   tests call `arm()`, so the last transition never happens (`BreakerRearms`).
2. The breaker is read at the gate only, so trades already sized are executed while
   it is tripped (`TrippedBreakerHaltsFills`).
3. The orchestrator executes on paper in every mode and the execution service fills
   the same approval again (`FilledByOneExecutor`); only the paper fill is booked.
4. The limit on concurrent positions is checked long before a position is added
   (`PositionsWithinLimit`).
5. A receipt that times out resets the nonce manager, and the retry of the cycle goes out
   under a nonce of its own beside the transaction it was to replace (`CycleMinedOnce`).
6. `getOnchain` awaits the import between its check and its assignment, so the loop and the subscription
   can construct an executor each, whose counters give out the same number, against the "one
   signer" that `nonceManager.ts:2` serializes. The pause then takes the place of the cycle that is queued, viem
   resolves the wait for the cycle with the receipt of the pause, and `onchain.ts:77` tells "executed"
   with the hash of a transaction that was never mined (`ExecutedWasMined`). In the other order the
   cycle takes the place of the pause, which is not sent again.
7. A rejected INSERT of a snapshot is caught by nobody (`index.ts:46`) and ends the ingestion, although
   `snapshots.ts:8` says it "degrades gracefully to Redis-only" and `index.ts:17` that a source
   that dies "degrades, never kills" (`DegradesToRedisOnly`).

Each of them is delimited by a theorem, for every value of the constants: 1 by `BreakerDiagram` and
`CooledNeverRearms`, 2 by `TrippedAdmitsNone`, 3 by `AloneFillsOnce`, 4 by `CapExceededByLeftovers`, 5 by
`MinedOnceUnlessThrown`, 6 by `OneExecutorTellsTruth` and, for the other order, `QueuedUntilMined`, 7 by
`OnlyRowsNeedTheDatabase`.

Seen while reading, and stated as exceptions in the properties that hold: `_pending` and
`_proposals` keep rejected trades for ever; the execution service keeps the position
of an executed directional trade; an exception after `Reserve` leaks the position;
a restart loses the streak and the rest of the batch.

In the ingestion: overlapping refreshes put back older values (`index.ts:30`); the
block number of a pool may be one its values are not of; two pools of one pair share a series and a
regime; `rank()` is asked once, at boot, when there is nothing to rank (`rpc.ts:26`), and a
multicall that fails is not recorded; a partly failed multicall stores liquidity "0"
(`rpc.ts:78`); after a failed subgraph the seed list is stored under the event
"subgraph:v2" (`subgraph.ts:29`); the errors of a pipeline are dropped; the paper executor is
a second writer beside the "single-writer" of `marketGraph.ts:7`; after a restart a regime change from "unknown" is not told.

In the dashboard: the rail, said to show "each trade's journey" (`AgentRail.tsx:2`) from "the event log of
one trade" (`:13`), is given the newest event alone (`page.tsx:47`), so the stages before it are dark; a failing summary hides a tripped breaker,
since its request comes first, and the pushed `circuit_breaker` events are not
looked at (`page.tsx:26`, `:45`); the trades and agents pages say there is nothing yet when the
fetch failed; approvals carry no id and are missing from the decision graph; the
console cuts its log after an answer only; without snapshots the API returns an error where
`simulate/page.tsx:34` promises "an honest zero result"; a reconnect that is due when the
page is left opens a socket nobody closes (at most one per mount, `AtMostOneLeak`).

## 6. Not modelled

* Trimming of the streams and a restart of Redis itself: it empties stream, groups and
  hashes at once, and the code has nothing that reacts to it.
* `ArbExecutor.sol` beyond its pause flag and the success of a cycle: an EVM transaction is
  atomic, so its legs, callbacks and flash swaps interleave with nothing here.
* Amounts: `cycle_math.py`, the scanner, limits and metrics work on 256-bit integers, decimals and
  logarithms. What they decide is an open choice in the lifecycle, so its
  properties hold for every outcome; whether the numbers are right is not shown.
* The three storage tiers of the ledger (a set of booked rows in the lifecycle), vector memory and
  LLM calls, trend signals and the liquidity agent (stateless, open choices).
* Values of prices, volatility and gas, scores of sources, choice of the RPC endpoint.
* Commands that ioredis sends again after a reconnect, when it cannot know whether Redis has carried them out:
  a command of the model is answered once, in order, or is rejected.
* Of the dashboard: the rail of the last event, styling, charts, the rows of tables and the figures other than the P&L.
* API server (read-only views and a relay, modelled from the side of the dashboard), backtest,
  scenarios, migrations, scripts, infrastructure.

The models meet at what they share: `Statuses` in ExecutionService is what `OnchainExecutor`
returns, `PaperTrade` in MarketGraph is the write of the orchestrator's `Execute`, and `Trip` and
`Booked` in WebApp are the pushes of the breaker and of the portfolio. They are not composed into one
specification: the state space would be a product with no further interaction in it.
