--------------------------- MODULE IngestionProofs ---------------------------
(***************************************************************************)
(* Proofs about the ingestion service, for any catalog, any number of jobs *)
(* under way and any length of the warm-up: types and the order of the     *)
(* wire, what a pool hash says, what Redis and the stream say of the       *)
(* regime of a pair, and what can end the process.                         *)
(***************************************************************************)
EXTENDS MarketIngestion, FiniteSetTheorems, SequenceTheorems, TLAPS

-----------------------------------------------------------------------------
(* The invariants.                                                         *)

(* What a job has while it stands at some step.                            *)
JobOK(l) == /\ l.pc \in {"pool", "pair", "tick", "change", "row"} => l.todo # <<>>
            /\ l.pc = "entries" => l.source \in CatalogSource
GoodJob == {l \in JobState : JobOK(l)}
JobInv == \A j \in Jobs : JobOK(job[j])

(* A process that is down has no memory.                                   *)
DownInv == phase = "down" => /\ Forgotten /\ wire = <<>>
                             /\ job = [j \in Jobs |-> Idle]

(* The values a refresh writes are hardly older than its block.            *)
BlockInv == \A j \in Jobs :
    /\ job[j].pc \in {"multicall", "pool"} => job[j].block <= head
    /\ job[j].pc = "pool" => job[j].block <= job[j].data + Lag

(* A verdict needs a full window, which stays full.                        *)
MemoryInv == \A k \in Pairs : lastRegime[k] # "unknown" => series[k] = WARMUP

Stage == [pair |-> 1, tick |-> 2, change |-> 3]
TickPc == DOMAIN Stage

(* The price ticks of a pair that are under way, and their order: of two   *)
(* at the same step the older one is in front on the wire.                 *)
Ticks(k) == {j \in Jobs : job[j].pc \in TickPc /\ KeyOf(j) = k}
InFront(w, a, b) == \E i, n \in 1 .. Len(w) : i < n /\ w[i] = a /\ w[n] = b
Older(a, b) == \/ Stage[job[a].pc] > Stage[job[b].pc]
               \/ job[a].pc = job[b].pc /\ InFront(wire, a, b)

Oldest(k, a) == a \in Ticks(k) /\ \A b \in Ticks(k) : ~Older(b, a)
Youngest(k, a) == a \in Ticks(k) /\ \A b \in Ticks(k) : ~Older(a, b)
Adjacent(k, a, b) == /\ a \in Ticks(k) /\ b \in Ticks(k) /\ Older(a, b)
                     /\ \A c \in Ticks(k) : ~(Older(a, c) /\ Older(c, b))

(* The last change of pair k that was told, when this run told it.         *)
LastTold(k, n) == /\ phase # "down" /\ n \in 1 .. Len(changes)
                  /\ changes[n].pair = k /\ changes[n].run = boots
                  /\ \A m \in 1 .. Len(changes) : m > n => changes[m].pair # k

(* A tick knows its verdict, and only a change is told.                    *)
TickInv == \A j \in Jobs :
    /\ job[j].pc \in TickPc /\ job[j].regime = "unknown" => job[j].prev = "unknown"
    /\ job[j].pc = "change" => Changed(job[j])

ToldInv == \A n \in 1 .. Len(changes) : changes[n].run <= boots /\ changes[n].to # "unknown"

(* From the last change told, over the ticks under way, to the memory, the *)
(* verdicts of a pair are a chain.                                         *)
ChainOf(k) ==
    /\ \A a, b \in Jobs : Adjacent(k, a, b) => job[a].regime = job[b].prev
    /\ \A a \in Jobs : Youngest(k, a) => job[a].regime = lastRegime[k]
    /\ \A n \in 1 .. Len(changes) : LastTold(k, n) =>
          /\ Ticks(k) = {} => changes[n].to = lastRegime[k]
          /\ \A a \in Jobs : Oldest(k, a) => changes[n].to = job[a].prev
ChainInv == \A k \in Pairs : ChainOf(k)

ServiceInv == IngestionTypeOK /\ JobInv /\ DownInv

RegimeInv == MemoryInv /\ TickInv /\ ToldInv /\ ChainInv

-----------------------------------------------------------------------------
(* The records of the jobs.                                                *)
JobPc == {"idle", "insert"} \cup SourcePc \cup RedisPc
Tokens == BSC_TOKENS \cup {None}

LEMMA PcFacts ==
    /\ "idle" \notin RedisPc /\ "insert" \notin RedisPc /\ SourcePc \cap RedisPc = {}
    /\ \A pc \in SourcePc : pc # "idle"
    /\ Quit \notin Jobs /\ 1 \in Jobs
  BY IngestionAssumption
  DEF IngestionAssumption, SourcePc, RedisPc, Unhandled, Handled, Events, Quit, Jobs

LEMMA IdleGood == Idle \in GoodJob /\ Idle.pc = "idle"
<1>1. <<>> \in Seq(Pools)
  OBVIOUS
<1>2. Idle \in JobState
  BY <1>1, PcFacts DEF Idle, JobState, None, Regime, CatalogSource
<1>3. QED
  BY <1>2 DEF Idle, GoodJob, JobOK

LEMMA MoveType ==
    ASSUME NEW l \in JobState, NEW pc \in JobPc
    PROVE  /\ [l EXCEPT !.pc = pc] \in JobState
           /\ [l EXCEPT !.pc = pc].pc = pc
           /\ [l EXCEPT !.pc = pc].todo = l.todo
           /\ [l EXCEPT !.pc = pc].source = l.source
  BY DEF JobState, JobPc

LEMMA TodoType ==
    ASSUME NEW l \in JobState, NEW todo \in Seq(Pools)
    PROVE  /\ [l EXCEPT !.todo = todo] \in JobState
           /\ [l EXCEPT !.todo = todo].pc = l.pc
           /\ [l EXCEPT !.todo = todo].todo = todo
  BY DEF JobState

LEMMA SeedFinite == IsFiniteSet(SeedPool)
<1>1. DOMAIN BSC_SEED_POOLS = 1 .. 7
  BY DEF BSC_SEED_POOLS
<1>2. SeedPool = {BSC_SEED_POOLS[i] : i \in 1 .. 7}
  BY <1>1 DEF SeedPool
<1>3. BSC_SEED_POOLS \in [1 .. 7 -> SeedPool]
  BY <1>1, <1>2 DEF BSC_SEED_POOLS
<1>4. \A p \in SeedPool : \E i \in 1 .. 7 : BSC_SEED_POOLS[i] = p
  BY <1>2
<1>5. BSC_SEED_POOLS \in Surjection(1 .. 7, SeedPool)
  BY <1>3, <1>4 DEF Surjection
<1>6. IsFiniteSet(1 .. 7)
  <2>1. 1 \in Int /\ 7 \in Int
    OBVIOUS
  <2>2. QED
    BY <2>1, FS_Interval, Zenon
<1>7. QED
  BY <1>5, <1>6, FS_Surjection, Zenon

(* The order in which a set is written out.                                *)
LEMMA SetToSeqType ==
    ASSUME NEW S, IsFiniteSet(S)
    PROVE  /\ SetToSeq(S) \in Seq(S)
           /\ S # {} => SetToSeq(S) # <<>>
<1>1. PICK n \in Nat : n = Cardinality(S) /\ ExistsBijection(1 .. n, S)
  BY FS_CardinalityType
<1>2. PICK f \in [1 .. n -> S] : IsInjective(f)
  BY <1>1 DEF ExistsBijection, Bijection, Injection, IsInjective
<1>3. SetToSeq(S) \in [1 .. n -> S]
  BY <1>1, <1>2 DEF SetToSeq
<1>4. SetToSeq(S) \in Seq(S) /\ Len(SetToSeq(S)) = n
  <2>1. ASSUME NEW g \in [1 .. n -> S] PROVE g \in Seq(S) /\ Len(g) = n
    <3>1. g = [i \in 1 .. n |-> g[i]]
      OBVIOUS
    <3>2. [i \in 1 .. n |-> g[i]] \in Seq(S) /\ Len([i \in 1 .. n |-> g[i]]) = n
      OBVIOUS
    <3>3. QED
      BY <3>1, <3>2
  <2>2. QED
    BY <1>3, <2>1
<1>5. S # {} => n # 0
  BY <1>1, FS_EmptySet
<1>6. QED
  BY <1>4, <1>5

LEMMA PoolsSeq ==
    ASSUME NEW S \in SUBSET Pools
    PROVE  SetToSeq(S) \in Seq(Pools)
<1>1. IsFiniteSet(S)
  BY SeedFinite, GraphAssumption, FS_Subset
<1>2. SetToSeq(S) \in Seq(S)
  BY <1>1, SetToSeqType
<1>3. QED
  BY <1>2

LEMMA PoolFacts ==
    ASSUME NEW p \in Pools
    PROVE  pairKey(p) \in Pairs /\ TokensOf(p) \subseteq BSC_TOKENS
  BY SymbolsKnown, GraphAssumption DEF GraphAssumption, Pairs, TokensOf

(* The jobs that are started.                                              *)
LEMMA Moved ==
    ASSUME NEW pc \in JobPc
    PROVE  /\ [Idle EXCEPT !.pc = pc] \in JobState
           /\ [Idle EXCEPT !.pc = pc].pc = pc
  BY IdleGood, MoveType DEF GoodJob

LEMMA CatalogGood ==
    ASSUME config \in Configs
    PROVE  RefreshCatalog \in GoodJob /\ RefreshCatalog.pc \in {"subgraph", "entries"}
<1>1. CASE config.subgraph
  <2>1. RefreshCatalog = [Idle EXCEPT !.pc = "subgraph"]
    BY <1>1 DEF RefreshCatalog
  <2>2. QED
    <3>1. RefreshCatalog \in JobState /\ RefreshCatalog.pc = "subgraph"
      BY <2>1, Moved DEF JobPc, SourcePc
    <3>2. QED
      BY <3>1 DEF GoodJob, JobOK
<1>2. CASE ~config.subgraph
  <2>1. RefreshCatalog = [Idle EXCEPT !.pc = "entries", !.source = "seed"]
    BY <1>2 DEF RefreshCatalog
  <2>2. /\ RefreshCatalog \in JobState /\ RefreshCatalog.pc = "entries"
        /\ RefreshCatalog.source = "seed"
    BY <2>1, IdleGood DEF GoodJob, JobState, RedisPc, Handled, CatalogSource
  <2>3. QED
    BY <2>2 DEF GoodJob, JobOK, CatalogSource
<1>3. QED
  BY <1>1, <1>2

LEMMA BlockGood ==
    ASSUME NEW b \in Nat
    PROVE  LET l == [Idle EXCEPT !.pc = "multicall", !.block = b]
           IN l \in GoodJob /\ l.pc = "multicall" /\ l.block = b
  BY IdleGood DEF GoodJob, JobOK, JobState, SourcePc

LEMMA PollGood ==
    ASSUME NEW pc \in DOMAIN StoreOf
    PROVE  [Idle EXCEPT !.pc = pc] \in GoodJob /\ [Idle EXCEPT !.pc = pc].pc = pc
  BY IdleGood, MoveType DEF StoreOf, GoodJob, JobOK, JobPc, SourcePc

LEMMA SnapshotGood ==
    LET l == [Idle EXCEPT !.pc = "row", !.todo = SetToSeq(Pools)]
    IN l \in GoodJob /\ l.pc = "row" /\ ~l.found
<1>1. SetToSeq(Pools) \in Seq(Pools) /\ SetToSeq(Pools) # <<>>
  <2>1. IsFiniteSet(Pools) /\ Pools # {}
    BY SeedFinite, GraphAssumption, FS_Subset DEF GraphAssumption
  <2>2. QED
    BY <2>1, SetToSeqType
<1>2. QED
  BY <1>1, IdleGood DEF GoodJob, JobOK, JobState, RedisPc, Unhandled, Idle

LEMMA FlushGood ==
    [Idle EXCEPT !.pc = "health"] \in GoodJob /\ [Idle EXCEPT !.pc = "health"].pc = "health"
  BY IdleGood, MoveType DEF GoodJob, JobOK, JobPc, RedisPc, Unhandled

LEMMA WhaleGood ==
    ASSUME NEW p \in Pools, NEW t \in Tokens
    PROVE  \A l \in Whale(p, t) : l \in GoodJob /\ l.pc \in {"idle", "alert", "bnb", "pairMid"}
<1> DEFINE l == [Idle EXCEPT !.todo = <<p>>, !.token = t]
<1>1. l \in JobState
  <2>1. l = [Idle EXCEPT !.todo = <<p>>, !.token = t]
    OBVIOUS
  <2>2. <<p>> \in Seq(Pools) /\ Idle \in JobState
    BY IdleGood DEF GoodJob
  <2>3. QED
    BY <2>1, <2>2 DEF JobState, Tokens
<1> HIDE DEF l
<1>2. \A pc \in {"alert", "bnb", "pairMid"} :
         [l EXCEPT !.pc = pc] \in GoodJob /\ [l EXCEPT !.pc = pc].pc = pc
  BY <1>1, MoveType DEF GoodJob, JobOK, JobPc, RedisPc, Unhandled
<1>3. Whale(p, t) \subseteq {Idle, [l EXCEPT !.pc = "alert"], [l EXCEPT !.pc = "bnb"],
                             [l EXCEPT !.pc = "pairMid"]}
  BY DEF Whale, l
<1>4. QED
  BY <1>2, <1>3, IdleGood

LEMMA TickGood ==
    ASSUME NEW p \in Pools, NEW t \in Tokens, NEW r \in Regime, NEW s \in Regime
    PROVE  /\ Tick(p, t, r, s) \in GoodJob
           /\ Tick(p, t, r, s).pc = "pair" /\ Tick(p, t, r, s).todo = <<p>>
           /\ Tick(p, t, r, s).regime = r /\ Tick(p, t, r, s).prev = s
<1>1. PICK l : l = Tick(p, t, r, s)
  OBVIOUS
<1>2. l = [pc |-> "pair", block |-> 0, data |-> 0, todo |-> <<p>>, token |-> t,
           found |-> FALSE, regime |-> r, prev |-> s, source |-> None]
  BY <1>1, Zenon DEF Idle, Tick
<1>3. <<p>> \in Seq(Pools) /\ <<p>> # <<>>
  OBVIOUS
<1>4. "pair" \in RedisPc
  BY DEF RedisPc, Unhandled
<1>5. l \in JobState
  BY <1>2, <1>3, <1>4, Zenon DEF JobState, Tokens
<1>6. l \in GoodJob
  BY <1>2, <1>3, <1>5 DEF GoodJob, JobOK
<1>7. l.pc = "pair" /\ l.todo = <<p>> /\ l.regime = r /\ l.prev = s
  BY <1>2
<1>8. QED
  BY <1>1, <1>6, <1>7

LEMMA VerdictType ==
    ASSUME RegimeTypeOK, NEW k \in Pairs, NEW r \in Verdicts(k)
    PROVE  /\ r \in Regime
           /\ r = "unknown" <=> series[k] + 1 < WARMUP
<1>1. CASE series[k] + 1 < WARMUP
  BY <1>1 DEF Verdicts, Regime
<1>2. CASE ~(series[k] + 1 < WARMUP)
  <2>1. PICK s \in Signals : r = Verdict(s, lastRegime[k])
    BY <1>2 DEF Verdicts
  <2>2. lastRegime[k] \in Regime
    BY DEF RegimeTypeOK
  <2>3. QED
    BY <1>2, <2>1, <2>2 DEF Verdict, Regime
<1>3. QED
  BY <1>1, <1>2

-----------------------------------------------------------------------------
(* The wire.                                                               *)
Sent(w, j) == \E i \in 1 .. Len(w) : w[i] = j
Once(w) == \A i, n \in 1 .. Len(w) : w[i] = w[n] /\ w[i] # Quit => i = n

LEMMA TailOfWire ==
    ASSUME NEW w \in Seq(Jobs \cup {Quit}), w # <<>>, Once(w)
    PROVE  /\ Tail(w) \in Seq(Jobs \cup {Quit}) /\ Once(Tail(w))
           /\ Head(w) \in Jobs \cup {Quit}
           /\ Head(w) \in Jobs => ~Sent(Tail(w), Head(w)) /\ Sent(w, Head(w))
           /\ \A j \in Jobs : j # Head(w) => (Sent(Tail(w), j) <=> Sent(w, j))
           /\ \A a, b \in Jobs : a # Head(w) => (InFront(Tail(w), a, b) <=> InFront(w, a, b))
           /\ \A a \in Jobs : Head(w) # Quit => ~InFront(w, a, Head(w))
           /\ \A b \in Jobs : b # Head(w) /\ Sent(w, b) => InFront(w, Head(w), b)
<1>1. PICK n \in Nat : Len(w) = n + 1
  BY EmptySeq
<1>2. /\ Tail(w) \in Seq(Jobs \cup {Quit}) /\ Len(Tail(w)) = n
      /\ \A i \in 1 .. n : Tail(w)[i] = w[i + 1]
      /\ Head(w) = w[1] /\ Head(w) \in Jobs \cup {Quit}
  BY <1>1
<1>3. Once(Tail(w))
  BY <1>1, <1>2 DEF Once
<1>4. ASSUME Head(w) \in Jobs PROVE ~Sent(Tail(w), Head(w)) /\ Sent(w, Head(w))
  BY <1>1, <1>2, <1>4, PcFacts DEF Once, Sent
<1>5. ASSUME NEW j \in Jobs, j # Head(w) PROVE Sent(Tail(w), j) <=> Sent(w, j)
  <2>1. ASSUME NEW i \in 1 .. n + 1, w[i] = j PROVE Sent(Tail(w), j)
    <3>1. i - 1 \in 1 .. n /\ (i - 1) + 1 = i
      BY <1>2, <1>5, <2>1
    <3>2. Tail(w)[i - 1] = j
      BY <1>2, <2>1, <3>1
    <3>3. QED
      BY <1>2, <3>1, <3>2 DEF Sent
  <2>2. ASSUME NEW i \in 1 .. n, Tail(w)[i] = j PROVE Sent(w, j)
    BY <1>1, <1>2, <2>2 DEF Sent
  <2>3. QED
    BY <1>1, <1>2, <2>1, <2>2 DEF Sent
<1>6. ASSUME NEW a \in Jobs, NEW b \in Jobs, a # Head(w)
      PROVE  InFront(Tail(w), a, b) <=> InFront(w, a, b)
  <2>1. ASSUME NEW i \in 1 .. n + 1, NEW m \in 1 .. n + 1, i < m, w[i] = a, w[m] = b
        PROVE  InFront(Tail(w), a, b)
    <3>1. i - 1 \in 1 .. n /\ (i - 1) + 1 = i /\ m - 1 \in 1 .. n /\ (m - 1) + 1 = m /\ i - 1 < m - 1
      BY <1>2, <1>6, <2>1
    <3>2. Tail(w)[i - 1] = a /\ Tail(w)[m - 1] = b
      BY <1>2, <2>1, <3>1
    <3>3. QED
      BY <1>2, <3>1, <3>2 DEF InFront
  <2>2. ASSUME NEW i \in 1 .. n, NEW m \in 1 .. n, i < m, Tail(w)[i] = a, Tail(w)[m] = b
        PROVE  InFront(w, a, b)
    BY <1>1, <1>2, <2>2 DEF InFront
  <2>3. QED
    BY <1>1, <1>2, <2>1, <2>2 DEF InFront
<1>7. ASSUME NEW a \in Jobs, Head(w) # Quit PROVE ~InFront(w, a, Head(w))
  BY <1>1, <1>2, <1>7 DEF InFront, Once
<1>8. ASSUME NEW b \in Jobs, b # Head(w), Sent(w, b) PROVE InFront(w, Head(w), b)
  <2>1. PICK i \in 1 .. n + 1 : w[i] = b
    BY <1>1, <1>8 DEF Sent
  <2>2. 1 \in 1 .. n + 1 /\ 1 < i
    BY <1>2, <1>8, <2>1
  <2>3. QED
    BY <1>1, <1>2, <2>1, <2>2 DEF InFront
<1>9. QED
  BY <1>2, <1>3, <1>4, <1>5, <1>6, <1>7, <1>8

LEMMA AppendWire ==
    ASSUME NEW w \in Seq(Jobs \cup {Quit}), Once(w),
           NEW c \in Jobs \cup {Quit}, c \in Jobs => ~Sent(w, c)
    PROVE  /\ Append(w, c) \in Seq(Jobs \cup {Quit}) /\ Once(Append(w, c))
           /\ Sent(Append(w, c), c)
           /\ \A j \in Jobs : j # c => (Sent(Append(w, c), j) <=> Sent(w, j))
           /\ \A a, b \in Jobs : b # c => (InFront(Append(w, c), a, b) <=> InFront(w, a, b))
           /\ \A a \in Jobs : a # c => (InFront(Append(w, c), a, c) <=> Sent(w, a))
           /\ \A b \in Jobs : c \in Jobs => ~InFront(Append(w, c), c, b)
<1>1. PICK n \in Nat : Len(w) = n
  BY LenProperties
<1>2. PICK v : v = Append(w, c)
  OBVIOUS
<1>3. /\ v \in Seq(Jobs \cup {Quit}) /\ Len(v) = n + 1 /\ v[n + 1] = c
      /\ \A i \in 1 .. n : v[i] = w[i]
      /\ \A i \in 1 .. n + 1 : i \in 1 .. n \/ i = n + 1
      /\ \A i \in 1 .. n : i \in 1 .. n + 1 /\ i < n + 1 /\ i # n + 1
      /\ n + 1 \in 1 .. n + 1
  BY <1>1, <1>2
<1>4. Once(v)
  BY <1>1, <1>3, PcFacts DEF Once, Sent
<1>5. /\ Sent(v, c)
      /\ \A j \in Jobs : j # c => (Sent(v, j) <=> Sent(w, j))
  BY <1>1, <1>3 DEF Sent
<1>6. \A a, b \in Jobs : b # c => (InFront(v, a, b) <=> InFront(w, a, b))
  BY <1>1, <1>3 DEF InFront
<1>7. \A a \in Jobs : a # c => (InFront(v, a, c) <=> Sent(w, a))
  <2>1. ASSUME NEW a \in Jobs, a # c, InFront(v, a, c) PROVE Sent(w, a)
    BY <1>1, <1>3, <2>1 DEF InFront, Sent
  <2>2. ASSUME NEW a \in Jobs, Sent(w, a) PROVE InFront(v, a, c)
    BY <1>1, <1>3, <2>2 DEF InFront, Sent
  <2>3. QED
    BY <2>1, <2>2
<1>8. \A b \in Jobs : c \in Jobs => ~InFront(v, c, b)
  BY <1>1, <1>3 DEF InFront, Sent
<1>9. QED
  BY <1>2, <1>3, <1>4, <1>5, <1>6, <1>7, <1>8

(* The part of the types that is about the jobs and their commands, and    *)
(* the rest of it.                                                         *)
WireOK == /\ job \in [Jobs -> JobState]
          /\ wire \in Seq(Jobs \cup {Quit})
          /\ \A j \in Jobs : job[j].pc \in RedisPc <=> Sent(wire, j)
          /\ Once(wire)

EnvOK == /\ config \in Configs /\ head \in 1 .. MaxBlocks /\ paper \in 0 .. MaxPaper
         /\ phase \in {"down", "boot", "up", "stopping"}
         /\ cause \in {None, "redis", "database", "stop"}
         /\ boots \in 0 .. MaxBoots /\ seen \in 0 .. MaxBlocks
         /\ left \in [{"event", "block", "timer"} -> Nat]
         /\ recorded \in BOOLEAN

LEMMA TypeParts ==
    /\ IngestionTypeOK <=> GraphTypeOK /\ RegimeTypeOK /\ EnvOK /\ WireOK
    /\ IngestionTypeOK' <=> GraphTypeOK' /\ RegimeTypeOK' /\ EnvOK' /\ WireOK'
<1>1. IngestionTypeOK <=> GraphTypeOK /\ RegimeTypeOK /\ EnvOK /\ WireOK
  BY Zenon DEF IngestionTypeOK, WireOK, EnvOK, Sent, Once
<1>2. IngestionTypeOK' <=> GraphTypeOK' /\ RegimeTypeOK' /\ EnvOK' /\ WireOK'
  BY Zenon DEF IngestionTypeOK, WireOK, EnvOK, Sent, Once
<1>3. QED
  BY <1>1, <1>2

(* Job j goes on with l: it starts, its source answers, or Redis does.     *)
Enters(j, l) == \/ job[j].pc \notin RedisPc /\ Enter(j, l, wire)
                \/ Answered(j) /\ Enter(j, l, Tail(wire))

LEMMA EntersWire ==
    ASSUME WireOK, NEW j \in Jobs, NEW l \in JobState, Enters(j, l)
    PROVE  /\ WireOK' /\ job'[j] = l
           /\ \A d \in Jobs : d # j => job'[d] = job[d]
           /\ \A a, b \in Jobs : a # j /\ b # j => (InFront(wire', a, b) <=> InFront(wire, a, b))
           /\ l.pc \in RedisPc =>
                 \A a \in Jobs : /\ a # j /\ job[a].pc \in RedisPc => InFront(wire', a, j)
                                 /\ ~InFront(wire', j, a)
<1>1. PICK w \in Seq(Jobs \cup {Quit}) :
         /\ Enter(j, l, w) /\ Once(w) /\ ~Sent(w, j)
         /\ \A d \in Jobs : d # j => (Sent(w, d) <=> job[d].pc \in RedisPc)
         /\ \A a, b \in Jobs : a # j => (InFront(w, a, b) <=> InFront(wire, a, b))
  <2>1. CASE job[j].pc \notin RedisPc /\ Enter(j, l, wire)
    BY <2>1 DEF WireOK
  <2>2. CASE Answered(j) /\ Enter(j, l, Tail(wire))
    <3>1. wire # <<>> /\ Head(wire) = j
      BY <2>2 DEF Answered
    <3>2. QED
      BY <2>2, <3>1, TailOfWire DEF WireOK
  <2>3. QED
    BY <2>1, <2>2 DEF Enters
<1>2. /\ job' = [job EXCEPT ![j] = l]
      /\ wire' = IF l.pc \in RedisPc THEN Append(w, j) ELSE w
  BY <1>1 DEF Enter
<1>3. /\ job' \in [Jobs -> JobState] /\ job'[j] = l
      /\ \A d \in Jobs : d # j => job'[d] = job[d]
  BY <1>2 DEF WireOK
<1>4. CASE l.pc \in RedisPc
  <2>1. wire' = Append(w, j)
    BY <1>2, <1>4
  <2>2. /\ wire' \in Seq(Jobs \cup {Quit}) /\ Once(wire') /\ Sent(wire', j)
        /\ \A d \in Jobs : d # j => (Sent(wire', d) <=> Sent(w, d))
        /\ \A a, b \in Jobs : b # j => (InFront(wire', a, b) <=> InFront(w, a, b))
        /\ \A a \in Jobs : a # j => (InFront(wire', a, j) <=> Sent(w, a))
        /\ \A b \in Jobs : ~InFront(wire', j, b)
    BY <1>1, <2>1, AppendWire
  <2>3. \A d \in Jobs : job'[d].pc \in RedisPc <=> Sent(wire', d)
    BY <1>1, <1>3, <1>4, <2>2
  <2>4. Once(wire)'
    BY <2>2 DEF Once
  <2>5. WireOK'
    BY <1>3, <2>2, <2>3, <2>4 DEF WireOK, Sent
  <2>6. QED
    BY <1>1, <1>3, <2>2, <2>5
<1>5. CASE l.pc \notin RedisPc
  <2>1. wire' = w
    BY <1>2, <1>5
  <2>2. \A d \in Jobs : job'[d].pc \in RedisPc <=> Sent(wire', d)
    BY <1>1, <1>3, <1>5, <2>1
  <2>3. Once(wire)'
    BY <1>1, <2>1 DEF Once
  <2>4. WireOK'
    BY <1>1, <1>3, <2>1, <2>2, <2>3 DEF WireOK, Sent
  <2>5. QED
    BY <1>1, <1>3, <1>5, <2>1, <2>4
<1>6. QED
  BY <1>4, <1>5

-----------------------------------------------------------------------------
(* What the steps of a job come down to.                                   *)
LEMMA StageFacts == TickPc = {"pair", "tick", "change"} /\ TickPc \subseteq RedisPc
  BY DEF TickPc, Stage, RedisPc, Unhandled

(* A price is taken: its verdict is remembered and its tick is job l.      *)
TakesPrice(k, l) == /\ pushPrice(k) /\ Remember(k, l.regime)
                    /\ l.pc = "pair" /\ pairKey(Head(l.todo)) = k
                    /\ l.regime \in Verdicts(k) /\ l.prev = lastRegime[k]

Begun(j, l) ==
    /\ \E class \in {"event", "block", "timer"} : Fire(j, class, l)
    /\ UNCHANGED graphVars /\ seen' \in 0 .. MaxBlocks
    /\ l.pc # "pool" /\ (l.pc = "multicall" => l.block <= head)
    /\ l.pc \in {"row", "insert"} => config.db /\ ~l.found /\ l.pc = "row"
    /\ \/ l.pc \notin TickPc /\ UNCHANGED regimeVars
       \/ \E k \in Pairs : TakesPrice(k, l)

LEMMA PriceTickShape ==
    ASSUME ServiceInv, NEW j \in Jobs, NEW p \in Pools, NEW t \in Tokens, PriceTick(j, p, t)
    PROVE  \E l \in GoodJob, k \in Pairs : Fire(j, "event", l) /\ TakesPrice(k, l)
<1> DEFINE k == pairKey(p)
<1>1. k \in Pairs
  BY PoolFacts
<1>2. PICK r \in Verdicts(k) : /\ pushPrice(k) /\ Remember(k, r)
                               /\ Fire(j, "event", Tick(p, t, r, lastRegime[k]))
  BY DEF PriceTick
<1>3. RegimeTypeOK
  BY TypeParts DEF ServiceInv
<1>4. r \in Regime /\ lastRegime[k] \in Regime
  BY <1>1, <1>2, <1>3, VerdictType DEF RegimeTypeOK
<1>5. PICK l \in GoodJob : /\ l = Tick(p, t, r, lastRegime[k])
                           /\ l.pc = "pair" /\ l.todo = <<p>>
                           /\ l.regime = r /\ l.prev = lastRegime[k]
  BY <1>4, TickGood
<1>6. Head(l.todo) = p
  BY <1>5
<1>7. Fire(j, "event", l)
  BY <1>2, <1>5
<1>8. TakesPrice(k, l)
  BY <1>2, <1>5, <1>6 DEF TakesPrice
<1>9. QED
  BY <1>1, <1>5, <1>7, <1>8

LEMMA BeginsShape ==
    ASSUME ServiceInv, NEW j \in Jobs, Begins(j)
    PROVE  \E l \in GoodJob : Begun(j, l)
<1>1. EnvOK
  BY TypeParts DEF ServiceInv
<1>2. /\ seen \in 0 .. MaxBlocks /\ config \in Configs
      /\ head \in Nat /\ MaxBlocks \in Nat /\ head <= MaxBlocks
  BY <1>1, IngestionAssumption DEF EnvOK, IngestionAssumption
<1>3. ASSUME NEW l \in GoodJob, Due(j, l), l.pc \notin TickPc \cup {"pool", "multicall"},
             l.pc \in {"row", "insert"} => config.db /\ ~l.found /\ l.pc = "row"
      PROVE  Begun(j, l)
  BY <1>2, <1>3 DEF Due, Begun
<1>4. ASSUME NEW l \in GoodJob, NEW p \in Pools, NEW t \in Tokens, l \in Whale(p, t),
             Fire(j, "event", l), UNCHANGED <<graphVars, regimeVars, seen>>
      PROVE  Begun(j, l)
  <2>1. l.pc \in {"idle", "alert", "bnb", "pairMid"}
    BY <1>4, WhaleGood
  <2>2. QED
    BY <1>2, <1>4, <2>1, StageFacts DEF Begun
<1>5. ASSUME NEW p \in Pools, NEW t \in Tokens, PriceTick(j, p, t),
             UNCHANGED <<graphVars, seen>>
      PROVE  \E l \in GoodJob : Begun(j, l)
  <2>1. PICK l \in GoodJob, k \in Pairs : Fire(j, "event", l) /\ TakesPrice(k, l)
    BY <1>5, PriceTickShape
  <2>2. l.pc = "pair"
    BY <2>1 DEF TakesPrice
  <2>3. Begun(j, l)
    BY <1>2, <1>5, <2>1, <2>2 DEF Begun
  <2>4. QED
    BY <2>3
<1>6. CASE CatalogDue(j)
  <2>1. RefreshCatalog \in GoodJob /\ RefreshCatalog.pc \in {"subgraph", "entries"}
    BY <1>2, CatalogGood
  <2>2. Begun(j, RefreshCatalog)
    BY <1>3, <1>6, <2>1, StageFacts DEF CatalogDue
  <2>3. QED
    BY <2>1, <2>2
<1>7. CASE BlockSeen(j)
  <2>1. PICK b \in Heights :
           /\ seen' = b
           /\ Fire(j, "block", [Idle EXCEPT !.pc = "multicall", !.block = b])
    BY <1>7 DEF BlockSeen
  <2>2. PICK l : l = [Idle EXCEPT !.pc = "multicall", !.block = b]
    OBVIOUS
  <2>3. b \in Nat /\ b <= head /\ b \in 0 .. MaxBlocks
    BY <1>2 DEF Heights
  <2>4. l \in GoodJob /\ l.pc = "multicall" /\ l.block = b
    BY <2>2, <2>3, BlockGood
  <2>5. Fire(j, "block", l) /\ UNCHANGED <<graphVars, regimeVars>>
    BY <1>7, <2>1, <2>2 DEF BlockSeen
  <2>6. Begun(j, l)
    BY <2>1, <2>3, <2>4, <2>5, StageFacts DEF Begun
  <2>7. QED
    BY <2>4, <2>6
<1>8. CASE SyncSeen(j)
  <2>1. PICK p \in Pools : PriceTick(j, p, None)
    BY <1>8 DEF SyncSeen
  <2>2. QED
    BY <1>5, <1>8, <2>1 DEF SyncSeen, Tokens
<1>9. CASE SwapV2Seen(j) \/ SwapV3Seen(j)
  <2>1. ASSUME NEW p \in Pools, NEW t \in TokensOf(p),
               \/ PriceTick(j, p, t) /\ UNCHANGED <<graphVars, seen>>
               \/ \E l \in Whale(p, t) :
                     Fire(j, "event", l) /\ UNCHANGED <<graphVars, regimeVars, seen>>
        PROVE  \E l \in GoodJob : Begun(j, l)
    <3>1. t \in Tokens
      BY <2>1, PoolFacts DEF Tokens
    <3>2. QED
      BY <1>4, <1>5, <2>1, <3>1, WhaleGood
  <2>2. CASE SwapV2Seen(j)
    <3>1. PICK p \in Pools : \E t \in TokensOf(p) : \E l \in Whale(p, t) : Fire(j, "event", l)
      BY <2>2 DEF SwapV2Seen
    <3>2. UNCHANGED <<graphVars, regimeVars, seen>>
      BY <2>2 DEF SwapV2Seen
    <3>3. QED
      BY <2>1, <3>1, <3>2
  <2>3. CASE SwapV3Seen(j)
    <3>1. PICK p \in Pools : \E t \in TokensOf(p) :
             \/ PriceTick(j, p, t)
             \/ (\E l \in Whale(p, t) : Fire(j, "event", l)) /\ UNCHANGED regimeVars
      BY <2>3, Zenon DEF SwapV3Seen
    <3>2. UNCHANGED graphVars /\ UNCHANGED seen
      BY <2>3, Zenon DEF SwapV3Seen
    <3>3. QED
      BY <2>1, <3>1, <3>2
  <2>4. QED
    BY <1>9, <2>2, <2>3
<1>10. CASE PollDue(j)
  <2>1. PICK pc \in DOMAIN StoreOf : Due(j, [Idle EXCEPT !.pc = pc])
    BY <1>10 DEF PollDue
  <2>2. PICK l : l = [Idle EXCEPT !.pc = pc]
    OBVIOUS
  <2>3. l \in GoodJob /\ l.pc \in {"gasPrice", "round", "ticker"}
    BY <2>2, PollGood DEF StoreOf
  <2>4. Due(j, l)
    BY <2>1, <2>2
  <2>5. Begun(j, l)
    BY <1>3, <2>3, <2>4, StageFacts
  <2>6. QED
    BY <2>3, <2>5
<1>11. CASE SnapshotDue(j)
  <2>1. PICK l : l = [Idle EXCEPT !.pc = "row", !.todo = SetToSeq(Pools)]
    OBVIOUS
  <2>2. l \in GoodJob /\ l.pc = "row" /\ ~l.found
    BY <2>1, SnapshotGood
  <2>3. Due(j, l) /\ config.db
    BY <1>11, <2>1 DEF SnapshotDue
  <2>4. Begun(j, l)
    BY <1>3, <2>2, <2>3, StageFacts
  <2>5. QED
    BY <2>2, <2>4
<1>12. CASE FlushDue(j)
  <2>1. PICK l : l = [Idle EXCEPT !.pc = "health"]
    OBVIOUS
  <2>2. l \in GoodJob /\ l.pc = "health"
    BY <2>1, FlushGood
  <2>3. Due(j, l)
    BY <1>12, <2>1 DEF FlushDue
  <2>4. Begun(j, l)
    BY <1>3, <2>2, <2>3, StageFacts
  <2>5. QED
    BY <2>2, <2>4
<1>13. QED
  BY <1>6, <1>7, <1>8, <1>9, <1>10, <1>11, <1>12 DEF Begins

(* A source has answered, or failed, or the rows are in the database.      *)
Resumed(j, l) ==
    /\ job[j].pc \in SourcePc \cup {"insert"} /\ Resume(j, l)
    /\ UNCHANGED <<graphVars, regimeVars>> /\ recorded' \in BOOLEAN
    /\ l.pc \notin TickPc \cup {"multicall", "row", "insert"}
    /\ l.pc = "pool" => job[j].pc = "multicall" /\ l.block = job[j].block /\ l.data \in Heights

LEMMA JobType ==
    ASSUME ServiceInv, NEW j \in Jobs
    PROVE  job[j] \in JobState /\ job[j] \in GoodJob /\ JobOK(job[j])
  BY TypeParts DEF ServiceInv, WireOK, JobInv, GoodJob

LEMMA ToType ==
    ASSUME ServiceInv, NEW j \in Jobs, NEW pc \in JobPc
    PROVE  /\ To(j, pc) \in JobState /\ To(j, pc).pc = pc
           /\ To(j, pc).todo = job[j].todo /\ To(j, pc).source = job[j].source
           /\ To(j, pc).regime = job[j].regime /\ To(j, pc).prev = job[j].prev
<1>1. job[j] \in JobState
  BY JobType
<1>2. QED
  BY <1>1 DEF To, JobState, JobPc

LEMMA PcTypes ==
    /\ SourcePc \subseteq JobPc /\ RedisPc \subseteq JobPc /\ {"idle", "insert"} \subseteq JobPc
    /\ SourcePc \cap TickPc = {} /\ {"idle", "insert"} \cap TickPc = {}
  BY StageFacts DEF JobPc, SourcePc

LEMMA MulticallGood ==
    ASSUME ServiceInv, NEW j \in Jobs, NEW d \in Nat, NEW S \in SUBSET Pools
    PROVE  \E l \in GoodJob :
              /\ l = NextPool([job[j] EXCEPT !.data = d, !.todo = SetToSeq(S)])
              /\ l.pc \in {"idle", "pool"}
              /\ l.pc = "pool" => l.block = job[j].block /\ l.data = d
<1>1. PICK m : m = [job[j] EXCEPT !.data = d, !.todo = SetToSeq(S)]
  OBVIOUS
<1>2. job[j] \in JobState /\ SetToSeq(S) \in Seq(Pools)
  BY JobType, PoolsSeq
<1>3. m \in JobState /\ m.block = job[j].block /\ m.data = d
  BY <1>1, <1>2 DEF JobState
<1>4. PICK n : n = [m EXCEPT !.pc = "pool"]
  OBVIOUS
<1>5. /\ n \in JobState /\ n.pc = "pool" /\ n.todo = m.todo
      /\ n.block = job[j].block /\ n.data = d
  BY <1>3, <1>4 DEF JobState, RedisPc, Handled
<1>6. NextPool(m) = IF m.todo = <<>> THEN Idle ELSE n
  BY <1>4 DEF NextPool
<1>7. m.todo # <<>> => n \in GoodJob
  BY <1>5 DEF GoodJob, JobOK
<1>8. QED
  BY <1>1, <1>5, <1>6, <1>7, IdleGood

LEMMA ResumesShape ==
    ASSUME ServiceInv, NEW j \in Jobs, Resumes(j)
    PROVE  (\E l \in GoodJob : Resumed(j, l)) \/ (job[j].pc = "insert" /\ Die("database"))
<1>1. ASSUME job[j].pc \in SourcePc \cup {"insert"}, Resume(j, Idle),
             UNCHANGED <<graphVars, regimeVars>>, recorded' \in BOOLEAN
      PROVE  \E l \in GoodJob : Resumed(j, l)
  <2>1. Resumed(j, Idle)
    BY <1>1, IdleGood, PcTypes DEF Resumed
  <2>2. QED
    BY <2>1, IdleGood
<1>2. recorded \in BOOLEAN
  BY TypeParts DEF ServiceInv, EnvOK
<1>3. CASE SubgraphAnswered(j)
  <2>1. PICK s \in CatalogSource : Resume(j, [To(j, "entries") EXCEPT !.source = s])
    BY <1>3 DEF SubgraphAnswered
  <2>2. PICK l : l = [To(j, "entries") EXCEPT !.source = s]
    OBVIOUS
  <2>3. To(j, "entries") \in JobState /\ To(j, "entries").pc = "entries"
    BY ToType, PcTypes DEF RedisPc, Handled
  <2>4. l \in JobState /\ l.pc = "entries" /\ l.source = s
    BY <2>2, <2>3 DEF JobState
  <2>5. l \in GoodJob
    BY <2>4 DEF GoodJob, JobOK
  <2>6. Resume(j, l)
    BY <2>1, <2>2
  <2>7. Resumed(j, l)
    BY <1>3, <2>4, <2>6, StageFacts DEF SubgraphAnswered, record, Resumed, SourcePc
  <2>8. QED
    BY <2>5, <2>7
<1>4. CASE MulticallAnswered(j)
  <2>1. PICK d \in Heights, S \in SUBSET Pools :
           Resume(j, NextPool([job[j] EXCEPT !.data = d, !.todo = SetToSeq(S)]))
    BY <1>4 DEF MulticallAnswered
  <2>2. d \in Nat
    BY DEF Heights
  <2>3. PICK l \in GoodJob :
           /\ l = NextPool([job[j] EXCEPT !.data = d, !.todo = SetToSeq(S)])
           /\ l.pc \in {"idle", "pool"}
           /\ l.pc = "pool" => l.block = job[j].block /\ l.data = d
    BY <2>2, MulticallGood
  <2>4. Resume(j, l)
    BY <2>1, <2>3
  <2>5. Resumed(j, l)
    BY <1>4, <2>3, <2>4, StageFacts DEF MulticallAnswered, record, Resumed, SourcePc
  <2>6. QED
    BY <2>5
<1>5. CASE MulticallFailed(j)
  BY <1>1, <1>2, <1>5 DEF MulticallFailed, SourcePc
<1>6. CASE SourceAnswered(j)
  <2>1. PICK pc : pc = StoreOf[job[j].pc]
    OBVIOUS
  <2>2. pc \in {"gas", "price", "quotes"}
    BY <1>6, <2>1 DEF SourceAnswered, StoreOf
  <2>3. To(j, pc) \in JobState /\ To(j, pc).pc = pc
    BY <2>2, ToType, PcTypes DEF RedisPc, Handled
  <2>4. To(j, pc) \in GoodJob
    BY <2>2, <2>3 DEF GoodJob, JobOK
  <2>5. Resume(j, To(j, pc))
    BY <1>6, <2>1 DEF SourceAnswered
  <2>6. Resumed(j, To(j, pc))
    BY <1>6, <2>2, <2>3, <2>5, StageFacts DEF SourceAnswered, record, Resumed, SourcePc, StoreOf
  <2>7. QED
    BY <2>4, <2>6
<1>7. CASE SourceFailed(j)
  BY <1>1, <1>7 DEF SourceFailed, record, SourcePc, StoreOf
<1>8. CASE RowsInserted(j)
  BY <1>1, <1>2, <1>8 DEF RowsInserted
<1>9. CASE InsertFailed(j)
  BY <1>9 DEF InsertFailed
<1>10. QED
  BY <1>3, <1>4, <1>5, <1>6, <1>7, <1>8, <1>9 DEF Resumes

(* Redis has answered job j: what it wrote, and how the job goes on.       *)
PoolStep(j) == \/ UNCHANGED pools
               \/ /\ job[j].pc = "pool"
                  /\ writePool(Head(job[j].todo), job[j].block, job[j].data)

TickStep(j, l) ==
    \/ /\ job[j].pc \notin TickPc /\ l.pc \notin TickPc /\ UNCHANGED <<pairs, changes>>
    \/ /\ job[j].pc = "pair" /\ l = To(j, "tick")
       /\ writePair(KeyOf(j), job[j].regime) /\ UNCHANGED changes
    \/ /\ job[j].pc = "tick" /\ Changed(job[j]) /\ l = To(j, "change")
       /\ UNCHANGED <<pairs, changes>>
    \/ /\ job[j].pc = "tick" /\ ~Changed(job[j]) /\ l.pc \notin TickPc
       /\ UNCHANGED <<pairs, changes>>
    \/ /\ job[j].pc = "change" /\ l.pc \notin TickPc /\ UNCHANGED pairs
       /\ changes' = Append(changes, [pair |-> KeyOf(j), from |-> job[j].prev,
                                      to |-> job[j].regime, run |-> boots])

Replied(j, l) ==
    /\ Reply(j, l) /\ UNCHANGED <<cause, boots, seen, left, regimeVars>>
    /\ phase' \in {phase, "up"}
    /\ l.pc # "multicall"
    /\ l.pc = "pool" => /\ job[j].pc = "pool"
                        /\ l.block = job[j].block /\ l.data = job[j].data
    /\ l.pc \in {"row", "insert"} => /\ job[j].pc = "row"
                                     /\ l.found => job[j].found \/ DOMAIN pools # {}
                                     /\ l.pc = "insert" => l.found
    /\ PoolStep(j) /\ TickStep(j, l)
    /\ bnbUsd' \in BOOLEAN /\ catalog' \in CatalogSource \cup {Absent}

LEMMA ToGood ==
    ASSUME ServiceInv, NEW j \in Jobs, NEW pc \in RedisPc \ {"pool", "row", "entries"},
           pc \in TickPc => job[j].todo # <<>>
    PROVE  /\ To(j, pc) \in GoodJob /\ To(j, pc).pc = pc
           /\ [To(j, pc) EXCEPT !.found = TRUE] \in GoodJob
           /\ [To(j, pc) EXCEPT !.found = TRUE].pc = pc
           /\ [To(j, pc) EXCEPT !.found = FALSE] \in GoodJob
           /\ [To(j, pc) EXCEPT !.found = FALSE].pc = pc
<1>1. To(j, pc) \in JobState /\ To(j, pc).pc = pc /\ To(j, pc).todo = job[j].todo
  BY ToType, PcTypes
<1>2. ASSUME NEW f \in BOOLEAN
      PROVE  /\ [To(j, pc) EXCEPT !.found = f] \in JobState
             /\ [To(j, pc) EXCEPT !.found = f].pc = pc
             /\ [To(j, pc) EXCEPT !.found = f].todo = job[j].todo
  BY <1>1 DEF JobState
<1>3. \A l \in JobState : l.pc = pc /\ l.todo = job[j].todo => l \in GoodJob
  BY StageFacts DEF GoodJob, JobOK
<1>4. QED
  BY <1>1, <1>2, <1>3

LEMMA PoolWrittenGood ==
    ASSUME ServiceInv, NEW j \in Jobs, job[j].pc = "pool"
    PROVE  \E l \in GoodJob :
              /\ l = NextPool([job[j] EXCEPT !.todo = Tail(@)])
              /\ l.pc \in {"idle", "pool"}
              /\ l.pc = "pool" => l.block = job[j].block /\ l.data = job[j].data
<1>1. PICK m : m = [job[j] EXCEPT !.todo = Tail(@)]
  OBVIOUS
<1>2. job[j] \in JobState /\ job[j].todo # <<>> /\ job[j].todo \in Seq(Pools)
  BY JobType DEF JobOK, JobState
<1>3. Tail(job[j].todo) \in Seq(Pools)
  BY <1>2
<1>4. m \in JobState /\ m.block = job[j].block /\ m.data = job[j].data
  BY <1>1, <1>2, <1>3 DEF JobState
<1>5. PICK n : n = [m EXCEPT !.pc = "pool"]
  OBVIOUS
<1>6. /\ n \in JobState /\ n.pc = "pool" /\ n.todo = m.todo
      /\ n.block = job[j].block /\ n.data = job[j].data
  BY <1>4, <1>5 DEF JobState, RedisPc, Handled
<1>7. NextPool(m) = IF m.todo = <<>> THEN Idle ELSE n
  BY <1>5 DEF NextPool
<1>8. m.todo # <<>> => n \in GoodJob
  BY <1>6 DEF GoodJob, JobOK
<1>9. QED
  BY <1>1, <1>6, <1>7, <1>8, IdleGood

LEMMA RowGood ==
    ASSUME ServiceInv, NEW j \in Jobs, RowRead(j)
    PROVE  \E l \in GoodJob :
              /\ Reply(j, l) /\ l.pc \in {"idle", "insert", "row"}
              /\ l.found => job[j].found \/ DOMAIN pools # {}
              /\ l.pc = "insert" => l.found
<1>1. job[j] \in JobState /\ job[j].todo # <<>> /\ job[j].todo \in Seq(Pools)
      /\ job[j].pc = "row"
  BY JobType DEF JobOK, JobState, RowRead
<1>2. PICK f \in BOOLEAN : f = (job[j].found \/ Head(job[j].todo) \in DOMAIN pools)
  OBVIOUS
<1>3. PICK l : l = [job[j] EXCEPT !.todo = Tail(@), !.found = f]
  OBVIOUS
<1>4. Reply(j, IF l.todo # <<>> THEN l
               ELSE IF l.found THEN [l EXCEPT !.pc = "insert"] ELSE Idle)
  BY <1>2, <1>3, Zenon DEF RowRead
<1>5. Tail(job[j].todo) \in Seq(Pools)
  BY <1>1
<1>6. l \in JobState /\ l.pc = "row" /\ l.found = f
  BY <1>1, <1>3, <1>5 DEF JobState
<1>7. l.todo # <<>> => l \in GoodJob
  BY <1>6 DEF GoodJob, JobOK
<1>8. /\ [l EXCEPT !.pc = "insert"] \in GoodJob /\ [l EXCEPT !.pc = "insert"].pc = "insert"
      /\ [l EXCEPT !.pc = "insert"].found = f
  <2>1. "insert" \in JobPc
    BY DEF JobPc
  <2>2. PICK m : m = [l EXCEPT !.pc = "insert"]
    OBVIOUS
  <2>3. m \in JobState /\ m.pc = "insert" /\ m.found = f
    BY <1>6, <2>1, <2>2, MoveType DEF JobState
  <2>4. m \in GoodJob
    BY <2>3 DEF GoodJob, JobOK
  <2>5. QED
    BY <2>2, <2>3, <2>4
<1>9. f => job[j].found \/ DOMAIN pools # {}
  BY <1>2
<1>10. ~Idle.found
  BY DEF Idle
<1>11. QED
  BY <1>4, <1>6, <1>7, <1>8, <1>9, <1>10, IdleGood

LEMMA AnswersShape ==
    ASSUME ServiceInv, NEW j \in Jobs, Answers(j)
    PROVE  \E l \in GoodJob : Replied(j, l)
<1>1. /\ bnbUsd \in BOOLEAN /\ catalog \in CatalogSource \cup {Absent}
      /\ job[j] \in JobState /\ JobOK(job[j])
  BY TypeParts, JobType DEF ServiceInv, GraphTypeOK
<1>2. /\ TickPc = {"pair", "tick", "change"}
      /\ {"announce", "gasEvent", "mid", "divergence", "alert", "bnb", "change", "tick"}
            \subseteq RedisPc \ {"pool", "row", "entries"}
  BY StageFacts DEF RedisPc, Handled, Unhandled, Events
(* Most answers neither touch the graph nor are about a tick.              *)
<1>3. ASSUME NEW l \in GoodJob, Reply(j, l), job[j].pc \notin TickPc,
             l.pc \notin TickPc \cup {"multicall", "pool", "row", "insert"},
             UNCHANGED <<pools, pairs, changes, regimeVars, cause, boots, seen, left>>,
             phase' \in {phase, "up"},
             bnbUsd' \in BOOLEAN, catalog' \in CatalogSource \cup {Absent}
      PROVE  \E m \in GoodJob : Replied(j, m)
  <2>1. Replied(j, l)
    BY <1>3 DEF Replied, PoolStep, TickStep
  <2>2. QED
    BY <2>1
<1>4. ASSUME NEW l \in GoodJob, Reply(j, l), job[j].pc \notin TickPc,
             l.pc \notin TickPc \cup {"multicall", "pool", "row", "insert"},
             UNCHANGED <<graphVars, regimeVars, procVars>>
      PROVE  \E m \in GoodJob : Replied(j, m)
  BY <1>1, <1>3, <1>4 DEF graphVars, procVars
<1>5. CASE EntriesStored(j)
  <2>1. To(j, "announce") \in GoodJob /\ To(j, "announce").pc = "announce"
    BY <1>2, ToGood
  <2>2. catalog' \in CatalogSource \cup {Absent} /\ UNCHANGED <<pools, pairs, bnbUsd, changes>>
    BY <1>1, <1>5 DEF EntriesStored, JobOK
  <2>3. QED
    BY <1>1, <1>2, <1>3, <1>5, <2>1, <2>2 DEF EntriesStored, procVars
<1>6. CASE CatalogAnnounced(j)
  <2>1. UNCHANGED <<pools, pairs, changes, bnbUsd, catalog, regimeVars, cause, boots, seen, left>>
    BY <1>6 DEF CatalogAnnounced, graphVars
  <2>2. Reply(j, Idle) /\ phase' \in {phase, "up"} /\ job[j].pc = "announce"
    BY <1>6 DEF CatalogAnnounced
  <2>3. QED
    BY <1>1, <1>2, <1>3, <2>1, <2>2, IdleGood
<1>7. CASE PoolWritten(j)
  <2>1. PICK l \in GoodJob :
           /\ l = NextPool([job[j] EXCEPT !.todo = Tail(@)])
           /\ l.pc \in {"idle", "pool"}
           /\ l.pc = "pool" => l.block = job[j].block /\ l.data = job[j].data
    BY <1>7, PoolWrittenGood DEF PoolWritten
  <2>2. Reply(j, l)
    BY <1>7, <2>1, Zenon DEF PoolWritten
  <2>3. job[j].pc = "pool" /\ PoolStep(j)
    BY <1>7 DEF PoolWritten, PoolStep
  <2>4. UNCHANGED <<pairs, bnbUsd, catalog, changes, regimeVars, phase, cause, boots, seen, left>>
    BY <1>7 DEF PoolWritten, procVars
  <2>5. Replied(j, l)
    BY <1>1, <1>2, <2>1, <2>2, <2>3, <2>4 DEF Replied, TickStep
  <2>6. QED
    BY <2>5
<1>8. CASE PairWritten(j)
  <2>1. To(j, "tick") \in GoodJob /\ To(j, "tick").pc = "tick"
    BY <1>1, <1>2, <1>8, ToGood DEF PairWritten, JobOK
  <2>2. /\ job[j].pc = "pair" /\ Reply(j, To(j, "tick"))
        /\ writePair(KeyOf(j), job[j].regime)
        /\ UNCHANGED <<pools, bnbUsd, catalog, changes, regimeVars, phase, cause, boots, seen, left>>
    BY <1>8 DEF PairWritten, procVars
  <2>3. Replied(j, To(j, "tick"))
    BY <1>1, <2>1, <2>2 DEF Replied, PoolStep, TickStep
  <2>4. QED
    BY <2>1, <2>3
<1>9. ASSUME job[j].pc \in {"tick", "change"}, NEW l \in AfterTick(j)
      PROVE  l \in GoodJob /\ l.pc \in {"idle", "alert", "bnb", "pairMid"}
  <2>1. job[j].todo # <<>> /\ job[j].todo \in Seq(Pools) /\ job[j].token \in Tokens
    BY <1>1, <1>9 DEF JobOK, JobState, Tokens
  <2>2. Head(job[j].todo) \in Pools
    BY <2>1
  <2>3. QED
    BY <1>9, <2>1, <2>2, WhaleGood DEF AfterTick
<1>10. CASE TickPublished(j)
  <2>1. /\ job[j].pc = "tick"
        /\ UNCHANGED <<pools, pairs, bnbUsd, catalog, changes, regimeVars,
                       phase, cause, boots, seen, left>>
    BY <1>10 DEF TickPublished, graphVars, procVars
  <2>2. CASE Changed(job[j])
    <3>1. To(j, "change") \in GoodJob /\ To(j, "change").pc = "change"
      BY <1>1, <1>2, <2>1, ToGood DEF JobOK
    <3>2. Reply(j, To(j, "change"))
      BY <1>10, <2>2 DEF TickPublished
    <3>3. Replied(j, To(j, "change"))
      BY <1>1, <2>1, <2>2, <3>1, <3>2 DEF Replied, PoolStep, TickStep
    <3>4. QED
      BY <3>1, <3>3
  <2>3. CASE ~Changed(job[j])
    <3>1. PICK l \in AfterTick(j) : Reply(j, l)
      BY <1>10, <2>3 DEF TickPublished
    <3>2. l \in GoodJob /\ l.pc \in {"idle", "alert", "bnb", "pairMid"}
      BY <1>9, <2>1
    <3>3. Replied(j, l)
      BY <1>1, <1>2, <2>1, <2>3, <3>1, <3>2 DEF Replied, PoolStep, TickStep
    <3>4. QED
      BY <3>2, <3>3
  <2>4. QED
    BY <2>2, <2>3
<1>11. CASE ChangePublished(j)
  <2>1. /\ job[j].pc = "change"
        /\ UNCHANGED <<pools, pairs, bnbUsd, catalog, regimeVars, phase, cause, boots, seen, left>>
    BY <1>11 DEF ChangePublished, procVars
  <2>2. changes' = Append(changes, [pair |-> KeyOf(j), from |-> job[j].prev,
                                    to |-> job[j].regime, run |-> boots])
    BY <1>11 DEF ChangePublished
  <2>3. PICK l \in AfterTick(j) : Reply(j, l)
    BY <1>11 DEF ChangePublished
  <2>4. l \in GoodJob /\ l.pc \in {"idle", "alert", "bnb", "pairMid"}
    BY <1>9, <2>1
  <2>5. Replied(j, l)
    BY <1>1, <1>2, <2>1, <2>2, <2>3, <2>4 DEF Replied, PoolStep, TickStep
  <2>6. QED
    BY <2>4, <2>5
<1>12. CASE PairMidRead(j)
  <2>1. PICK f \in BOOLEAN : f = Priced(<<job[j].token, "WBNB">>)
    BY DEF Priced
  <2>2. PICK l : l = [To(j, "bnb") EXCEPT !.found = f]
    OBVIOUS
  <2>3. l \in GoodJob /\ l.pc = "bnb"
    <3>1. "bnb" \in RedisPc \ {"pool", "row", "entries"} /\ "bnb" \notin TickPc
      BY <1>2
    <3>2. CASE f = TRUE
      BY <2>2, <3>1, <3>2, ToGood
    <3>3. CASE f = FALSE
      BY <2>2, <3>1, <3>3, ToGood
    <3>4. QED
      BY <2>1, <3>2, <3>3
  <2>4. Reply(j, l)
    BY <1>12, <2>1, <2>2, Zenon DEF PairMidRead
  <2>5. QED
    BY <1>2, <1>4, <1>12, <2>3, <2>4 DEF PairMidRead
<1>13. CASE BnbUsdRead(j)
  <2>1. To(j, "alert") \in GoodJob /\ To(j, "alert").pc = "alert"
    BY <1>2, ToGood
  <2>2. Reply(j, Idle) \/ Reply(j, To(j, "alert"))
    BY <1>13 DEF BnbUsdRead
  <2>3. QED
    BY <1>2, <1>4, <1>13, <2>1, <2>2, IdleGood DEF BnbUsdRead
<1>14. CASE GasStored(j)
  <2>1. To(j, "gasEvent") \in GoodJob /\ To(j, "gasEvent").pc = "gasEvent"
    BY <1>2, ToGood
  <2>2. QED
    BY <1>2, <1>4, <1>14, <2>1 DEF GasStored
<1>15. CASE PriceStored(j)
  <2>1. To(j, "mid") \in GoodJob /\ To(j, "mid").pc = "mid"
    BY <1>2, ToGood
  <2>2. /\ bnbUsd' = TRUE
        /\ UNCHANGED <<pools, pairs, catalog, changes, regimeVars, phase, cause, boots, seen, left>>
    BY <1>15 DEF PriceStored, procVars
  <2>3. QED
    BY <1>1, <1>2, <1>3, <1>15, <2>1, <2>2 DEF PriceStored
<1>16. CASE QuotesStored(j) \/ EventPublished(j) \/ HealthFlushed(j) \/ PollRejected(j)
  <2>1. /\ Reply(j, Idle) /\ job[j].pc \notin TickPc
        /\ UNCHANGED <<graphVars, regimeVars, procVars>>
    BY <1>2, <1>16 DEF QuotesStored, EventPublished, HealthFlushed, PollRejected, Events
  <2>2. QED
    BY <1>2, <1>4, <2>1, IdleGood
<1>17. CASE MidRead(j)
  <2>1. To(j, "divergence") \in GoodJob /\ To(j, "divergence").pc = "divergence"
    BY <1>2, ToGood
  <2>2. Reply(j, Idle) \/ Reply(j, To(j, "divergence"))
    BY <1>17 DEF MidRead
  <2>3. QED
    BY <1>2, <1>4, <1>17, <2>1, <2>2, IdleGood DEF MidRead
<1>18. CASE RowRead(j)
  <2>1. PICK l \in GoodJob : /\ Reply(j, l) /\ l.pc \in {"idle", "insert", "row"}
                             /\ l.found => job[j].found \/ DOMAIN pools # {}
                             /\ l.pc = "insert" => l.found
    BY <1>18, RowGood
  <2>2. job[j].pc = "row" /\ UNCHANGED <<graphVars, regimeVars, procVars>>
    BY <1>18 DEF RowRead
  <2>3. Replied(j, l)
    BY <1>1, <1>2, <2>1, <2>2 DEF Replied, PoolStep, TickStep, graphVars, procVars
  <2>4. QED
    BY <2>3
<1>19. QED
  BY <1>5, <1>6, <1>7, <1>8, <1>10, <1>11, <1>12, <1>13, <1>14, <1>15, <1>16, <1>17, <1>18
  DEF Answers

-----------------------------------------------------------------------------
(* Every step of the service is one of these.                              *)
Moves(j, l) == Begun(j, l) \/ Resumed(j, l) \/ Replied(j, l)

Quits == /\ phase = "up" /\ phase' = "stopping" /\ wire' = Append(wire, Quit)
         /\ UNCHANGED <<graphVars, regimeVars, envVars, cause, boots, seen, left, job, recorded>>

LEMMA NextShape ==
    ASSUME ServiceInv, [Next]_vars
    PROVE  \/ \E j \in Jobs : \E l \in GoodJob : Moves(j, l)
           \/ Start \/ Quits \/ NewBlock \/ PaperExecutor
           \/ \E why \in {"redis", "database", "stop"} :
                 Die(why) /\ (why = "database" => \E j \in Jobs : job[j].pc = "insert")
           \/ UNCHANGED vars
<1>1. CASE Start \/ NewBlock \/ PaperExecutor \/ UNCHANGED vars
  BY <1>1
<1>2. CASE Stop
  BY <1>2 DEF Stop, Quits
<1>3. CASE HasQuit \/ RedisFailed
  BY <1>3 DEF HasQuit, RedisFailed
<1>4. ASSUME NEW j \in Jobs, Answers(j) PROVE \E l \in GoodJob : Moves(j, l)
  BY <1>4, AnswersShape DEF Moves
<1>5. ASSUME NEW j \in Jobs, Begins(j) PROVE \E l \in GoodJob : Moves(j, l)
  BY <1>5, BeginsShape DEF Moves
<1>6. ASSUME NEW j \in Jobs, Resumes(j)
      PROVE  (\E l \in GoodJob : Moves(j, l)) \/ (job[j].pc = "insert" /\ Die("database"))
  BY <1>6, ResumesShape DEF Moves
<1>7. QED
  BY <1>1, <1>2, <1>3, <1>4, <1>5, <1>6 DEF Next, RedisAnswers

LEMMA MovesEnter ==
    ASSUME ServiceInv, NEW j \in Jobs, NEW l \in GoodJob, Moves(j, l)
    PROVE  Enters(j, l) /\ phase # "down" /\ phase' # "down"
<1>1. CASE Begun(j, l)
  BY <1>1, IdleGood, PcFacts DEF Begun, Fire, Free, Enters
<1>2. CASE Resumed(j, l)
  <2>1. job[j].pc # "idle" /\ job[j].pc \notin RedisPc
    BY <1>2, PcFacts DEF Resumed
  <2>2. phase # "down"
    BY <2>1, IdleGood DEF ServiceInv, DownInv
  <2>3. phase' = phase /\ Enter(j, l, wire)
    BY <1>2 DEF Resumed, Resume, procVars
  <2>4. QED
    BY <2>1, <2>2, <2>3 DEF Enters
<1>3. CASE Replied(j, l)
  BY <1>3 DEF Replied, Reply, Answered, Enters, ServiceInv, DownInv
<1>4. QED
  BY <1>1, <1>2, <1>3 DEF Moves

LEMMA StartEnters ==
    ASSUME ServiceInv, Start
    PROVE  /\ Enters(1, RefreshCatalog) /\ 1 \in Jobs /\ RefreshCatalog \in GoodJob
           /\ RefreshCatalog.pc \in {"subgraph", "entries"}
           /\ job[1] = Idle /\ wire = <<>> /\ Forgotten
<1>1. config \in Configs
  BY TypeParts DEF ServiceInv, EnvOK
<1>2. /\ phase = "down" /\ Enter(1, RefreshCatalog, wire)
  BY DEF Start
<1>3. job[1] = Idle /\ wire = <<>> /\ Forgotten
  BY <1>2, PcFacts DEF ServiceInv, DownInv
<1>4. QED
  BY <1>1, <1>2, <1>3, CatalogGood, IdleGood, PcFacts DEF Enters

LEMMA DieClears ==
    ASSUME ServiceInv, NEW why, Die(why)
    PROVE  WireOK' /\ JobInv' /\ DownInv'
<1>1. wire' = <<>> /\ job' = [j \in Jobs |-> Idle] /\ Forget
  BY DEF Die
<1>2. JobInv'
  BY <1>1, IdleGood DEF JobInv, GoodJob
<1>3. wire' \in Seq(Jobs \cup {Quit}) /\ Len(wire') = 0
  BY <1>1
<1>4. job' \in [Jobs -> JobState] /\ \A j \in Jobs : job'[j].pc \notin RedisPc
  BY <1>1, IdleGood, PcFacts DEF GoodJob
<1>5. ~Sent(wire', 1) /\ \A j \in Jobs : ~Sent(wire', j)
  BY <1>3 DEF Sent
<1>6. Once(wire)'
  BY <1>3 DEF Once
<1>7. WireOK'
  BY <1>3, <1>4, <1>5, <1>6 DEF WireOK, Sent
<1>8. DownInv'
  BY <1>1 DEF DownInv, Forget, Forgotten
<1>9. QED
  BY <1>2, <1>7, <1>8

(* What a pool hash is after a write, and after a paper trade.             *)
LEMMA PoolsType ==
    ASSUME GraphTypeOK, NEW p \in Pools, NEW b \in Nat, NEW d \in Nat, writePool(p, b, d)
    PROVE  /\ DOMAIN pools' = DOMAIN pools \cup {p}
           /\ pools'[p] = [blockNumber |-> b, midPrice |-> d, reserves |-> d]
           /\ \A q \in DOMAIN pools : q # p => pools'[q] = pools[q]
           /\ \A q \in DOMAIN pools' : pools'[q] \in PoolState
<1>1. PICK h : h = [blockNumber |-> b, midPrice |-> d, reserves |-> d]
  OBVIOUS
<1>2. Put(p, h)
  BY <1>1 DEF writePool
<1>3. pools' = [q \in DOMAIN pools \cup {p} |-> IF q = p THEN h ELSE pools[q]]
  BY <1>2 DEF Put
<1>4. h \in PoolState
  BY <1>1 DEF PoolState
<1>5. \A q \in DOMAIN pools : pools[q] \in PoolState
  BY DEF GraphTypeOK
<1>6. QED
  BY <1>1, <1>3, <1>4, <1>5

LEMMA PaperType ==
    ASSUME GraphTypeOK, NEW p \in Pools, PaperTrade(p)
    PROVE  /\ DOMAIN pools' = DOMAIN pools
           /\ \A q \in DOMAIN pools :
                 /\ pools'[q] \in PoolState
                 /\ pools'[q].blockNumber = pools[q].blockNumber
                 /\ pools'[q].midPrice = pools[q].midPrice
                 /\ pools'[q].reserves \in {pools[q].reserves, Paper}
           /\ GraphTypeOK'
<1>1. /\ pools' = [pools EXCEPT ![p].reserves = Paper] /\ p \in DOMAIN pools
      /\ UNCHANGED <<pairs, bnbUsd, catalog, changes>>
  BY DEF PaperTrade
<1>2. /\ DOMAIN pools' = DOMAIN pools
      /\ \A q \in DOMAIN pools : q # p => pools'[q] = pools[q]
      /\ pools'[p] = [pools[p] EXCEPT !.reserves = Paper]
  BY <1>1
<1>3. pools[p] \in PoolState
  BY <1>1 DEF GraphTypeOK
<1>4. /\ pools'[p] \in PoolState /\ pools'[p].reserves = Paper
      /\ pools'[p].blockNumber = pools[p].blockNumber /\ pools'[p].midPrice = pools[p].midPrice
  BY <1>2, <1>3 DEF PoolState
<1>5. \A q \in DOMAIN pools : pools[q] \in PoolState
  BY DEF GraphTypeOK
<1>6. \A q \in DOMAIN pools :
         /\ pools'[q] \in PoolState
         /\ pools'[q].blockNumber = pools[q].blockNumber
         /\ pools'[q].midPrice = pools[q].midPrice
         /\ pools'[q].reserves \in {pools[q].reserves, Paper}
  BY <1>2, <1>4, <1>5
<1>7. GraphTypeOK'
  BY <1>1, <1>2, <1>6 DEF GraphTypeOK
<1>8. QED
  BY <1>2, <1>6, <1>7

-----------------------------------------------------------------------------
(* Types and the order of the wire.                                        *)
LEMMA ServiceInit == Init => ServiceInv
<1> SUFFICES ASSUME Init PROVE ServiceInv
  OBVIOUS
<1> USE DEF Init
<1>1. GraphTypeOK
  <2>1. /\ pools = <<>> /\ DOMAIN pools = {} /\ changes = <<>> /\ changes \in Seq(RegimeChange)
        /\ pairs \in [Pairs -> PairState \cup {Absent}]
    BY DEF GraphInit
  <2>2. QED
    BY <2>1 DEF GraphInit, GraphTypeOK
<1>2. RegimeTypeOK
  BY ClassifierAssumption DEF ClassifierAssumption, Forgotten, RegimeTypeOK, Regime
<1>3. EnvOK
  <2>1. left \in [event : Nat, block : Nat, timer : Nat]
    BY IngestionAssumption DEF IngestionAssumption
  <2>2. left \in [{"event", "block", "timer"} -> Nat]
    BY <2>1
  <2>3. head \in 1 .. MaxBlocks /\ paper \in 0 .. MaxPaper /\ boots \in 0 .. MaxBoots
        /\ seen \in 0 .. MaxBlocks
    BY IngestionAssumption DEF IngestionAssumption
  <2>4. QED
    BY <2>2, <2>3 DEF EnvOK
<1>4. wire = <<>> /\ job = [j \in Jobs |-> Idle]
  OBVIOUS
<1>5. \A j \in Jobs : job[j] \in GoodJob /\ job[j].pc \notin RedisPc
  BY <1>4, IdleGood, PcFacts
<1>6. WireOK /\ JobInv
  BY <1>4, <1>5 DEF WireOK, JobInv, GoodJob, Sent, Once
<1>7. DownInv
  BY <1>4 DEF DownInv
<1>8. QED
  BY <1>1, <1>2, <1>3, <1>6, <1>7, TypeParts DEF ServiceInv

LEMMA GraphStepType ==
    ASSUME ServiceInv, NEW j \in Jobs, NEW l \in GoodJob, Replied(j, l)
    PROVE  GraphTypeOK'
<1>1. GraphTypeOK /\ job[j] \in JobState /\ JobOK(job[j]) /\ boots \in Nat
  BY TypeParts, JobType, IngestionAssumption
  DEF ServiceInv, EnvOK, IngestionAssumption
<1>2. job[j].pc \in {"pool", "pair", "tick", "change"} =>
         Head(job[j].todo) \in Pools /\ KeyOf(j) \in Pairs
  BY <1>1, PoolFacts DEF JobOK, JobState, KeyOf
<1>3. DOMAIN pools' \subseteq Pools /\ \A p \in DOMAIN pools' : pools'[p] \in PoolState
  <2>1. CASE UNCHANGED pools
    BY <1>1, <2>1 DEF GraphTypeOK
  <2>2. CASE job[j].pc = "pool" /\ writePool(Head(job[j].todo), job[j].block, job[j].data)
    <3>1. job[j].block \in Nat /\ job[j].data \in Nat /\ Head(job[j].todo) \in Pools
      BY <1>1, <1>2, <2>2 DEF JobState
    <3>2. /\ DOMAIN pools' = DOMAIN pools \cup {Head(job[j].todo)}
          /\ \A p \in DOMAIN pools' : pools'[p] \in PoolState
      BY <1>1, <2>2, <3>1, PoolsType
    <3>3. DOMAIN pools \subseteq Pools
      BY <1>1 DEF GraphTypeOK
    <3>4. QED
      BY <3>1, <3>2, <3>3
  <2>3. QED
    BY <2>1, <2>2 DEF Replied, PoolStep
<1>4. pairs' \in [Pairs -> PairState \cup {Absent}]
  <2>1. CASE UNCHANGED pairs
    BY <1>1, <2>1 DEF GraphTypeOK
  <2>2. CASE job[j].pc = "pair" /\ writePair(KeyOf(j), job[j].regime)
    BY <1>1, <1>2, <2>2 DEF GraphTypeOK, writePair, JobState, PairState
  <2>3. QED
    BY <2>1, <2>2 DEF Replied, TickStep
<1>5. changes' \in Seq(RegimeChange)
  <2>1. CASE UNCHANGED changes
    BY <1>1, <2>1 DEF GraphTypeOK
  <2>2. CASE job[j].pc = "change" /\ changes' = Append(changes, [pair |-> KeyOf(j), from |-> job[j].prev,
                                      to |-> job[j].regime, run |-> boots])
    <3>1. [pair |-> KeyOf(j), from |-> job[j].prev, to |-> job[j].regime, run |-> boots]
             \in RegimeChange
      BY <1>1, <1>2, <2>2 DEF RegimeChange, JobState
    <3>2. QED
      BY <1>1, <2>2, <3>1 DEF GraphTypeOK
  <2>3. QED
    BY <2>1, <2>2 DEF Replied, TickStep
<1>6. QED
  BY <1>3, <1>4, <1>5 DEF GraphTypeOK, Replied

(* What a price does to the memory of the service.                         *)
LEMMA PriceTaken ==
    ASSUME RegimeTypeOK, NEW k \in Pairs, NEW l, TakesPrice(k, l)
    PROVE  /\ RegimeTypeOK'
           /\ series'[k] \in 1 .. WARMUP
           /\ \A m \in Pairs : m # k => series'[m] = series[m] /\ lastRegime'[m] = lastRegime[m]
           /\ lastRegime'[k] = IF l.regime = "unknown" THEN lastRegime[k] ELSE l.regime
           /\ l.regime = "unknown" => series[k] < WARMUP
           /\ l.regime # "unknown" => series'[k] = WARMUP
           /\ series[k] = WARMUP => series'[k] = WARMUP
<1>1. /\ series \in [Pairs -> 0 .. WARMUP] /\ lastRegime \in [Pairs -> Regime]
      /\ WARMUP \in Nat /\ WARMUP > 0
  BY ClassifierAssumption DEF RegimeTypeOK, ClassifierAssumption
<1>2. /\ l.regime \in Regime
      /\ l.regime = "unknown" <=> series[k] + 1 < WARMUP
  BY VerdictType DEF TakesPrice
<1>3. /\ series' = [series EXCEPT ![k] = IF @ < WARMUP THEN @ + 1 ELSE @]
      /\ lastRegime' = IF l.regime = "unknown" THEN lastRegime
                       ELSE [lastRegime EXCEPT ![k] = l.regime]
  BY DEF TakesPrice, pushPrice, Remember
<1>4. series[k] \in 0 .. WARMUP
  BY <1>1
<1>5. /\ series'[k] = IF series[k] < WARMUP THEN series[k] + 1 ELSE series[k]
      /\ \A m \in Pairs : m # k => series'[m] = series[m]
  BY <1>1, <1>3
<1>6. series' \in [Pairs -> 0 .. WARMUP]
  BY <1>1, <1>3
<1>7. /\ lastRegime' \in [Pairs -> Regime]
      /\ \A m \in Pairs : m # k => lastRegime'[m] = lastRegime[m]
      /\ lastRegime'[k] = IF l.regime = "unknown" THEN lastRegime[k] ELSE l.regime
  BY <1>1, <1>2, <1>3
<1>8. QED
  BY <1>1, <1>2, <1>4, <1>5, <1>6, <1>7 DEF RegimeTypeOK

(* The types of the environment and the counters, for a job's step.        *)
LEMMA MovesEnv ==
    ASSUME ServiceInv, NEW j \in Jobs, NEW l \in GoodJob, Moves(j, l)
    PROVE  EnvOK'
<1>1. EnvOK
  BY TypeParts DEF ServiceInv
<1>2. CASE Begun(j, l)
  <2>1. PICK class \in {"event", "block", "timer"} : Fire(j, class, l)
    BY <1>2 DEF Begun
  <2>2. left' \in [{"event", "block", "timer"} -> Nat]
    <3>1. left \in [{"event", "block", "timer"} -> Nat] /\ left[class] > 0
      BY <1>1, <2>1 DEF Fire, EnvOK
    <3>2. left[class] - 1 \in Nat
      BY <3>1
    <3>3. left' = [left EXCEPT ![class] = left[class] - 1]
      BY <2>1 DEF Fire
    <3>4. QED
      BY <3>1, <3>2, <3>3
  <2>3. /\ UNCHANGED <<config, head, paper, phase, cause, boots, recorded>>
        /\ seen' \in 0 .. MaxBlocks
    BY <1>2, <2>1 DEF Begun, Fire, envVars
  <2>4. QED
    BY <1>1, <2>2, <2>3 DEF EnvOK
<1>3. CASE Resumed(j, l)
  BY <1>1, <1>3 DEF Resumed, Resume, envVars, procVars, EnvOK
<1>4. CASE Replied(j, l)
  BY <1>1, <1>4 DEF Replied, Reply, envVars, EnvOK
<1>5. QED
  BY <1>2, <1>3, <1>4 DEF Moves

LEMMA ServiceNext == ServiceInv /\ [Next]_vars => ServiceInv'
<1> SUFFICES ASSUME ServiceInv, [Next]_vars PROVE ServiceInv'
  OBVIOUS
<1>1. GraphTypeOK /\ RegimeTypeOK /\ EnvOK /\ WireOK /\ JobInv /\ DownInv
  BY TypeParts DEF ServiceInv
<1>2. ASSUME GraphTypeOK', RegimeTypeOK', EnvOK', WireOK', JobInv', DownInv' PROVE ServiceInv'
  BY <1>2, TypeParts DEF ServiceInv
<1>3. ASSUME NEW j \in Jobs, NEW l \in GoodJob, Enters(j, l)
      PROVE  WireOK' /\ JobInv'
  <2>1. l \in JobState /\ JobOK(l)
    BY DEF GoodJob
  <2>2. WireOK' /\ job'[j] = l /\ \A d \in Jobs : d # j => job'[d] = job[d]
    BY <1>1, <1>3, <2>1, EntersWire
  <2>3. JobInv'
    BY <1>1, <2>1, <2>2 DEF JobInv, JobOK
  <2>4. QED
    BY <2>2, <2>3
<1>4. ASSUME NEW j \in Jobs, NEW l \in GoodJob, Moves(j, l) PROVE ServiceInv'
  <2>1. Enters(j, l) /\ phase' # "down"
    BY <1>4, MovesEnter
  <2>2. WireOK' /\ JobInv' /\ DownInv' /\ EnvOK'
    BY <1>3, <1>4, <2>1, MovesEnv DEF DownInv
  <2>3. GraphTypeOK'
    BY <1>1, <1>4, GraphStepType DEF Moves, Begun, Resumed, graphVars, GraphTypeOK
  <2>4. RegimeTypeOK'
    <3>1. CASE UNCHANGED regimeVars
      BY <1>1, <3>1 DEF regimeVars, RegimeTypeOK
    <3>2. CASE \E k \in Pairs : TakesPrice(k, l)
      BY <1>1, <3>2, PriceTaken
    <3>3. QED
      BY <1>4, <3>1, <3>2 DEF Moves, Begun, Resumed, Replied
  <2>5. QED
    BY <1>2, <2>2, <2>3, <2>4
<1>5. CASE Start
  <2>1. WireOK' /\ JobInv'
    BY <1>3, <1>5, StartEnters
  <2>2. /\ phase' = "boot" /\ cause' = None /\ boots' = boots + 1 /\ boots < MaxBoots
        /\ UNCHANGED <<graphVars, regimeVars, config, head, paper, seen, left, recorded>>
    BY <1>5 DEF Start, envVars
  <2>3. EnvOK'
    <3>1. boots' \in 0 .. MaxBoots
      BY <1>1, <2>2, IngestionAssumption DEF EnvOK, IngestionAssumption
    <3>2. QED
      BY <1>1, <2>2, <3>1 DEF EnvOK
  <2>4. QED
    BY <1>1, <1>2, <2>1, <2>2, <2>3 DEF graphVars, regimeVars, GraphTypeOK, RegimeTypeOK, DownInv
<1>6. CASE Quits
  <2>1. Quit \in Jobs \cup {Quit} /\ Quit \notin Jobs
    BY PcFacts
  <2>2. /\ wire' \in Seq(Jobs \cup {Quit}) /\ Once(wire')
        /\ \A j \in Jobs : Sent(wire', j) <=> Sent(wire, j)
    BY <1>1, <1>6, <2>1, AppendWire DEF Quits, WireOK
  <2>3. WireOK'
    <3>1. Once(wire)'
      BY <2>2 DEF Once
    <3>2. QED
      BY <1>1, <1>6, <2>2, <3>1 DEF Quits, WireOK, Sent
  <2>4. EnvOK' /\ DownInv' /\ JobInv' /\ GraphTypeOK' /\ RegimeTypeOK'
    BY <1>1, <1>6
    DEF Quits, envVars, graphVars, regimeVars, EnvOK, DownInv, JobInv, GraphTypeOK, RegimeTypeOK
  <2>5. QED
    BY <1>2, <2>3, <2>4
<1>7. ASSUME UNCHANGED <<wire, job, phase, cause, boots, seen, left, recorded, config, regimeVars>>,
             GraphTypeOK', head' \in 1 .. MaxBlocks, paper' \in 0 .. MaxPaper
      PROVE  ServiceInv'
  <2>1. WireOK' /\ JobInv' /\ DownInv'
    BY <1>1, <1>7 DEF WireOK, JobInv, DownInv, Sent, Once, Forgotten, regimeVars
  <2>2. EnvOK' /\ RegimeTypeOK'
    BY <1>1, <1>7 DEF EnvOK, RegimeTypeOK, regimeVars
  <2>3. QED
    BY <1>2, <1>7, <2>1, <2>2
<1>8. CASE NewBlock
  <2>1. GraphTypeOK'
    BY <1>1, <1>8 DEF NewBlock, graphVars, GraphTypeOK
  <2>2. head' \in 1 .. MaxBlocks /\ paper' = paper
    BY <1>1, <1>8, IngestionAssumption DEF NewBlock, EnvOK, IngestionAssumption
  <2>3. QED
    BY <1>1, <1>7, <1>8, <2>1, <2>2 DEF NewBlock, procVars, jobVars, EnvOK
<1>9. CASE PaperExecutor
  <2>1. GraphTypeOK'
    BY <1>1, <1>9, PaperType DEF PaperExecutor
  <2>2. paper' \in 0 .. MaxPaper /\ head' = head
    BY <1>1, <1>9, IngestionAssumption DEF PaperExecutor, EnvOK, IngestionAssumption
  <2>3. QED
    BY <1>1, <1>7, <1>9, <2>1, <2>2 DEF PaperExecutor, procVars, jobVars, EnvOK
<1>10. ASSUME NEW why \in {"redis", "database", "stop"}, Die(why) PROVE ServiceInv'
  <2>1. WireOK' /\ JobInv' /\ DownInv'
    BY <1>10, DieClears
  <2>2. RegimeTypeOK'
    BY <1>10, ClassifierAssumption DEF Die, Forget, RegimeTypeOK, ClassifierAssumption, Regime
  <2>3. /\ phase' = "down" /\ cause' = why /\ seen' = 0 /\ recorded' = FALSE
        /\ UNCHANGED <<graphVars, config, head, paper, boots, left>>
    BY <1>10 DEF Die, envVars
  <2>4. EnvOK'
    <3>1. seen' \in 0 .. MaxBlocks
      BY <2>3, IngestionAssumption DEF IngestionAssumption
    <3>2. QED
      BY <1>1, <2>3, <3>1 DEF EnvOK
  <2>5. GraphTypeOK'
    BY <1>1, <2>3 DEF GraphTypeOK, graphVars
  <2>6. QED
    BY <1>2, <2>1, <2>2, <2>4, <2>5
<1>11. CASE UNCHANGED vars
  BY <1>1, <1>7, <1>11
  DEF vars, envVars, procVars, jobVars, graphVars, GraphTypeOK, EnvOK
<1>12. QED
  BY <1>4, <1>5, <1>6, <1>8, <1>9, <1>10, <1>11, NextShape

(* redis.ts:4, index.ts:18-59: every variable of the ingestion service     *)
(* keeps its type, each job that waits for Redis has exactly one command   *)
(* on the wire, and a job has what the step it stands at asks for.         *)
THEOREM ServiceCorrect == Spec => []ServiceInv
<1>1. QED
  BY ServiceInit, ServiceNext, PTL DEF Spec

(* index.ts:18-59: the types; the wire has one command of each job that    *)
(* waits for Redis, and none of the others.                                *)
THEOREM IngestionTypes == Spec => []IngestionTypeOK
<1>1. ServiceInv => IngestionTypeOK
  BY DEF ServiceInv
<1>2. QED
  BY <1>1, ServiceCorrect, PTL

-----------------------------------------------------------------------------
(* A job of the snapshot: the database is set, and what has been found is  *)
(* a pool of the graph.                                                    *)
SnapshotInv == \A j \in Jobs :
    /\ job[j].pc \in {"row", "insert"} => config.db /\ (job[j].found => DOMAIN pools # {})
    /\ job[j].pc = "insert" => job[j].found

DatabaseNeeded == cause = "database" => config.db /\ DOMAIN pools # {}

LEMMA SnapshotNext ==
    ServiceInv /\ SnapshotInv /\ DatabaseNeeded /\ [Next]_vars => SnapshotInv' /\ DatabaseNeeded'
<1> SUFFICES ASSUME ServiceInv, SnapshotInv, DatabaseNeeded, [Next]_vars
             PROVE  SnapshotInv' /\ DatabaseNeeded'
  OBVIOUS
<1>1. GraphTypeOK
  BY TypeParts DEF ServiceInv
(* Pools are added and never removed.                                      *)
<1>2. ASSUME NEW j \in Jobs, NEW l \in GoodJob, Moves(j, l)
      PROVE  SnapshotInv' /\ DatabaseNeeded'
  <2>1. UNCHANGED <<cause, config>>
    BY <1>2 DEF Moves, Begun, Fire, Resumed, Resume, Replied, Reply, procVars, envVars
  <2>2. job'[j] = l /\ \A d \in Jobs : d # j => job'[d] = job[d]
    BY <1>2, MovesEnter, EntersWire, TypeParts DEF ServiceInv, GoodJob
  <2>3. DOMAIN pools # {} => DOMAIN pools' # {}
    <3>1. CASE Begun(j, l) \/ Resumed(j, l)
      BY <3>1 DEF Begun, Resumed, graphVars
    <3>2. CASE Replied(j, l) /\ ~UNCHANGED pools
      <4>1. job[j].pc = "pool" /\ writePool(Head(job[j].todo), job[j].block, job[j].data)
        BY <3>2 DEF Replied, PoolStep
      <4>2. /\ Head(job[j].todo) \in Pools /\ job[j].block \in Nat /\ job[j].data \in Nat
        BY <4>1, JobType DEF JobOK, JobState
      <4>3. QED
        BY <1>1, <4>1, <4>2, PoolsType
    <3>3. QED
      BY <1>2, <3>1, <3>2 DEF Moves
  <2>4. /\ l.pc \in {"row", "insert"} => config.db /\ (l.found => DOMAIN pools # {})
        /\ l.pc = "insert" => l.found
    <3>1. CASE Begun(j, l) \/ Resumed(j, l)
      BY <3>1 DEF Begun, Resumed
    <3>2. CASE Replied(j, l)
      <4>1. job[j].pc \in {"row", "insert"} => config.db /\ (job[j].found => DOMAIN pools # {})
        BY DEF SnapshotInv
      <4>2. l.pc \in {"row", "insert"} => /\ job[j].pc = "row"
                                          /\ l.found => job[j].found \/ DOMAIN pools # {}
                                          /\ l.pc = "insert" => l.found
        BY <3>2, Zenon DEF Replied
      <4>3. QED
        BY <4>1, <4>2, Zenon
    <3>3. QED
      BY <1>2, <3>1, <3>2 DEF Moves
  <2>5. QED
    BY <2>1, <2>2, <2>3, <2>4 DEF SnapshotInv, DatabaseNeeded
<1>3. CASE Start
  <2>1. RefreshCatalog.pc \in {"subgraph", "entries"}
    BY CatalogGood, TypeParts DEF ServiceInv, EnvOK
  <2>2. /\ UNCHANGED <<graphVars, envVars>> /\ cause' = None
        /\ \A d \in Jobs : job'[d] = IF d = 1 THEN RefreshCatalog ELSE job[d]
    BY <1>3, TypeParts DEF Start, Enter, ServiceInv, WireOK
  <2>3. None # "database"
    BY DEF None
  <2>4. QED
    BY <2>1, <2>2, <2>3 DEF SnapshotInv, DatabaseNeeded, graphVars, envVars
<1>4. CASE Quits \/ NewBlock \/ UNCHANGED vars
  BY <1>4 DEF Quits, NewBlock, vars, procVars, jobVars, graphVars, envVars,
              SnapshotInv, DatabaseNeeded
<1>5. CASE PaperExecutor
  <2>1. PICK p \in Pools : PaperTrade(p)
    BY <1>5 DEF PaperExecutor
  <2>2. DOMAIN pools' = DOMAIN pools
    BY <1>1, <2>1, PaperType
  <2>3. QED
    BY <1>5, <2>2 DEF PaperExecutor, jobVars, procVars, SnapshotInv, DatabaseNeeded
<1>6. ASSUME NEW why \in {"redis", "database", "stop"}, Die(why),
             why = "database" => \E j \in Jobs : job[j].pc = "insert"
      PROVE  SnapshotInv' /\ DatabaseNeeded'
  <2>1. /\ cause' = why /\ UNCHANGED <<pools, config>>
        /\ \A j \in Jobs : job'[j] = Idle
    BY <1>6 DEF Die, graphVars, envVars
  <2>2. why = "database" => config.db /\ DOMAIN pools # {}
    BY <1>6 DEF SnapshotInv
  <2>3. QED
    BY <2>1, <2>2, IdleGood DEF SnapshotInv, DatabaseNeeded
<1>7. QED
  BY <1>2, <1>3, <1>4, <1>5, <1>6, NextShape

(* snapshots.ts:12, :26 and :78, against the claim of :7-8: the database   *)
(* ends the service only where a URL for it is set, and only after a       *)
(* tracked pool has been written; without rows nothing is inserted.        *)
THEOREM OnlyRowsNeedTheDatabase == Spec => []DatabaseNeeded
<1>1. Init => SnapshotInv /\ DatabaseNeeded
  <2>1. None # "database"
    BY DEF None
  <2>2. QED
    BY <2>1, IdleGood DEF Init, SnapshotInv, DatabaseNeeded
<1>2. QED
  BY <1>1, SnapshotNext, ServiceCorrect, PTL DEF Spec

-----------------------------------------------------------------------------
(* What a pool hash says.                                                  *)
LEMMA PoolInit == Init => BlockInv /\ PoolExplained
<1> SUFFICES ASSUME Init PROVE BlockInv /\ PoolExplained
  OBVIOUS
<1>1. \A j \in Jobs : job[j].pc = "idle"
  BY IdleGood DEF Init
<1>2. DOMAIN pools = {}
  BY DEF Init, GraphInit
<1>3. QED
  BY <1>1, <1>2 DEF BlockInv, PoolExplained

LEMMA PoolNext == ServiceInv /\ BlockInv /\ PoolExplained /\ [Next]_vars => BlockInv' /\ PoolExplained'
<1> SUFFICES ASSUME ServiceInv, BlockInv, PoolExplained, [Next]_vars
             PROVE  BlockInv' /\ PoolExplained'
  OBVIOUS
<1>1. /\ GraphTypeOK /\ WireOK /\ head \in Nat /\ Lag \in Nat /\ EnvOK
      /\ \A j \in Jobs : job[j].block \in Nat /\ job[j].data \in Nat
  <2>1. GraphTypeOK /\ WireOK /\ EnvOK
    BY TypeParts DEF ServiceInv
  <2>2. head \in Nat /\ Lag \in Nat
    BY <2>1, IngestionAssumption, GraphAssumption DEF EnvOK, IngestionAssumption, GraphAssumption
  <2>3. ASSUME NEW j \in Jobs PROVE job[j].block \in Nat /\ job[j].data \in Nat
    BY <2>1 DEF WireOK, JobState
  <2>4. QED
    BY <2>1, <2>2, <2>3
<1>2. ASSUME NEW j \in Jobs, NEW l \in GoodJob, Enters(j, l), head' = head,
             l.pc \in {"multicall", "pool"} => l.block <= head,
             l.pc = "pool" => l.block <= l.data + Lag
      PROVE  BlockInv'
  <2>1. l \in JobState
    BY DEF GoodJob
  <2>2. job'[j] = l /\ \A d \in Jobs : d # j => job'[d] = job[d]
    BY <1>1, <1>2, <2>1, EntersWire
  <2>3. QED
    BY <1>2, <2>2 DEF BlockInv
<1>3. ASSUME UNCHANGED pools PROVE PoolExplained'
  BY <1>3 DEF PoolExplained
<1>4. ASSUME NEW j \in Jobs, NEW l \in GoodJob, Moves(j, l) PROVE BlockInv' /\ PoolExplained'
  <2>1. Enters(j, l)
    BY <1>4, MovesEnter
  <2>2. head' = head
    BY <1>4 DEF Moves, Begun, Fire, Resumed, Resume, Replied, Reply, envVars
  <2>3. CASE Begun(j, l)
    BY <1>2, <1>3, <2>1, <2>2, <2>3 DEF Begun, graphVars
  <2>4. CASE Resumed(j, l)
    <3>1. l.pc = "pool" => /\ l.block = job[j].block /\ l.block <= head
                           /\ l.data \in Nat /\ head <= l.data + Lag
      BY <1>1, <2>4 DEF Resumed, BlockInv, Heights
    <3>2. l.pc = "pool" => l.block <= l.data + Lag
      BY <1>1, <3>1
    <3>3. l.pc # "multicall" /\ UNCHANGED pools
      BY <2>4 DEF Resumed, graphVars
    <3>4. QED
      BY <1>2, <1>3, <2>1, <2>2, <3>1, <3>2, <3>3
  <2>5. CASE Replied(j, l)
    <3>1. BlockInv'
      BY <1>2, <2>1, <2>2, <2>5 DEF Replied, BlockInv
    <3>2. CASE job[j].pc = "pool" /\ writePool(Head(job[j].todo), job[j].block, job[j].data)
      <4>1. PICK p \in Pools : p = Head(job[j].todo)
        BY <3>2, JobType DEF JobOK, JobState
      <4>2. /\ DOMAIN pools' = DOMAIN pools \cup {p}
            /\ pools'[p] = [blockNumber |-> job[j].block, midPrice |-> job[j].data,
                            reserves |-> job[j].data]
            /\ \A q \in DOMAIN pools : q # p => pools'[q] = pools[q]
        <5>1. GraphTypeOK /\ job[j].block \in Nat /\ job[j].data \in Nat
          BY <1>1
        <5>2. writePool(p, job[j].block, job[j].data)
          BY <3>2, <4>1, Zenon
        <5>3. QED
          BY <5>1, <5>2, PoolsType, ZenonT(30)
      <4>3. job[j].block <= job[j].data + Lag
        BY <3>2 DEF BlockInv
      <4>4. PoolExplained'
        BY <4>2, <4>3 DEF PoolExplained
      <4>5. QED
        BY <3>1, <4>4
    <3>3. QED
      BY <1>3, <2>5, <3>1, <3>2 DEF Replied, PoolStep
  <2>6. QED
    BY <1>4, <2>3, <2>4, <2>5 DEF Moves
<1>5. CASE Start
  <2>1. head' = head /\ UNCHANGED pools
    BY <1>5 DEF Start, graphVars, envVars
  <2>2. QED
    BY <1>2, <1>3, <1>5, <2>1, StartEnters
<1>6. CASE Quits \/ UNCHANGED vars
  BY <1>6 DEF Quits, vars, graphVars, envVars, jobVars, BlockInv, PoolExplained
<1>7. CASE NewBlock
  <2>1. head' = head + 1 /\ UNCHANGED <<pools, job>>
    BY <1>7 DEF NewBlock, graphVars, jobVars
  <2>2. \A j \in Jobs : job[j].block <= head => job[j].block <= head + 1
    BY <1>1
  <2>3. QED
    BY <2>1, <2>2 DEF BlockInv, PoolExplained
<1>8. CASE PaperExecutor
  <2>1. /\ DOMAIN pools' = DOMAIN pools
        /\ \A q \in DOMAIN pools : /\ pools'[q].blockNumber = pools[q].blockNumber
                                   /\ pools'[q].midPrice = pools[q].midPrice
                                   /\ pools'[q].reserves \in {pools[q].reserves, Paper}
    BY <1>1, <1>8, PaperType DEF PaperExecutor
  <2>2. UNCHANGED <<head, job>>
    BY <1>8 DEF PaperExecutor, jobVars
  <2>3. QED
    BY <2>1, <2>2 DEF BlockInv, PoolExplained
<1>9. ASSUME NEW why \in {"redis", "database", "stop"}, Die(why) PROVE BlockInv' /\ PoolExplained'
  <2>1. job' = [j \in Jobs |-> Idle] /\ UNCHANGED pools
    BY <1>9 DEF Die, graphVars
  <2>2. \A j \in Jobs : job'[j].pc = "idle"
    BY <2>1, IdleGood
  <2>3. QED
    BY <1>3, <2>1, <2>2 DEF BlockInv
<1>10. QED
  BY <1>4, <1>5, <1>6, <1>7, <1>8, <1>9, NextShape

(* rpc.ts:64-85, executor_paper.py:42-62: however refreshes overlap, with  *)
(* each other and with paper trades, a pool hash has the mid and the       *)
(* reserves of one read, or reserves of the paper executor, and no block   *)
(* number much newer than the read.                                        *)
THEOREM PoolsExplained == Spec => []PoolExplained
<1>1. QED
  BY PoolInit, PoolNext, ServiceCorrect, PTL DEF Spec

-----------------------------------------------------------------------------
(* The order of the ticks of a pair.                                       *)
LEMMA StageOf ==
    /\ Stage["pair"] = 1 /\ Stage["tick"] = 2 /\ Stage["change"] = 3
    /\ \A pc \in TickPc : Stage[pc] \in 1 .. 3
    /\ \A p, q \in TickPc : Stage[p] = Stage[q] => p = q
  BY DEF Stage, TickPc

LEMMA FrontOrder ==
    ASSUME WireOK, NEW a \in Jobs, NEW b \in Jobs, NEW c \in Jobs
    PROVE  /\ ~InFront(wire, a, a)
           /\ InFront(wire, a, b) /\ InFront(wire, b, c) => InFront(wire, a, c)
           /\ a # b /\ Sent(wire, a) /\ Sent(wire, b) => InFront(wire, a, b) \/ InFront(wire, b, a)
<1>1. Len(wire) \in Nat /\ a # Quit /\ b # Quit /\ c # Quit
  BY PcFacts DEF WireOK
<1>2. \A i, n \in 1 .. Len(wire) : wire[i] = wire[n] /\ wire[i] # Quit => i = n
  BY DEF WireOK, Once
<1>3. ~InFront(wire, a, a)
  BY <1>1, <1>2 DEF InFront
<1>4. ASSUME InFront(wire, a, b), InFront(wire, b, c) PROVE InFront(wire, a, c)
  <2>1. PICK i, n \in 1 .. Len(wire) : i < n /\ wire[i] = a /\ wire[n] = b
    BY <1>4 DEF InFront
  <2>2. PICK p, m \in 1 .. Len(wire) : p < m /\ wire[p] = b /\ wire[m] = c
    BY <1>4 DEF InFront
  <2>3. n = p
    BY <1>1, <1>2, <2>1, <2>2
  <2>4. i < m
    BY <1>1, <2>1, <2>2, <2>3
  <2>5. QED
    BY <2>1, <2>2, <2>4 DEF InFront
<1>5. ASSUME a # b, Sent(wire, a), Sent(wire, b)
      PROVE  InFront(wire, a, b) \/ InFront(wire, b, a)
  <2>1. PICK i \in 1 .. Len(wire) : wire[i] = a
    BY <1>5 DEF Sent
  <2>2. PICK n \in 1 .. Len(wire) : wire[n] = b
    BY <1>5 DEF Sent
  <2>3. i < n \/ n < i
    BY <1>1, <1>5, <2>1, <2>2
  <2>4. QED
    BY <2>1, <2>2, <2>3 DEF InFront
<1>6. QED
  BY <1>3, <1>4, <1>5

LEMMA OlderOrder ==
    ASSUME WireOK, NEW k
    PROVE  /\ \A a \in Ticks(k) : ~Older(a, a)
           /\ \A a, b, c \in Ticks(k) : Older(a, b) /\ Older(b, c) => Older(a, c)
           /\ \A a, b \in Ticks(k) : Older(a, b) => ~Older(b, a)
           /\ \A a, b \in Ticks(k) : a # b => Older(a, b) \/ Older(b, a)
<1>1. ASSUME NEW a \in Ticks(k)
      PROVE  a \in Jobs /\ job[a].pc \in TickPc /\ Sent(wire, a) /\ Stage[job[a].pc] \in Nat
  BY <1>1, StageOf, StageFacts DEF Ticks, WireOK
<1>2. ASSUME NEW a \in Ticks(k) PROVE ~Older(a, a)
  BY <1>1, <1>2, FrontOrder DEF Older
<1>3. ASSUME NEW a \in Ticks(k), NEW b \in Ticks(k), NEW c \in Ticks(k), Older(a, b), Older(b, c)
      PROVE  Older(a, c)
  BY <1>1, <1>3, FrontOrder DEF Older
<1>4. ASSUME NEW a \in Ticks(k), NEW b \in Ticks(k), a # b PROVE Older(a, b) \/ Older(b, a)
  <2>1. \/ Stage[job[a].pc] > Stage[job[b].pc] \/ Stage[job[b].pc] > Stage[job[a].pc]
        \/ job[a].pc = job[b].pc
    BY <1>1, StageOf
  <2>2. QED
    BY <1>1, <1>4, <2>1, FrontOrder DEF Older
<1>5. QED
  BY <1>2, <1>3, <1>4

(* A step of job j leaves the order of the other ticks alone.              *)
LEMMA TicksStep ==
    ASSUME WireOK, NEW j \in Jobs, NEW l \in JobState, Enters(j, l), NEW k
    PROVE  /\ job'[j] = l /\ \A a \in Jobs : a # j => job'[a] = job[a]
           /\ \A a : a # j => (a \in Ticks(k)' <=> a \in Ticks(k))
           /\ j \in Ticks(k)' <=> l.pc \in TickPc /\ pairKey(Head(l.todo)) = k
           /\ \A a, b \in Ticks(k) : a # j /\ b # j => (Older(a, b)' <=> Older(a, b))
<1>1. /\ job'[j] = l /\ \A a \in Jobs : a # j => job'[a] = job[a]
      /\ \A a, b \in Jobs : a # j /\ b # j => (InFront(wire', a, b) <=> InFront(wire, a, b))
  BY EntersWire
<1>2. ASSUME NEW a, a # j PROVE a \in Ticks(k)' <=> a \in Ticks(k)
  BY <1>1, <1>2 DEF Ticks, KeyOf
<1>3. j \in Ticks(k)' <=> l.pc \in TickPc /\ pairKey(Head(l.todo)) = k
  BY <1>1 DEF Ticks, KeyOf
<1>4. ASSUME NEW a \in Ticks(k), NEW b \in Ticks(k), a # j, b # j
      PROVE  Older(a, b)' <=> Older(a, b)
  <2>1. a \in Jobs /\ b \in Jobs
    BY DEF Ticks
  <2>2. /\ job'[a] = job[a] /\ job'[b] = job[b]
        /\ InFront(wire', a, b) <=> InFront(wire, a, b)
    BY <1>1, <1>4, <2>1
  <2>3. Older(a, b)' <=> \/ Stage[job'[a].pc] > Stage[job'[b].pc]
                         \/ job'[a].pc = job'[b].pc /\ InFront(wire', a, b)
    BY DEF Older, InFront
  <2>4. QED
    BY <2>2, <2>3 DEF Older
<1>5. QED
  BY <1>1, <1>2, <1>3, <1>4

-----------------------------------------------------------------------------
(* The chain of verdicts when no tick comes or goes, when one ends, and    *)
(* when one starts.                                                        *)
SameTold(k) == \A n \in 1 .. Len(changes') :
                  LastTold(k, n)' => /\ n \in 1 .. Len(changes) /\ LastTold(k, n)
                                     /\ changes'[n].to = changes[n].to

LEMMA ChainFrame ==
    ASSUME NEW k, ChainOf(k), SameTold(k), Ticks(k)' = Ticks(k), lastRegime'[k] = lastRegime[k],
           \A a, b \in Ticks(k) : Older(a, b)' <=> Older(a, b),
           \A a \in Ticks(k) : job'[a].regime = job[a].regime /\ job'[a].prev = job[a].prev
    PROVE  ChainOf(k)'
<1>1. ASSUME NEW a \in Jobs, NEW b \in Jobs, Adjacent(k, a, b)'
      PROVE  Adjacent(k, a, b) /\ a \in Ticks(k) /\ b \in Ticks(k)
  BY <1>1 DEF Adjacent
<1>2. ASSUME NEW a \in Jobs, Youngest(k, a)' PROVE Youngest(k, a) /\ a \in Ticks(k)
  BY <1>2 DEF Youngest
<1>3. ASSUME NEW a \in Jobs, Oldest(k, a)' PROVE Oldest(k, a) /\ a \in Ticks(k)
  BY <1>3 DEF Oldest
<1>4. ASSUME NEW a \in Jobs, NEW b \in Jobs, Adjacent(k, a, b)'
      PROVE  job'[a].regime = job'[b].prev
  BY <1>1, <1>4 DEF ChainOf
<1>5. ASSUME NEW a \in Jobs, Youngest(k, a)' PROVE job'[a].regime = lastRegime'[k]
  BY <1>2, <1>5 DEF ChainOf
<1>6. ASSUME NEW n \in 1 .. Len(changes'), LastTold(k, n)'
      PROVE  /\ Ticks(k)' = {} => changes'[n].to = lastRegime'[k]
             /\ \A a \in Jobs : Oldest(k, a)' => changes'[n].to = job'[a].prev
  BY <1>3, <1>6 DEF ChainOf, SameTold
<1>7. QED
  BY <1>4, <1>5, <1>6 DEF ChainOf

(* Tick d ends.  Either it ends without a change, or it is the oldest and  *)
(* its change was told.                                                    *)
LEMMA ChainRemove ==
    ASSUME WireOK, NEW k, NEW d \in Ticks(k), ChainOf(k), lastRegime'[k] = lastRegime[k],
           Ticks(k)' = Ticks(k) \ {d},
           \A a, b \in Ticks(k) : a # d /\ b # d => (Older(a, b)' <=> Older(a, b)),
           \A a \in Ticks(k) : a # d => job'[a] = job[a],
           \A a \in Ticks(k) : Adjacent(k, a, d) => job[d].regime = job[d].prev,
           \A n \in 1 .. Len(changes') : LastTold(k, n)' =>
              \/ Oldest(k, d) /\ changes'[n].to = job[d].regime
              \/ /\ n \in 1 .. Len(changes) /\ LastTold(k, n) /\ changes'[n].to = changes[n].to
                 /\ Oldest(k, d) => changes[n].to = job[d].regime
    PROVE  ChainOf(k)'
<1> DEFINE T == Ticks(k)
<1>1. /\ T \subseteq Jobs /\ \A a \in T : ~Older(a, a)
      /\ \A a, b, c \in T : Older(a, b) /\ Older(b, c) => Older(a, c)
      /\ \A a, b \in T : Older(a, b) => ~Older(b, a)
      /\ \A a, b \in T : a # b => Older(a, b) \/ Older(b, a)
  BY OlderOrder DEF Ticks
<1>2. ASSUME NEW a \in Jobs, NEW b \in Jobs, Adjacent(k, a, b)'
      PROVE  /\ a \in T /\ b \in T /\ a # d /\ b # d
             /\ Adjacent(k, a, b) \/ (Adjacent(k, a, d) /\ Adjacent(k, d, b))
  <2>1. /\ a \in T /\ b \in T /\ a # d /\ b # d /\ Older(a, b)
        /\ \A c \in T : c # d => ~(Older(a, c) /\ Older(c, b))
    BY <1>2 DEF Adjacent
  <2>2. CASE Older(a, d) /\ Older(d, b)
    <3>1. \A c \in T : ~(Older(a, c) /\ Older(c, d))
      BY <1>1, <2>1, <2>2
    <3>2. \A c \in T : ~(Older(d, c) /\ Older(c, b))
      BY <1>1, <2>1, <2>2
    <3>3. QED
      BY <2>1, <2>2, <3>1, <3>2 DEF Adjacent
  <2>3. CASE ~(Older(a, d) /\ Older(d, b))
    BY <2>1, <2>3 DEF Adjacent
  <2>4. QED
    BY <2>1, <2>2, <2>3
<1>3. ASSUME NEW a \in Jobs, Youngest(k, a)'
      PROVE  /\ a \in T /\ a # d
             /\ Youngest(k, a) \/ (Youngest(k, d) /\ Adjacent(k, a, d))
  <2>1. a \in T /\ a # d /\ \A c \in T : c # d => ~Older(a, c)
    BY <1>3 DEF Youngest
  <2>2. CASE Older(a, d)
    <3>1. \A c \in T : ~Older(d, c)
      BY <1>1, <2>1, <2>2
    <3>2. \A c \in T : ~(Older(a, c) /\ Older(c, d))
      BY <1>1, <2>1, <2>2
    <3>3. QED
      BY <2>1, <2>2, <3>1, <3>2 DEF Youngest, Adjacent
  <2>3. CASE ~Older(a, d)
    BY <2>1, <2>3 DEF Youngest
  <2>4. QED
    BY <2>1, <2>2, <2>3
<1>4. ASSUME NEW a \in Jobs, Oldest(k, a)'
      PROVE  /\ a \in T /\ a # d
             /\ Oldest(k, a) \/ (Oldest(k, d) /\ Adjacent(k, d, a))
  <2>1. a \in T /\ a # d /\ \A c \in T : c # d => ~Older(c, a)
    BY <1>4 DEF Oldest
  <2>2. CASE Older(d, a)
    <3>1. \A c \in T : ~Older(c, d)
      BY <1>1, <2>1, <2>2
    <3>2. \A c \in T : ~(Older(d, c) /\ Older(c, a))
      BY <1>1, <2>1, <2>2
    <3>3. QED
      BY <2>1, <2>2, <3>1, <3>2 DEF Oldest, Adjacent
  <2>3. CASE ~Older(d, a)
    BY <2>1, <2>3 DEF Oldest
  <2>4. QED
    BY <2>1, <2>2, <2>3
<1>5. ASSUME NEW a \in Jobs, NEW b \in Jobs, Adjacent(k, a, b)'
      PROVE  job'[a].regime = job'[b].prev
  BY <1>1, <1>2, <1>5 DEF ChainOf
<1>6. ASSUME NEW a \in Jobs, Youngest(k, a)' PROVE job'[a].regime = lastRegime'[k]
  BY <1>1, <1>3, <1>6 DEF ChainOf
<1>7. ASSUME NEW n \in 1 .. Len(changes'), LastTold(k, n)', Ticks(k)' = {}
      PROVE  changes'[n].to = lastRegime'[k]
  <2>1. T = {d}
    BY <1>7
  <2>2. Oldest(k, d) /\ Youngest(k, d)
    BY <1>1, <2>1 DEF Oldest, Youngest
  <2>3. job[d].regime = lastRegime[k]
    BY <1>1, <2>2 DEF ChainOf
  <2>4. QED
    BY <1>7, <2>2, <2>3
<1>8. ASSUME NEW n \in 1 .. Len(changes'), LastTold(k, n)', NEW a \in Jobs, Oldest(k, a)'
      PROVE  changes'[n].to = job'[a].prev
  <2>1. CASE Oldest(k, d) /\ Adjacent(k, d, a)
    <3>1. job[d].regime = job[a].prev
      BY <1>1, <2>1 DEF ChainOf
    <3>2. QED
      BY <1>4, <1>8, <2>1, <3>1
  <2>2. CASE Oldest(k, a) /\ ~Oldest(k, d)
    BY <1>4, <1>8, <2>2 DEF ChainOf
  <2>3. CASE Oldest(k, a) /\ Oldest(k, d)
    BY <1>1, <1>4, <1>8, <2>3 DEF Oldest
  <2>4. QED
    BY <1>4, <1>8, <2>1, <2>2, <2>3
<1>9. QED
  BY <1>5, <1>6, <1>7, <1>8 DEF ChainOf

LEMMA ChainAppend ==
    ASSUME NEW k, NEW d \in Jobs, d \notin Ticks(k), ChainOf(k), SameTold(k),
           Ticks(k)' = Ticks(k) \cup {d},
           \A a, b \in Ticks(k) : Older(a, b)' <=> Older(a, b),
           \A a \in Ticks(k) : Older(a, d)' /\ ~Older(d, a)' /\ job'[a] = job[a],
           ~Older(d, d)',
           job'[d].prev = lastRegime[k], job'[d].regime = lastRegime'[k]
    PROVE  ChainOf(k)'
<1> DEFINE T == Ticks(k)
<1>1. T \subseteq Jobs
  BY DEF Ticks
<1>2. ASSUME NEW a \in Jobs, NEW b \in Jobs, Adjacent(k, a, b)'
      PROVE  a \in T /\ ((b \in T /\ Adjacent(k, a, b)) \/ (b = d /\ Youngest(k, a)))
  <2>1. /\ a \in T \cup {d} /\ b \in T \cup {d} /\ Older(a, b)'
        /\ \A c \in T : ~(Older(a, c)' /\ Older(c, b)')
    BY <1>2 DEF Adjacent
  <2>2. a \in T
    BY <2>1
  <2>3. CASE b = d
    BY <2>1, <2>2, <2>3 DEF Youngest
  <2>4. CASE b \in T
    BY <2>1, <2>2, <2>4 DEF Adjacent
  <2>5. QED
    BY <2>1, <2>2, <2>3, <2>4
<1>3. ASSUME NEW a \in Jobs, Youngest(k, a)' PROVE a = d
  BY <1>3 DEF Youngest
<1>4. ASSUME NEW a \in Jobs, Oldest(k, a)'
      PROVE  (a \in T /\ Oldest(k, a)) \/ (a = d /\ T = {})
  BY <1>4 DEF Oldest
<1>5. ASSUME NEW a \in Jobs, NEW b \in Jobs, Adjacent(k, a, b)'
      PROVE  job'[a].regime = job'[b].prev
  BY <1>1, <1>2, <1>5 DEF ChainOf
<1>6. ASSUME NEW a \in Jobs, Youngest(k, a)' PROVE job'[a].regime = lastRegime'[k]
  BY <1>3, <1>6
<1>7. ASSUME NEW n \in 1 .. Len(changes'), LastTold(k, n)'
      PROVE  /\ Ticks(k)' # {}
             /\ \A a \in Jobs : Oldest(k, a)' => changes'[n].to = job'[a].prev
  BY <1>4, <1>7 DEF ChainOf, SameTold
<1>8. QED
  BY <1>5, <1>6, <1>7 DEF ChainOf

-----------------------------------------------------------------------------
(* What the steps of a job do to the chain of a pair.                      *)
LEMMA TickFacts ==
    ASSUME ServiceInv, NEW j \in Jobs, job[j].pc \in TickPc
    PROVE  KeyOf(j) \in Pairs /\ job[j].pc \in RedisPc /\ \A k : j \in Ticks(k) <=> k = KeyOf(j)
<1>1. job[j].todo \in Seq(Pools) /\ job[j].todo # <<>>
  BY JobType, StageFacts DEF JobOK, JobState
<1>2. Head(job[j].todo) \in Pools
  BY <1>1
<1>3. QED
  BY <1>2, PoolFacts, StageFacts DEF KeyOf, Ticks

LEMMA MovesTold ==
    ASSUME ServiceInv, NEW j \in Jobs, NEW l \in GoodJob, Moves(j, l)
    PROVE  /\ WireOK /\ l \in JobState /\ Enters(j, l)
           /\ phase # "down" /\ phase' # "down" /\ boots' = boots
<1>1. Enters(j, l) /\ phase # "down" /\ phase' # "down"
  BY MovesEnter
<1>2. boots' = boots
  BY DEF Moves, Begun, Fire, Resumed, Resume, procVars, Replied
<1>3. QED
  BY <1>1, <1>2, TypeParts DEF ServiceInv, GoodJob

LEMMA ToldSame ==
    ASSUME NEW k, UNCHANGED <<changes, boots>>, phase' # "down" => phase # "down"
    PROVE  SameTold(k)
  BY DEF SameTold, LastTold

LEMMA ChainQuiet ==
    ASSUME ServiceInv, NEW j \in Jobs, NEW l \in GoodJob, Moves(j, l), NEW k, ChainOf(k),
           job[j].pc \notin TickPc, l.pc \notin TickPc, lastRegime'[k] = lastRegime[k],
           UNCHANGED changes
    PROVE  ChainOf(k)'
<1>1. /\ WireOK /\ l \in JobState /\ Enters(j, l)
      /\ phase # "down" /\ phase' # "down" /\ boots' = boots
  BY MovesTold
<1>2. SameTold(k)
  BY <1>1, ToldSame
<1>3. /\ j \notin Ticks(k) /\ j \notin Ticks(k)'
      /\ \A a \in Jobs : a # j => job'[a] = job[a]
      /\ \A a : a # j => (a \in Ticks(k)' <=> a \in Ticks(k))
      /\ \A a, b \in Ticks(k) : a # j /\ b # j => (Older(a, b)' <=> Older(a, b))
  BY <1>1, TicksStep DEF Ticks
<1>4. Ticks(k)' = Ticks(k) /\ \A a \in Ticks(k) : a \in Jobs /\ a # j
  BY <1>3 DEF Ticks
<1>5. QED
  BY <1>2, <1>3, <1>4, ChainFrame

LEMMA ChainPrice ==
    ASSUME ServiceInv, MemoryInv, NEW j \in Jobs, NEW l \in GoodJob, Begun(j, l),
           NEW k \in Pairs, TakesPrice(k, l), ChainOf(k)
    PROVE  ChainOf(k)'
<1>1. /\ WireOK /\ l \in JobState /\ Enters(j, l)
      /\ phase # "down" /\ phase' # "down" /\ boots' = boots /\ changes' = changes
  BY MovesTold DEF Moves, Begun, graphVars
<1>2. SameTold(k)
  BY <1>1, ToldSame
<1>3. job[j].pc = "idle"
  BY IdleGood DEF Begun, Fire, Free
<1>4. l.pc = "pair" /\ l.prev = lastRegime[k] /\ pairKey(Head(l.todo)) = k
  BY DEF TakesPrice
<1>5. j \notin Ticks(k)
  BY <1>3, StageFacts DEF Ticks
<1>6. /\ job'[j] = l /\ \A a \in Jobs : a # j => job'[a] = job[a]
      /\ \A a : a # j => (a \in Ticks(k)' <=> a \in Ticks(k))
      /\ j \in Ticks(k)'
      /\ \A a, b \in Ticks(k) : a # j /\ b # j => (Older(a, b)' <=> Older(a, b))
  BY <1>1, <1>4, TicksStep, StageFacts
<1>7. /\ Ticks(k)' = Ticks(k) \cup {j}
      /\ \A a \in Ticks(k) : a \in Jobs /\ a # j /\ job[a].pc \in TickPc
  BY <1>5, <1>6 DEF Ticks
<1>8. \A a \in Jobs : /\ a # j /\ job[a].pc \in RedisPc => InFront(wire', a, j)
                      /\ ~InFront(wire', j, a)
  BY <1>1, <1>4, StageFacts, EntersWire
<1>9. ASSUME NEW a \in Jobs, NEW b \in Jobs
      PROVE  Older(a, b)' <=> \/ Stage[job'[a].pc] > Stage[job'[b].pc]
                              \/ job'[a].pc = job'[b].pc /\ InFront(wire', a, b)
  BY DEF Older, InFront
<1>10. ASSUME NEW a \in Ticks(k) PROVE Older(a, j)' /\ ~Older(j, a)' /\ job'[a] = job[a]
  <2>1. job'[a] = job[a] /\ a \in Jobs /\ Stage[job[a].pc] \in 1 .. 3 /\ Stage[l.pc] = 1
    BY <1>4, <1>6, <1>7, StageOf
  <2>2. Stage[job[a].pc] = 1 => job[a].pc = l.pc
    BY <1>4, <1>7, <2>1, StageOf, StageFacts
  <2>3. InFront(wire', a, j) /\ ~InFront(wire', j, a)
    BY <1>7, <1>8, StageFacts
  <2>4. QED
    BY <1>6, <1>9, <2>1, <2>2, <2>3
<1>11. ~Older(j, j)'
  <2>1. Stage[l.pc] = 1
    BY <1>4, StageOf
  <2>2. QED
    BY <1>6, <1>8, <1>9, <2>1
<1>12. l.regime = lastRegime'[k]
  <2>1. /\ lastRegime'[k] = IF l.regime = "unknown" THEN lastRegime[k] ELSE l.regime
        /\ l.regime = "unknown" => series[k] < WARMUP
    BY PriceTaken, TypeParts DEF ServiceInv
  <2>2. l.regime = "unknown" => lastRegime[k] = "unknown"
    BY <2>1, ClassifierAssumption DEF MemoryInv, ClassifierAssumption
  <2>3. QED
    BY <2>1, <2>2
<1>13. job'[j].prev = lastRegime[k] /\ job'[j].regime = lastRegime'[k]
  BY <1>4, <1>6, <1>12
<1>14. QED
  BY <1>2, <1>5, <1>6, <1>7, <1>10, <1>11, <1>13, ChainAppend

(* A tick that goes on to its next step keeps its place in the order: it   *)
(* was the first on the wire and is now the last.                          *)
LEMMA OrderKept ==
    ASSUME WireOK, NEW k, NEW j \in Ticks(k), NEW l \in JobState, Enters(j, l), Answered(j),
           l.pc \in TickPc, Stage[l.pc] = Stage[job[j].pc] + 1
    PROVE  \A a, b \in Ticks(k) : Older(a, b)' <=> Older(a, b)
<1>1. /\ j \in Jobs /\ job[j].pc \in TickPc
      /\ \A a \in Ticks(k) : /\ a \in Jobs /\ job[a].pc \in TickPc /\ Sent(wire, a)
                             /\ Stage[job[a].pc] \in 1 .. 3
  BY StageOf, StageFacts DEF Ticks, WireOK
<1>2. /\ job'[j] = l /\ \A a \in Jobs : a # j => job'[a] = job[a]
      /\ \A a, b \in Ticks(k) : a # j /\ b # j => (Older(a, b)' <=> Older(a, b))
  BY <1>1, TicksStep
<1>3. \A a \in Jobs : /\ a # j /\ job[a].pc \in RedisPc => InFront(wire', a, j)
                      /\ ~InFront(wire', j, a)
  BY <1>1, StageFacts, EntersWire
<1>4. /\ \A a \in Jobs : ~InFront(wire, a, j)
      /\ \A b \in Jobs : b # j /\ Sent(wire, b) => InFront(wire, j, b)
  <2>1. wire # <<>> /\ Head(wire) = j /\ j # Quit
    BY <1>1, PcFacts DEF Answered
  <2>2. wire \in Seq(Jobs \cup {Quit}) /\ Once(wire)
    BY DEF WireOK
  <2>3. QED
    BY <2>1, <2>2, TailOfWire
<1>5. ASSUME NEW a \in Jobs, NEW b \in Jobs
      PROVE  Older(a, b)' <=> \/ Stage[job'[a].pc] > Stage[job'[b].pc]
                              \/ job'[a].pc = job'[b].pc /\ InFront(wire', a, b)
  BY DEF Older, InFront
<1>6. Stage[l.pc] \in 1 .. 3 /\ Stage[job[j].pc] \in 1 .. 3
  BY <1>1, StageOf
<1>7. ASSUME NEW b \in Ticks(k), b # j PROVE Older(j, b)' <=> Older(j, b)
  <2>1. b \in Jobs /\ job'[b] = job[b] /\ Stage[job[b].pc] \in 1 .. 3 /\ Sent(wire, b)
    BY <1>1, <1>2, <1>7
  <2>2. Older(j, b)' <=> Stage[l.pc] > Stage[job[b].pc]
    BY <1>1, <1>2, <1>3, <1>5, <2>1
  <2>3. InFront(wire, j, b)
    BY <1>4, <1>7, <2>1
  <2>4. Older(j, b) <=> Stage[job[j].pc] > Stage[job[b].pc] \/ job[j].pc = job[b].pc
    BY <2>3 DEF Older
  <2>5. Stage[job[j].pc] = Stage[job[b].pc] => job[j].pc = job[b].pc
    BY <1>1, StageOf
  <2>6. QED
    BY <1>6, <2>1, <2>2, <2>4, <2>5
<1>8. ASSUME NEW a \in Ticks(k), a # j PROVE Older(a, j)' <=> Older(a, j)
  <2>1. a \in Jobs /\ job'[a] = job[a] /\ Stage[job[a].pc] \in 1 .. 3 /\ job[a].pc \in RedisPc
    BY <1>1, <1>2, <1>8, StageFacts
  <2>2. InFront(wire', a, j)
    BY <1>3, <1>8, <2>1
  <2>3. Older(a, j)' <=> Stage[job[a].pc] > Stage[l.pc] \/ job[a].pc = l.pc
    BY <1>1, <1>2, <1>5, <2>1, <2>2
  <2>4. Stage[job[a].pc] = Stage[l.pc] => job[a].pc = l.pc
    BY <1>1, StageOf
  <2>5. Older(a, j) <=> Stage[job[a].pc] > Stage[job[j].pc]
    BY <1>1, <1>4, <2>1 DEF Older
  <2>6. QED
    BY <1>6, <2>1, <2>3, <2>4, <2>5
<1>9. ~Older(j, j)' /\ ~Older(j, j)
  BY <1>1, <1>2, <1>3, <1>4, <1>5, <1>6 DEF Older
<1>10. QED
  BY <1>2, <1>7, <1>8, <1>9

LEMMA ChainGoesOn ==
    ASSUME ServiceInv, NEW j \in Jobs, NEW l \in GoodJob, Replied(j, l), NEW k, ChainOf(k),
           job[j].pc \in TickPc, NEW pc \in TickPc, l = To(j, pc),
           Stage[pc] = Stage[job[j].pc] + 1, UNCHANGED changes
    PROVE  ChainOf(k)'
<1>1. /\ WireOK /\ l \in JobState /\ Enters(j, l) /\ Answered(j)
      /\ phase # "down" /\ phase' # "down" /\ boots' = boots
      /\ lastRegime' = lastRegime
  BY MovesTold DEF Moves, Replied, Reply, regimeVars
<1>2. SameTold(k)
  BY <1>1, ToldSame
<1>3. l.pc = pc /\ l.todo = job[j].todo /\ l.regime = job[j].regime /\ l.prev = job[j].prev
  BY ToType, PcTypes, StageFacts
<1>4. /\ job'[j] = l /\ \A a \in Jobs : a # j => job'[a] = job[a]
      /\ \A a : a # j => (a \in Ticks(k)' <=> a \in Ticks(k))
      /\ j \in Ticks(k)' <=> l.pc \in TickPc /\ pairKey(Head(l.todo)) = k
      /\ \A a, b \in Ticks(k) : a # j /\ b # j => (Older(a, b)' <=> Older(a, b))
  BY <1>1, TicksStep
<1>5. Ticks(k)' = Ticks(k)
  <2>1. j \in Ticks(k)' <=> j \in Ticks(k)
    BY <1>3, <1>4 DEF Ticks, KeyOf
  <2>2. QED
    BY <1>4, <2>1
<1>6. \A a \in Ticks(k) : job'[a].regime = job[a].regime /\ job'[a].prev = job[a].prev
  BY <1>3, <1>4 DEF Ticks
<1>7. \A a, b \in Ticks(k) : Older(a, b)' <=> Older(a, b)
  <2>1. CASE j \in Ticks(k)
    BY <1>1, <1>3, <2>1, OrderKept
  <2>2. CASE j \notin Ticks(k)
    BY <1>4, <2>2
  <2>3. QED
    BY <2>1, <2>2
<1>8. QED
  BY <1>1, <1>2, <1>5, <1>6, <1>7, ChainFrame

(* The first on the wire is the oldest of its pair at its step.            *)
LEMMA HeadOldest ==
    ASSUME WireOK, NEW k, NEW j \in Ticks(k), Answered(j), NEW a \in Ticks(k), Older(a, j)
    PROVE  Stage[job[a].pc] > Stage[job[j].pc]
<1>1. wire # <<>> /\ Head(wire) = j /\ j \in Jobs /\ a \in Jobs /\ j # Quit
  BY PcFacts DEF Answered, Ticks
<1>2. wire \in Seq(Jobs \cup {Quit}) /\ Once(wire)
  BY DEF WireOK
<1>3. ~InFront(wire, a, j)
  BY <1>1, <1>2, TailOfWire
<1>4. QED
  BY <1>3 DEF Older

(* A verdict that is no change is the one before, unless that one is       *)
(* unknown; and then no older tick and no change told says otherwise.      *)
LEMMA Unchanged ==
    ASSUME ServiceInv, TickInv, ToldInv, NEW k, ChainOf(k), NEW j \in Ticks(k), Answered(j),
           job[j].pc = "tick", ~Changed(job[j])
    PROVE  /\ \A a \in Ticks(k) : Adjacent(k, a, j) => job[j].regime = job[j].prev
           /\ \A n \in 1 .. Len(changes) :
                 LastTold(k, n) /\ Oldest(k, j) => changes[n].to = job[j].regime
<1>1. WireOK /\ j \in Jobs /\ job[j].pc \in TickPc
  BY TypeParts DEF ServiceInv, Ticks
<1>2. job[j].regime = job[j].prev \/ job[j].prev = "unknown"
  BY <1>1 DEF Changed, TickInv
<1>3. ASSUME NEW a \in Ticks(k), Adjacent(k, a, j) PROVE job[j].regime = job[j].prev
  <2>1. a \in Jobs /\ Older(a, j) /\ job[a].regime = job[j].prev
    BY <1>1, <1>3 DEF Adjacent, ChainOf, Ticks
  <2>2. Stage[job[a].pc] > 2 /\ job[a].pc \in TickPc
    BY <1>1, <2>1, HeadOldest, StageOf DEF Ticks
  <2>3. job[a].pc = "change"
    BY <2>2, StageOf, StageFacts
  <2>4. job[a].regime # "unknown"
    BY <2>1, <2>3 DEF TickInv, Changed
  <2>5. QED
    BY <1>2, <2>1, <2>4
<1>4. ASSUME NEW n \in 1 .. Len(changes), LastTold(k, n), Oldest(k, j)
      PROVE  changes[n].to = job[j].regime
  <2>1. changes[n].to = job[j].prev /\ changes[n].to # "unknown"
    BY <1>1, <1>4 DEF ChainOf, ToldInv
  <2>2. QED
    BY <1>2, <2>1
<1>5. QED
  BY <1>3, <1>4

(* What is told of pair k when a change is appended to the stream.         *)
LEMMA ToldNext ==
    ASSUME GraphTypeOK, NEW c, changes' = Append(changes, c), boots' = boots,
           phase' # "down" => phase # "down", NEW k
    PROVE  /\ Len(changes') = Len(changes) + 1 /\ Len(changes) \in Nat
           /\ changes'[Len(changes) + 1] = c
           /\ \A n \in 1 .. Len(changes) : changes'[n] = changes[n]
           /\ \A n \in 1 .. Len(changes') :
                 LastTold(k, n)' => IF c.pair = k THEN n = Len(changes) + 1
                                    ELSE n \in 1 .. Len(changes) /\ LastTold(k, n)
<1>1. /\ Len(changes) \in Nat /\ Len(changes') = Len(changes) + 1
      /\ changes'[Len(changes) + 1] = c
      /\ \A n \in 1 .. Len(changes) : changes'[n] = changes[n]
  BY DEF GraphTypeOK
<1>2. ASSUME NEW n \in 1 .. Len(changes'), LastTold(k, n)'
      PROVE  IF c.pair = k THEN n = Len(changes) + 1
             ELSE n \in 1 .. Len(changes) /\ LastTold(k, n)
  <2>1. /\ phase' # "down" /\ changes'[n].pair = k /\ changes'[n].run = boots'
        /\ \A m \in 1 .. Len(changes') : m > n => changes'[m].pair # k
    BY <1>2 DEF LastTold
  <2>2. CASE c.pair = k
    BY <1>1, <2>1, <2>2
  <2>3. CASE c.pair # k
    <3>1. n \in 1 .. Len(changes)
      BY <1>1, <2>1, <2>3
    <3>2. changes[n].pair = k /\ changes[n].run = boots
      BY <1>1, <2>1, <3>1
    <3>3. \A m \in 1 .. Len(changes) : m > n => changes[m].pair # k
      BY <1>1, <2>1
    <3>4. QED
      BY <2>1, <2>3, <3>1, <3>2, <3>3 DEF LastTold
  <2>4. QED
    BY <2>2, <2>3
<1>3. QED
  BY <1>1, <1>2

LEMMA ChangeOldest ==
    ASSUME WireOK, NEW k, NEW j \in Ticks(k), Answered(j), job[j].pc = "change"
    PROVE  Oldest(k, j)
<1>1. ASSUME NEW b \in Ticks(k), Older(b, j) PROVE FALSE
  <2>1. Stage[job[b].pc] > 3 /\ job[b].pc \in TickPc
    BY <1>1, HeadOldest, StageOf DEF Ticks
  <2>2. QED
    BY <2>1, StageOf
<1>2. QED
  BY <1>1 DEF Oldest

LEMMA ChainEnds ==
    ASSUME ServiceInv, TickInv, ToldInv, NEW j \in Jobs, NEW l \in GoodJob, Replied(j, l),
           NEW k, ChainOf(k), l.pc \notin TickPc,
           \/ job[j].pc = "tick" /\ ~Changed(job[j]) /\ UNCHANGED changes
           \/ /\ job[j].pc = "change"
              /\ changes' = Append(changes, [pair |-> KeyOf(j), from |-> job[j].prev,
                                             to |-> job[j].regime, run |-> boots])
    PROVE  ChainOf(k)'
<1>1. /\ WireOK /\ l \in JobState /\ Enters(j, l) /\ Answered(j) /\ GraphTypeOK
      /\ phase # "down" /\ phase' # "down" /\ boots' = boots
      /\ lastRegime' = lastRegime
  BY MovesTold, TypeParts DEF Moves, Replied, Reply, regimeVars, ServiceInv
<1>2. /\ job'[j] = l /\ \A a \in Jobs : a # j => job'[a] = job[a]
      /\ \A a : a # j => (a \in Ticks(k)' <=> a \in Ticks(k))
      /\ j \notin Ticks(k)'
      /\ \A a, b \in Ticks(k) : a # j /\ b # j => (Older(a, b)' <=> Older(a, b))
  BY <1>1, TicksStep
<1>3. /\ Ticks(k) \subseteq Jobs
      /\ Ticks(k)' = Ticks(k) \ {j}
      /\ \A a \in Ticks(k) : a # j => job'[a] = job[a]
  BY <1>2 DEF Ticks
<1>4. job[j].pc \in TickPc /\ (KeyOf(j) = k <=> j \in Ticks(k))
  BY TickFacts, StageFacts
<1>5. CASE job[j].pc = "tick" /\ ~Changed(job[j]) /\ UNCHANGED changes
  <2>1. SameTold(k)
    BY <1>1, <1>5, ToldSame
  <2>2. CASE j \notin Ticks(k)
    BY <1>2, <1>3, <1>1, <2>1, <2>2, ChainFrame
  <2>3. CASE j \in Ticks(k)
    <3>1. /\ \A a \in Ticks(k) : Adjacent(k, a, j) => job[j].regime = job[j].prev
          /\ \A n \in 1 .. Len(changes) :
                LastTold(k, n) /\ Oldest(k, j) => changes[n].to = job[j].regime
      BY <1>1, <1>5, <2>3, Unchanged
    <3>2. \A n \in 1 .. Len(changes') : LastTold(k, n)' =>
             \/ Oldest(k, j) /\ changes'[n].to = job[j].regime
             \/ /\ n \in 1 .. Len(changes) /\ LastTold(k, n) /\ changes'[n].to = changes[n].to
                /\ Oldest(k, j) => changes[n].to = job[j].regime
      BY <2>1, <3>1 DEF SameTold
    <3>3. QED
      BY <1>1, <1>2, <1>3, <2>3, <3>1, <3>2, ChainRemove
  <2>4. QED
    BY <2>2, <2>3
<1>6. ASSUME job[j].pc = "change",
             NEW c, c.pair = KeyOf(j), c.to = job[j].regime, changes' = Append(changes, c)
      PROVE  ChainOf(k)'
  <2>1. /\ Len(changes') = Len(changes) + 1 /\ Len(changes) \in Nat
        /\ changes'[Len(changes) + 1] = c
        /\ \A n \in 1 .. Len(changes) : changes'[n] = changes[n]
        /\ \A n \in 1 .. Len(changes') :
              LastTold(k, n)' => IF c.pair = k THEN n = Len(changes) + 1
                                 ELSE n \in 1 .. Len(changes) /\ LastTold(k, n)
    BY <1>1, <1>6, ToldNext
  <2>2. CASE j \notin Ticks(k)
    <3>1. SameTold(k)
      BY <1>4, <1>6, <2>1, <2>2 DEF SameTold
    <3>2. QED
      BY <1>2, <1>3, <1>1, <2>2, <3>1, ChainFrame
  <2>3. CASE j \in Ticks(k)
    <3>1. Oldest(k, j)
      BY <1>1, <1>6, <2>3, ChangeOldest
    <3>2. \A a \in Ticks(k) : ~Adjacent(k, a, j)
      BY <3>1 DEF Oldest, Adjacent
    <3>3. \A n \in 1 .. Len(changes') : LastTold(k, n)' =>
             Oldest(k, j) /\ changes'[n].to = job[j].regime
      BY <1>4, <1>6, <2>1, <2>3, <3>1
    <3>4. QED
      BY <1>1, <1>2, <1>3, <2>3, <3>2, <3>3, ChainRemove
  <2>4. QED
    BY <2>2, <2>3
<1>7. CASE /\ job[j].pc = "change"
           /\ changes' = Append(changes, [pair |-> KeyOf(j), from |-> job[j].prev,
                                          to |-> job[j].regime, run |-> boots])
  <2>1. PICK c : c = [pair |-> KeyOf(j), from |-> job[j].prev, to |-> job[j].regime, run |-> boots]
    OBVIOUS
  <2>2. c.pair = KeyOf(j) /\ c.to = job[j].regime
    BY <2>1
  <2>3. QED
    BY <1>6, <1>7, <2>1, <2>2
<1>8. QED
  BY <1>5, <1>7

LEMMA MovesChain ==
    ASSUME ServiceInv, RegimeInv, NEW j \in Jobs, NEW l \in GoodJob, Moves(j, l), NEW k \in Pairs
    PROVE  ChainOf(k)'
<1>1. MemoryInv /\ TickInv /\ ToldInv /\ ChainOf(k)
  BY DEF RegimeInv, ChainInv
<1>2. CASE Begun(j, l)
  <2>1. job[j].pc \notin TickPc /\ UNCHANGED changes
    BY <1>2, IdleGood, StageFacts DEF Begun, Fire, Free, graphVars
  <2>2. CASE l.pc \notin TickPc /\ UNCHANGED regimeVars
    BY <1>1, <2>1, <2>2, ChainQuiet DEF regimeVars
  <2>3. ASSUME NEW m \in Pairs, TakesPrice(m, l) PROVE ChainOf(k)'
    <3>1. CASE m = k
      BY <1>1, <1>2, <2>3, <3>1, ChainPrice
    <3>2. CASE m # k
      <4>1. /\ WireOK /\ l \in JobState /\ Enters(j, l)
            /\ phase # "down" /\ phase' # "down" /\ boots' = boots
        BY MovesTold
      <4>2. SameTold(k)
        BY <2>1, <4>1, ToldSame
      <4>3. l.pc = "pair" /\ pairKey(Head(l.todo)) = m /\ lastRegime'[k] = lastRegime[k]
        BY <2>3, <3>2, PriceTaken, TypeParts DEF TakesPrice, ServiceInv
      <4>4. /\ j \notin Ticks(k)
            /\ \A a \in Jobs : a # j => job'[a] = job[a]
            /\ \A a : a # j => (a \in Ticks(k)' <=> a \in Ticks(k))
            /\ j \notin Ticks(k)'
            /\ \A a, b \in Ticks(k) : a # j /\ b # j => (Older(a, b)' <=> Older(a, b))
        <5>1. j \notin Ticks(k)
          BY <2>1 DEF Ticks
        <5>2. QED
          BY <3>2, <4>1, <4>3, <5>1, TicksStep
      <4>5. Ticks(k)' = Ticks(k) /\ \A a \in Ticks(k) : a \in Jobs /\ a # j
        BY <4>4 DEF Ticks
      <4>6. QED
        BY <1>1, <4>2, <4>3, <4>4, <4>5, ChainFrame
    <3>3. QED
      BY <3>1, <3>2
  <2>4. QED
    BY <1>2, <2>2, <2>3 DEF Begun
<1>3. CASE Resumed(j, l)
  BY <1>1, <1>3, PcTypes, ChainQuiet DEF Resumed, graphVars, regimeVars
<1>4. CASE Replied(j, l)
  <2>1. lastRegime' = lastRegime /\ TickStep(j, l)
    BY <1>4 DEF Replied, regimeVars
  <2>2. CASE job[j].pc \notin TickPc /\ l.pc \notin TickPc /\ UNCHANGED changes
    BY <1>1, <2>1, <2>2, ChainQuiet
  <2>3. CASE job[j].pc = "pair" /\ l = To(j, "tick") /\ UNCHANGED changes
    <3>1. Stage["tick"] = Stage[job[j].pc] + 1 /\ job[j].pc \in TickPc /\ "tick" \in TickPc
      BY <2>3, StageOf, StageFacts
    <3>2. QED
      BY <1>1, <1>4, <2>3, <3>1, ChainGoesOn
  <2>4. CASE job[j].pc = "tick" /\ l = To(j, "change") /\ UNCHANGED changes
    <3>1. Stage["change"] = Stage[job[j].pc] + 1 /\ job[j].pc \in TickPc /\ "change" \in TickPc
      BY <2>4, StageOf, StageFacts
    <3>2. QED
      BY <1>1, <1>4, <2>4, <3>1, ChainGoesOn
  <2>5. CASE job[j].pc = "tick" /\ ~Changed(job[j]) /\ l.pc \notin TickPc /\ UNCHANGED changes
    BY <1>1, <1>4, <2>5, ChainEnds
  <2>6. CASE /\ job[j].pc = "change" /\ l.pc \notin TickPc
             /\ changes' = Append(changes, [pair |-> KeyOf(j), from |-> job[j].prev,
                                            to |-> job[j].regime, run |-> boots])
    BY <1>1, <1>4, <2>6, ChainEnds
  <2>7. QED
    BY <2>1, <2>2, <2>3, <2>4, <2>5, <2>6 DEF TickStep
<1>5. QED
  BY <1>2, <1>3, <1>4 DEF Moves

(* What a step of a job does to the memory, to the ticks' verdicts and to  *)
(* what is told.                                                           *)
LEMMA MovesVerdicts ==
    ASSUME ServiceInv, RegimeInv, NEW j \in Jobs, NEW l \in GoodJob, Moves(j, l)
    PROVE  MemoryInv' /\ TickInv' /\ ToldInv'
<1>1. MemoryInv /\ TickInv /\ ToldInv
  BY DEF RegimeInv
<1>2. /\ WireOK /\ l \in JobState /\ Enters(j, l) /\ boots' = boots /\ boots \in Nat
      /\ RegimeTypeOK /\ GraphTypeOK
  BY MovesTold, TypeParts, IngestionAssumption DEF ServiceInv, EnvOK, IngestionAssumption
<1>3. job'[j] = l /\ \A a \in Jobs : a # j => job'[a] = job[a]
  BY <1>2, EntersWire
<1>4. ASSUME UNCHANGED regimeVars PROVE MemoryInv'
  BY <1>1, <1>4 DEF MemoryInv, regimeVars
<1>5. ASSUME UNCHANGED changes PROVE ToldInv'
  BY <1>1, <1>2, <1>5 DEF ToldInv
<1>6. ASSUME l.pc \in TickPc /\ l.regime = "unknown" => l.prev = "unknown",
             l.pc = "change" => Changed(l)
      PROVE  TickInv'
  BY <1>1, <1>3, <1>6 DEF TickInv
<1>7. CASE Begun(j, l)
  <2>1. CASE l.pc \notin TickPc /\ UNCHANGED regimeVars
    BY <1>4, <1>5, <1>6, <1>7, <2>1, StageFacts DEF Begun, graphVars
  <2>2. ASSUME NEW k \in Pairs, TakesPrice(k, l) PROVE MemoryInv' /\ TickInv' /\ ToldInv'
    <3>1. /\ \A m \in Pairs : m # k => series'[m] = series[m] /\ lastRegime'[m] = lastRegime[m]
          /\ lastRegime'[k] = IF l.regime = "unknown" THEN lastRegime[k] ELSE l.regime
          /\ l.regime = "unknown" => series[k] < WARMUP
          /\ l.regime # "unknown" => series'[k] = WARMUP
          /\ series[k] = WARMUP => series'[k] = WARMUP
      BY <1>2, <2>2, PriceTaken
    <3>2. MemoryInv'
      BY <1>1, <3>1 DEF MemoryInv
    <3>3. l.regime = "unknown" => lastRegime[k] = "unknown"
      BY <1>1, <3>1, ClassifierAssumption DEF MemoryInv, ClassifierAssumption
    <3>4. l.pc = "pair" /\ l.prev = lastRegime[k]
      BY <2>2 DEF TakesPrice
    <3>5. QED
      BY <1>5, <1>6, <1>7, <3>2, <3>3, <3>4 DEF Begun, graphVars
  <2>3. QED
    BY <1>7, <2>1, <2>2 DEF Begun
<1>8. CASE Resumed(j, l)
  BY <1>4, <1>5, <1>6, <1>8, StageFacts DEF Resumed, graphVars
<1>9. CASE Replied(j, l)
  <2>1. MemoryInv'
    BY <1>4, <1>9 DEF Replied
  <2>2. ASSUME NEW pc \in TickPc, l = To(j, pc), job[j].pc \in TickPc,
               pc = "change" => Changed(job[j])
        PROVE  TickInv'
    <3>1. l.pc = pc /\ l.regime = job[j].regime /\ l.prev = job[j].prev
      BY <2>2, ToType, PcTypes, StageFacts
    <3>2. QED
      BY <1>1, <1>6, <2>2, <3>1 DEF TickInv, Changed
  <2>3. ASSUME l.pc \notin TickPc PROVE TickInv'
    BY <1>6, <2>3, StageFacts
  <2>4. CASE job[j].pc \notin TickPc /\ l.pc \notin TickPc /\ UNCHANGED changes
    BY <1>5, <2>1, <2>3, <2>4
  <2>5. CASE job[j].pc = "pair" /\ l = To(j, "tick") /\ UNCHANGED changes
    BY <1>5, <2>1, <2>2, <2>5, StageFacts
  <2>6. CASE job[j].pc = "tick" /\ Changed(job[j]) /\ l = To(j, "change") /\ UNCHANGED changes
    BY <1>5, <2>1, <2>2, <2>6, StageFacts
  <2>7. CASE job[j].pc = "tick" /\ l.pc \notin TickPc /\ UNCHANGED changes
    BY <1>5, <2>1, <2>3, <2>7
  <2>8. CASE /\ job[j].pc = "change" /\ l.pc \notin TickPc
             /\ changes' = Append(changes, [pair |-> KeyOf(j), from |-> job[j].prev,
                                            to |-> job[j].regime, run |-> boots])
    <3>1. PICK c : c = [pair |-> KeyOf(j), from |-> job[j].prev, to |-> job[j].regime, run |-> boots]
      OBVIOUS
    <3>2. c.run = boots /\ c.to # "unknown"
      BY <1>1, <2>8, <3>1 DEF TickInv, Changed
    <3>3. /\ Len(changes) \in Nat /\ Len(changes') = Len(changes) + 1
          /\ changes'[Len(changes) + 1] = c
          /\ \A n \in 1 .. Len(changes) : changes'[n] = changes[n]
      BY <1>2, <2>8, <3>1 DEF GraphTypeOK
    <3>4. ToldInv'
      BY <1>1, <1>2, <3>2, <3>3 DEF ToldInv
    <3>5. QED
      BY <2>1, <2>3, <2>8, <3>4
  <2>9. QED
    BY <1>9, <2>4, <2>5, <2>6, <2>7, <2>8 DEF Replied, TickStep
<1>10. QED
  BY <1>7, <1>8, <1>9 DEF Moves

(* Steps of others than the jobs.                                          *)
LEMMA ChainStill ==
    ASSUME UNCHANGED <<job, changes, lastRegime, boots>>, phase' # "down" => phase # "down",
           \A a, b \in Jobs : InFront(wire', a, b) <=> InFront(wire, a, b),
           NEW k, ChainOf(k)
    PROVE  ChainOf(k)'
<1>1. SameTold(k)
  BY ToldSame
<1>2. Ticks(k)' = Ticks(k)
  BY DEF Ticks, KeyOf
<1>3. \A a, b \in Ticks(k) : Older(a, b)' <=> Older(a, b)
  <2>1. ASSUME NEW a \in Ticks(k), NEW b \in Ticks(k) PROVE Older(a, b)' <=> Older(a, b)
    <3>1. Older(a, b)' <=> \/ Stage[job'[a].pc] > Stage[job'[b].pc]
                           \/ job'[a].pc = job'[b].pc /\ InFront(wire', a, b)
      BY DEF Older, InFront
    <3>2. QED
      BY <3>1 DEF Older, Ticks
  <2>2. QED
    BY <2>1
<1>4. QED
  BY <1>1, <1>2, <1>3, ChainFrame

LEMMA RegimeInit == Init => RegimeInv
<1> SUFFICES ASSUME Init PROVE RegimeInv
  OBVIOUS
<1>1. \A j \in Jobs : job[j].pc = "idle"
  BY IdleGood DEF Init
<1>2. Len(changes) = 0 /\ \A k \in Pairs : lastRegime[k] = "unknown"
  BY DEF Init, GraphInit, Forgotten
<1>3. \A k : Ticks(k) = {}
  BY <1>1, StageFacts DEF Ticks
<1>4. MemoryInv /\ TickInv /\ ToldInv
  BY <1>1, <1>2, StageFacts DEF MemoryInv, TickInv, ToldInv
<1>5. ASSUME NEW k \in Pairs PROVE ChainOf(k)
  BY <1>2, <1>3 DEF ChainOf, Adjacent, Youngest
<1>6. QED
  BY <1>4, <1>5 DEF RegimeInv, ChainInv

LEMMA RegimeNext == ServiceInv /\ RegimeInv /\ [Next]_vars => RegimeInv'
<1> SUFFICES ASSUME ServiceInv, RegimeInv, [Next]_vars PROVE RegimeInv'
  OBVIOUS
<1>1. /\ MemoryInv /\ TickInv /\ ToldInv /\ WireOK /\ boots \in Nat /\ GraphTypeOK
      /\ \A k \in Pairs : ChainOf(k)
  BY TypeParts, IngestionAssumption
  DEF RegimeInv, ChainInv, ServiceInv, EnvOK, IngestionAssumption
<1>runs. \A n \in 1 .. Len(changes) : changes[n].run \in Nat
  <2>1. \A c \in RegimeChange : c.run \in Nat
    BY DEF RegimeChange
  <2>2. changes \in Seq(RegimeChange)
    BY <1>1 DEF GraphTypeOK
  <2>3. \A n \in 1 .. Len(changes) : changes[n] \in RegimeChange
    BY <2>2
  <2>4. QED
    BY <2>1, <2>3
<1>2. ASSUME NEW j \in Jobs, NEW l \in GoodJob, Moves(j, l) PROVE RegimeInv'
  <2>1. \A k \in Pairs : ChainOf(k)'
    BY <1>2, MovesChain
  <2>2. QED
    BY <1>2, <2>1, MovesVerdicts DEF RegimeInv, ChainInv
<1>3. ASSUME UNCHANGED <<job, changes, regimeVars, boots>>, phase' # "down" => phase # "down",
             \A a, b \in Jobs : InFront(wire', a, b) <=> InFront(wire, a, b)
      PROVE  RegimeInv'
  <2>1. \A k \in Pairs : ChainOf(k)'
    BY <1>1, <1>3, ChainStill DEF regimeVars
  <2>2. MemoryInv' /\ TickInv' /\ ToldInv'
    BY <1>1, <1>3 DEF MemoryInv, TickInv, ToldInv, regimeVars
  <2>3. QED
    BY <2>1, <2>2 DEF RegimeInv, ChainInv
<1>4. CASE NewBlock \/ PaperExecutor \/ UNCHANGED vars
  <2>1. UNCHANGED <<job, wire, changes, regimeVars, boots, phase>>
    BY <1>4 DEF NewBlock, PaperExecutor, PaperTrade, vars, graphVars, procVars, jobVars
  <2>2. QED
    BY <1>3, <2>1
<1>5. CASE Quits
  <2>1. \A a, b \in Jobs : InFront(wire', a, b) <=> InFront(wire, a, b)
    BY <1>1, <1>5, AppendWire, PcFacts DEF Quits, WireOK
  <2>2. QED
    BY <1>3, <1>5, <2>1 DEF Quits, graphVars
<1>6. ASSUME \A a \in Jobs : job'[a].pc \notin TickPc, Len(changes') = Len(changes),
             \A n \in 1 .. Len(changes) : changes'[n] = changes[n],
             boots' >= boots, boots' \in Nat, MemoryInv',
             \A k \in Pairs, n \in 1 .. Len(changes) : ~LastTold(k, n)'
      PROVE  RegimeInv'
  <2>1. \A k : Ticks(k)' = {}
    BY <1>6 DEF Ticks
  <2>2. \A k \in Pairs : ChainOf(k)'
    BY <1>6, <2>1 DEF ChainOf, Adjacent, Youngest
  <2>3. TickInv'
    BY <1>6, StageFacts DEF TickInv
  <2>4. ToldInv'
    BY <1>1, <1>runs, <1>6 DEF ToldInv
  <2>5. QED
    BY <1>6, <2>2, <2>3, <2>4 DEF RegimeInv, ChainInv
<1>7. CASE Start
  <2>1. /\ Enters(1, RefreshCatalog) /\ 1 \in Jobs /\ RefreshCatalog \in JobState
        /\ RefreshCatalog.pc \in {"subgraph", "entries"} /\ phase = "down"
    BY <1>7, StartEnters DEF Start, GoodJob
  <2>2. UNCHANGED <<changes, regimeVars>> /\ boots' = boots + 1
    BY <1>7 DEF Start, graphVars
  <2>3. \A a \in Jobs : job[a].pc = "idle"
    BY <2>1, IdleGood DEF ServiceInv, DownInv
  <2>4. job'[1] = RefreshCatalog /\ \A a \in Jobs : a # 1 => job'[a] = job[a]
    BY <1>1, <2>1, EntersWire
  <2>5. \A a \in Jobs : job'[a].pc \notin TickPc
    BY <2>1, <2>3, <2>4, StageFacts
  <2>6. \A k \in Pairs, n \in 1 .. Len(changes) : ~LastTold(k, n)'
    <3>1. ASSUME NEW n \in 1 .. Len(changes) PROVE changes'[n].run # boots'
      BY <1>1, <1>runs, <2>2 DEF ToldInv
    <3>2. QED
      BY <3>1 DEF LastTold
  <2>7. MemoryInv'
    BY <1>1, <2>2 DEF MemoryInv, regimeVars
  <2>8. boots' >= boots /\ boots' \in Nat
    BY <1>1, <2>2
  <2>9. QED
    BY <1>6, <2>2, <2>5, <2>6, <2>7, <2>8
<1>8. ASSUME NEW why \in {"redis", "database", "stop"}, Die(why) PROVE RegimeInv'
  <2>1. /\ job' = [j \in Jobs |-> Idle] /\ phase' = "down" /\ UNCHANGED <<changes, boots>>
        /\ lastRegime' = [k \in Pairs |-> "unknown"]
    BY <1>8 DEF Die, Forget, graphVars
  <2>2. \A a \in Jobs : job'[a].pc \notin TickPc
    BY <2>1, IdleGood, StageFacts
  <2>3. MemoryInv'
    BY <2>1 DEF MemoryInv
  <2>4. boots' >= boots /\ boots' \in Nat
    BY <1>1, <2>1
  <2>5. QED
    BY <1>6, <2>1, <2>2, <2>3, <2>4 DEF LastTold
<1>9. QED
  BY <1>2, <1>4, <1>5, <1>7, <1>8, NextShape

(* From the last regime change told, over the ticks under way from the     *)
(* oldest to the youngest, to the verdict remembered, each verdict is the  *)
(* one the next starts from (rpcWs.ts:60-100).                             *)
THEOREM RegimeInvariant == Spec => []RegimeInv
<1>1. QED
  BY RegimeInit, RegimeNext, ServiceCorrect, PTL DEF Spec

-----------------------------------------------------------------------------
(* What Redis has of a pair is what the service remembers of it.           *)
LEMMA LastWritten ==
    ASSUME ServiceInv, NEW k \in Pairs, ChainOf(k), NEW j \in Jobs, job[j].pc = "pair",
           KeyOf(j) = k, \A b \in Jobs : b # j /\ job[b].pc = "pair" => KeyOf(b) # k
    PROVE  job[j].regime = lastRegime[k]
<1>1. j \in Ticks(k) /\ WireOK
  BY StageFacts, TypeParts DEF Ticks, ServiceInv
<1>2. ASSUME NEW b \in Ticks(k), Older(j, b) PROVE FALSE
  <2>1. b # j
    BY <1>1, <1>2, OlderOrder
  <2>2. b \in Jobs /\ job[b].pc \in TickPc /\ job[b].pc # "pair"
    BY <2>1 DEF Ticks
  <2>3. Stage[job[b].pc] \in 1 .. 3 /\ Stage["pair"] = 1
    BY <2>2, StageOf
  <2>4. QED
    BY <1>2, <2>2, <2>3 DEF Older
<1>3. QED
  BY <1>1, <1>2 DEF Youngest, ChainOf

LEMMA PairsNext ==
    ServiceInv /\ RegimeInv /\ PairMirrorsMemory /\ [Next]_vars => PairMirrorsMemory'
<1> SUFFICES ASSUME ServiceInv, RegimeInv, PairMirrorsMemory, [Next]_vars,
                    NEW k \in Pairs, series'[k] > 0,
                    \A a \in Jobs : job'[a].pc = "pair" => KeyOf(a)' # k
             PROVE  pairs'[k] = lastRegime'[k]
  BY DEF PairMirrorsMemory
<1>1. WireOK /\ RegimeTypeOK /\ GraphTypeOK /\ ChainOf(k)
  BY TypeParts DEF ServiceInv, RegimeInv, ChainInv
<1>2. ASSUME series'[k] = series[k], lastRegime'[k] = lastRegime[k], pairs'[k] = pairs[k],
             \A a \in Jobs : job[a].pc = "pair" /\ KeyOf(a) = k =>
                                job'[a].pc = "pair" /\ KeyOf(a)' = k
      PROVE  pairs'[k] = lastRegime'[k]
  BY <1>2 DEF PairMirrorsMemory
<1>3. ASSUME NEW j \in Jobs, NEW l \in GoodJob, Moves(j, l) PROVE pairs'[k] = lastRegime'[k]
  <2>1. /\ job'[j] = l
        /\ \A a \in Jobs : a # j => job'[a] = job[a] /\ KeyOf(a)' = KeyOf(a)
    BY <1>3, MovesTold, EntersWire DEF KeyOf
  <2>2. ASSUME job[j].pc # "pair", UNCHANGED <<series, lastRegime, pairs>>
        PROVE  pairs'[k] = lastRegime'[k]
    BY <1>2, <2>1, <2>2
  <2>3. CASE Begun(j, l)
    <3>1. job[j].pc # "pair" /\ UNCHANGED pairs
      BY <2>3, IdleGood DEF Begun, Fire, Free, graphVars
    <3>2. ASSUME NEW m \in Pairs, TakesPrice(m, l) PROVE pairs'[k] = lastRegime'[k]
      <4>1. m # k
        BY <2>1, <3>2 DEF TakesPrice, KeyOf
      <4>2. series'[k] = series[k] /\ lastRegime'[k] = lastRegime[k]
        BY <1>1, <3>2, <4>1, PriceTaken
      <4>3. QED
        BY <1>2, <2>1, <3>1, <4>2
    <3>3. QED
      BY <2>2, <2>3, <3>1, <3>2 DEF Begun, regimeVars
  <2>4. CASE Resumed(j, l)
    BY <2>2, <2>4, PcTypes, StageFacts DEF Resumed, graphVars, regimeVars
  <2>5. CASE Replied(j, l)
    <3>1. UNCHANGED <<series, lastRegime>>
      BY <2>5 DEF Replied, regimeVars
    <3>2. CASE job[j].pc = "pair" /\ l = To(j, "tick") /\ writePair(KeyOf(j), job[j].regime)
      <4>1. l.pc = "tick" /\ pairs \in [Pairs -> PairState \cup {Absent}]
        BY <1>1, <3>2, ToType, PcTypes, StageFacts DEF GraphTypeOK
      <4>2. CASE KeyOf(j) = k
        <5>1. \A b \in Jobs : b # j /\ job[b].pc = "pair" => KeyOf(b) # k
          BY <2>1
        <5>2. job[j].regime = lastRegime[k]
          BY <1>1, <3>2, <4>2, <5>1, LastWritten
        <5>3. QED
          BY <3>1, <3>2, <4>1, <4>2, <5>2 DEF writePair
      <4>3. CASE KeyOf(j) # k
        <5>1. pairs'[k] = pairs[k]
          BY <3>2, <4>1, <4>3 DEF writePair
        <5>2. QED
          BY <1>2, <2>1, <3>1, <4>3, <5>1
      <4>4. QED
        BY <4>2, <4>3
    <3>3. CASE job[j].pc # "pair" /\ UNCHANGED pairs
      BY <2>2, <3>1, <3>3
    <3>4. QED
      BY <2>5, <3>2, <3>3, StageFacts DEF Replied, TickStep
  <2>6. QED
    BY <1>3, <2>3, <2>4, <2>5 DEF Moves
<1>4. CASE Quits \/ NewBlock \/ PaperExecutor \/ UNCHANGED vars
  <2>1. UNCHANGED <<job, pairs, series, lastRegime>>
    BY <1>4 DEF Quits, NewBlock, PaperExecutor, PaperTrade, vars, graphVars, regimeVars, jobVars
  <2>2. QED
    BY <1>2, <2>1 DEF KeyOf
<1>5. CASE Start
  <2>1. Forgotten /\ UNCHANGED series
    BY <1>5, StartEnters DEF Start, regimeVars
  <2>2. QED
    BY <2>1 DEF Forgotten
<1>6. ASSUME NEW why \in {"redis", "database", "stop"}, Die(why) PROVE FALSE
  BY <1>6 DEF Die, Forget
<1>7. QED
  BY <1>3, <1>4, <1>5, <1>6, NextShape

(* marketGraph.ts:33-45, rpcWs.ts:60-100: however the writes of a pair     *)
(* overlap, once none is under way Redis has the regime the service        *)
(* remembers.                                                              *)
THEOREM PairsMirrored == Spec => []PairMirrorsMemory
<1>1. Init => PairMirrorsMemory
  BY DEF Init, Forgotten, PairMirrorsMemory
<1>2. QED
  BY <1>1, PairsNext, ServiceCorrect, RegimeInvariant, PTL DEF Spec

-----------------------------------------------------------------------------
(* The changes in the stream.                                              *)
LEMMA EventsNext ==
    ServiceInv /\ RegimeInv /\ RegimeEventsChain /\ [Next]_vars => RegimeEventsChain'
<1> SUFFICES ASSUME ServiceInv, RegimeInv, RegimeEventsChain, [Next]_vars
             PROVE  RegimeEventsChain'
  OBVIOUS
<1>1. ASSUME UNCHANGED changes PROVE RegimeEventsChain'
  BY <1>1 DEF RegimeEventsChain
<1>2. ASSUME NEW j \in Jobs, NEW l \in GoodJob, Replied(j, l), job[j].pc = "change",
             NEW c, c.pair = KeyOf(j), c.from = job[j].prev, c.run = boots,
             changes' = Append(changes, c)
      PROVE  RegimeEventsChain'
  <2>1. KeyOf(j) \in Pairs /\ j \in Ticks(KeyOf(j))
    BY <1>2, TickFacts, StageFacts
  <2>2. /\ WireOK /\ Answered(j) /\ phase # "down" /\ GraphTypeOK /\ ChainOf(KeyOf(j))
    BY <1>2, <2>1, MovesTold, TypeParts
    DEF Moves, Replied, Reply, RegimeInv, ChainInv, ServiceInv
  <2>3. Oldest(KeyOf(j), j)
    BY <1>2, <2>1, <2>2, ChangeOldest
  <2>4. PICK n \in Nat : n = Len(changes)
    BY <2>2, LenProperties DEF GraphTypeOK
  <2>5. /\ DOMAIN changes = 1 .. n /\ DOMAIN changes' = 1 .. n + 1
        /\ changes'[n + 1] = c /\ \A i \in 1 .. n : changes'[i] = changes[i]
    BY <1>2, <2>2, <2>4 DEF GraphTypeOK
  <2>6. ASSUME NEW i \in 1 .. n + 1, NEW m \in 1 .. n + 1, i < m,
               changes'[i].pair = changes'[m].pair, changes'[i].run = changes'[m].run,
               \A p \in i + 1 .. m - 1 : changes'[p].pair # changes'[i].pair
        PROVE  changes'[i].to = changes'[m].from
    <3>1. i \in 1 .. n
      BY <2>4, <2>6
    <3>2. CASE m = n + 1
      <4>1. changes[i].pair = KeyOf(j) /\ changes[i].run = boots
        BY <1>2, <2>5, <2>6, <3>1, <3>2
      <4>2. \A p \in 1 .. n : p > i => changes[p].pair # KeyOf(j)
        <5>1. ASSUME NEW p \in 1 .. n, p > i PROVE changes[p].pair # KeyOf(j)
          <6>1. p \in i + 1 .. m - 1
            BY <2>4, <3>1, <3>2, <5>1
          <6>2. QED
            BY <2>5, <2>6, <3>1, <4>1, <6>1
        <5>2. QED
          BY <5>1
      <4>3. LastTold(KeyOf(j), i)
        BY <2>2, <2>4, <3>1, <4>1, <4>2 DEF LastTold
      <4>4. changes[i].to = job[j].prev
        BY <2>2, <2>3, <2>4, <3>1, <4>3 DEF ChainOf
      <4>5. QED
        BY <1>2, <2>5, <3>1, <3>2, <4>4
    <3>3. CASE m \in 1 .. n
      <4>1. \A p \in i + 1 .. m - 1 : p \in 1 .. n
        BY <2>4, <3>1, <3>3
      <4>2. \A p \in i + 1 .. m - 1 : changes[p].pair # changes[i].pair
        BY <2>5, <2>6, <3>1, <4>1
      <4>3. QED
        BY <2>5, <2>6, <3>1, <3>3, <4>2 DEF RegimeEventsChain
    <3>4. QED
      BY <2>4, <3>2, <3>3
  <2>7. QED
    BY <2>5, <2>6 DEF RegimeEventsChain
<1>3. ASSUME NEW j \in Jobs, NEW l \in GoodJob, Moves(j, l) PROVE RegimeEventsChain'
  <2>1. CASE UNCHANGED changes
    BY <1>1, <2>1
  <2>2. CASE /\ Replied(j, l) /\ job[j].pc = "change"
             /\ changes' = Append(changes, [pair |-> KeyOf(j), from |-> job[j].prev,
                                            to |-> job[j].regime, run |-> boots])
    <3>1. PICK c : c = [pair |-> KeyOf(j), from |-> job[j].prev, to |-> job[j].regime, run |-> boots]
      OBVIOUS
    <3>2. c.pair = KeyOf(j) /\ c.from = job[j].prev /\ c.run = boots
      BY <3>1
    <3>3. QED
      BY <1>2, <2>2, <3>1, <3>2
  <2>3. QED
    BY <1>3, <2>1, <2>2 DEF Moves, Begun, Resumed, Replied, TickStep, graphVars
<1>4. CASE Start \/ Quits \/ NewBlock \/ PaperExecutor \/ UNCHANGED vars
  BY <1>1, <1>4 DEF Start, Quits, NewBlock, PaperExecutor, PaperTrade, vars, graphVars
<1>5. ASSUME NEW why \in {"redis", "database", "stop"}, Die(why) PROVE RegimeEventsChain'
  BY <1>1, <1>5 DEF Die, graphVars
<1>6. QED
  BY <1>3, <1>4, <1>5, NextShape

(* rpcWs.ts:85-89: the regime changes of a pair that one run of the        *)
(* service tells are a chain, each from the regime the one before led to,  *)
(* however many ticks of the pair are under way.                           *)
THEOREM RegimeChain == Spec => []RegimeEventsChain
<1>1. Init => RegimeEventsChain
  BY DEF Init, GraphInit, RegimeEventsChain
<1>2. QED
  BY <1>1, EventsNext, ServiceCorrect, RegimeInvariant, PTL DEF Spec
=============================================================================
