--------------------------- MODULE OnchainExecutor ---------------------------
(***************************************************************************)
(* The on-chain half of the execution service: getOnchain and the breaker  *)
(* subscription of index.ts, OnchainExecutor of modes/onchain.ts and its   *)
(* NonceManager.  The consumer loop handles one trade at a time; every     *)
(* TRIPPED message runs a handler of its own.  One action per await.       *)
(***************************************************************************)
EXTENDS SignerAccount

CONSTANTS MaxRetries,  \* MAX_RETRIES
          Configs,     \* what the environment may say: mode, keys, override
          MaxCrashes   \* bound on restarts of the service

Loop == "loop"
Callers == {Loop} \cup Trips
Unset == -1            \* null of NonceManager.next
None == "none"

ASSUME ExecutorAssumption ==
    /\ MaxRetries \in Nat /\ MaxCrashes \in Nat
    /\ Configs \subseteq [mode : {"paper", "testnet", "live"}, keys : BOOLEAN, override : BOOLEAN]
    /\ Loop \notin Trips /\ None \notin Callers \cup Trades

VARIABLES config,   \* the parsed environment; never changes
          onchain,  \* the caller whose executor the module variable holds
          next,     \* NonceManager.next of the executor a caller constructed
          given,    \* history: numbers it has given out since its last reset
          pc,       \* where each caller stands
          inst,     \* the executor each caller uses
          num,      \* pending count, then nonce, in the hands of a caller
          job,      \* trade the loop is executing
          attempt,  \* its for-loop variable
          fills,    \* status returned for each trade
          threw,    \* history: an exception or a crash has happened
          crashes

execVars == <<config, onchain, next, given, pc, inst, num, job, attempt, fills, threw, crashes>>
vars == <<accountVars, execVars>>

Pc == {"idle", "import", "simulate", "take", "taken", "estimate", "send", "wait", "done"}

ExecInit == /\ config \in Configs
            /\ onchain = None
            /\ next = [c \in Callers |-> Unset]
            /\ given = [c \in Callers |-> {}]
            /\ pc = [c \in Callers |-> "idle"]
            /\ inst = [c \in Callers |-> None]
            /\ num = [c \in Callers |-> 0]
            /\ job = None /\ attempt = 0
            /\ fills = [t \in Trades |-> None]
            /\ threw = FALSE /\ crashes = 0

Init == AccountInit /\ ExecInit

Goto(c, l) == pc' = [pc EXCEPT ![c] = l]

(* The constructor throws without keys, and on mainnet without the         *)
(* explicit override.                                                      *)
Constructible == config.keys /\ (config.mode = "live" => config.override)

Entry(c) == IF c = Loop THEN "simulate" ELSE "take"

(* getOnchain, up to its await.  The mutant forgets to hand out the        *)
(* executor that exists.                                                   *)
GetOnchainUnbound(c) == IF onchain = None THEN Goto(c, "import") /\ UNCHANGED inst
                        ELSE Goto(c, Entry(c)) /\ UNCHANGED inst

GetOnchain(c) == IF onchain = None
                 THEN Goto(c, "import") /\ UNCHANGED inst
                 ELSE Goto(c, Entry(c)) /\ inst' = [inst EXCEPT ![c] = onchain]

Return(s) == /\ fills' = [fills EXCEPT ![job] = s]
             /\ job' = None
             /\ Goto(Loop, "idle")

(* A pause that throws is logged and forgotten.                            *)
GiveUp(c) == Goto(c, "done") /\ UNCHANGED <<fills, job>>

Fails(c) == IF c = Loop THEN Return("failed") ELSE GiveUp(c)

-----------------------------------------------------------------------------
PaperFill(t) == /\ config.mode = "paper" /\ fills[t] = None
                /\ fills' = [fills EXCEPT ![t] = "executed"]
                /\ UNCHANGED <<accountVars, config, onchain, next, given, pc, inst, num,
                               job, attempt, threw, crashes>>

Begin(t) == /\ config.mode # "paper"
            /\ pc[Loop] = "idle" /\ fills[t] = None
            /\ job' = t
            /\ GetOnchain(Loop)
            /\ UNCHANGED <<accountVars, config, onchain, next, given, num, attempt, fills,
                           threw, crashes>>

Tripped(p) == /\ config.mode # "paper"
              /\ pc[p] = "idle"
              /\ GetOnchain(p)
              /\ UNCHANGED <<accountVars, config, onchain, next, given, num, job, attempt,
                             fills, threw, crashes>>

(* The import has resolved.  The check is not made again: a second caller  *)
(* that also found null constructs an executor of its own.                 *)
Construct(c) ==
    /\ pc[c] = "import"
    /\ IF Constructible
       THEN /\ onchain' = c
            /\ next' = [next EXCEPT ![c] = Unset]
            /\ given' = [given EXCEPT ![c] = {}]
            /\ inst' = [inst EXCEPT ![c] = c]
            /\ Goto(c, Entry(c))
            /\ UNCHANGED <<fills, job>>
       ELSE Fails(c) /\ UNCHANGED <<onchain, next, given, inst>>
    /\ UNCHANGED <<accountVars, config, num, attempt, threw, crashes>>

(* Only cycles go on chain, and only those whose eth_call succeeds.        *)
Simulate == /\ pc[Loop] = "simulate"
            /\ \/ /\ job \notin Directional /\ ~paused
                  /\ Goto(Loop, "take") /\ attempt' = 0
                  /\ UNCHANGED <<fills, job>>
               \/ Return("failed") /\ UNCHANGED attempt
            /\ UNCHANGED <<accountVars, config, onchain, next, given, inst, num, threw, crashes>>

(* NonceManager.take: the pending count is awaited, the rest is one step.  *)
AskPending(c) == /\ pc[c] = "take"
                 /\ \E n \in Confirmed .. (Confirmed + Cardinality(mempool)) :
                       IsPendingCount(n) /\ num' = [num EXCEPT ![c] = n]
                 /\ Goto(c, "taken")
                 /\ UNCHANGED <<accountVars, config, onchain, next, given, inst, job, attempt,
                                fills, threw, crashes>>

(* Mutants: the number is not counted up; or it is, before it is used.     *)
TakeUncounted(c) == LET m == inst[c]
                        n == IF next[m] > num[c] THEN next[m] ELSE num[c]
                    IN /\ pc[c] = "taken"
                       /\ next' = [next EXCEPT ![m] = n]
                       /\ given' = [given EXCEPT ![m] = @ \cup {n}]
                       /\ num' = [num EXCEPT ![c] = n]
                       /\ Goto(c, IF c = Loop THEN "estimate" ELSE "send")
                       /\ UNCHANGED <<accountVars, config, onchain, inst, job, attempt, fills,
                                      threw, crashes>>
TakePreincremented(c) == LET m == inst[c]
                             n == (IF next[m] > num[c] THEN next[m] ELSE num[c]) + 1
                         IN /\ pc[c] = "taken"
                            /\ next' = [next EXCEPT ![m] = n]
                            /\ given' = [given EXCEPT ![m] = @ \cup {n - 1}]
                            /\ num' = [num EXCEPT ![c] = n]
                            /\ Goto(c, IF c = Loop THEN "estimate" ELSE "send")
                            /\ UNCHANGED <<accountVars, config, onchain, inst, job, attempt, fills,
                                           threw, crashes>>

Take(c) == LET m == inst[c]
               n == IF next[m] > num[c] THEN next[m] ELSE num[c]
           IN /\ pc[c] = "taken"
              /\ next' = [next EXCEPT ![m] = n + 1]
              /\ given' = [given EXCEPT ![m] = @ \cup {n}]
              /\ num' = [num EXCEPT ![c] = n]
              /\ Goto(c, IF c = Loop THEN "estimate" ELSE "send")
              /\ UNCHANGED <<accountVars, config, onchain, inst, job, attempt, fills, threw, crashes>>

(* estimateGas throws when the transaction would revert.                   *)
Estimate == /\ pc[Loop] = "estimate" /\ ~paused
            /\ Goto(Loop, "send")
            /\ UNCHANGED <<accountVars, config, onchain, next, given, inst, num, job, attempt,
                           fills, threw, crashes>>

Payload(c) == [nonce |-> num[c], of |-> IF c = Loop THEN job ELSE c,
               attempt |-> IF c = Loop THEN attempt ELSE 0]

Send(c) == /\ pc[c] = "send"
           /\ Submit(Payload(c))
           /\ Goto(c, IF c = Loop THEN "wait" ELSE "done")
           /\ UNCHANGED <<relayed, mined, paused, config, onchain, next, given, inst, num, job,
                          attempt, fills, threw, crashes>>

(* Next round of the for loop, or "exhausted retries"; the mutant does not *)
(* count the attempt.                                                      *)
RetryForever == Goto(Loop, "take") /\ UNCHANGED <<attempt, fills, job>>

Retry == IF attempt < MaxRetries
         THEN attempt' = attempt + 1 /\ Goto(Loop, "take") /\ UNCHANGED <<fills, job>>
         ELSE Return("failed") /\ UNCHANGED attempt

(* viem resolves with the receipt of the transaction or, where the public  *)
(* node has seen the transaction queued, with that of whatever was mined   *)
(* under its nonce in its place.  The code looks at the status only.       *)
IsReceipt(r) == \/ r.tx = Payload(Loop)
                \/ ~relayed /\ r.tx.nonce = num[Loop]

(* Mutant: the status of the receipt is not looked at.                     *)
ReceiptUnchecked ==
    /\ pc[Loop] = "wait"
    /\ \E i \in DOMAIN mined : IsReceipt(mined[i])
    /\ Return("executed")
    /\ UNCHANGED <<accountVars, config, onchain, next, given, inst, num, attempt, threw, crashes>>

Receipt == /\ pc[Loop] = "wait"
           /\ \E i \in DOMAIN mined :
                /\ IsReceipt(mined[i])
                /\ IF mined[i].ok THEN Return("executed") /\ UNCHANGED attempt
                                  ELSE Retry
           /\ UNCHANGED <<accountVars, config, onchain, next, given, inst, num, threw, crashes>>

(* An await of an attempt threw: the RPC is down, the gas estimate reverts,*)
(* the nonce is too low, the replacement is underpriced, or no receipt     *)
(* came in time.  The transaction may be queued all the same.              *)
Caught == /\ pc[Loop] \in {"take", "estimate", "send", "wait"}
          /\ next' = [next EXCEPT ![inst[Loop]] = Unset]
          /\ given' = [given EXCEPT ![inst[Loop]] = {}]
          /\ \/ UNCHANGED mempool
             \/ pc[Loop] = "send" /\ Submit(Payload(Loop))
          /\ Retry
          /\ threw' = TRUE
          /\ UNCHANGED <<relayed, mined, paused, config, onchain, inst, num, crashes>>

(* The same in pause(): nothing is retried and nothing is reset.           *)
PauseFailed(p) == /\ pc[p] \in {"take", "send"}
                  /\ \/ UNCHANGED mempool
                     \/ pc[p] = "send" /\ Submit(Payload(p))
                  /\ GiveUp(p)
                  /\ threw' = TRUE
                  /\ UNCHANGED <<relayed, mined, paused, config, onchain, next, given, inst, num,
                                 attempt, crashes>>

-----------------------------------------------------------------------------
(* The process is killed and restarted: its memory goes, the trade in hand *)
(* is not asked for again, and trips published meanwhile are lost.         *)
Crash(lost) ==
    /\ crashes < MaxCrashes
    /\ crashes' = crashes + 1 /\ threw' = TRUE
    /\ onchain' = None
    /\ next' = [c \in Callers |-> Unset]
    /\ given' = [c \in Callers |-> {}]
    /\ inst' = [c \in Callers |-> None]
    /\ pc' = [c \in Callers |-> IF c = Loop \/ (pc[c] = "idle" /\ c \notin lost)
                                THEN "idle" ELSE "done"]
    /\ fills' = IF job = None THEN fills ELSE [fills EXCEPT ![job] = "lost"]
    /\ job' = None
    /\ UNCHANGED <<accountVars, config, num, attempt>>

Network == Mine /\ UNCHANGED execVars
OwnerStep == Unpause /\ UNCHANGED execVars

LoopStep == \/ \E t \in Trades : PaperFill(t) \/ Begin(t)
            \/ Construct(Loop) \/ Simulate \/ AskPending(Loop) \/ Take(Loop)
            \/ Estimate \/ Send(Loop) \/ Receipt \/ Caught

PauseStep(p) == Construct(p) \/ AskPending(p) \/ Take(p) \/ Send(p) \/ PauseFailed(p)

Next == \/ Network \/ OwnerStep
        \/ LoopStep
        \/ \E p \in Trips : Tripped(p) \/ PauseStep(p)
        \/ \E lost \in SUBSET Trips : Crash(lost)

Spec == Init /\ [][Next]_vars

(* The chain keeps mining what can be mined, and promises settle: every    *)
(* await of the code ends with a value, an exception or its timeout.       *)
FairSpec == /\ Spec
            /\ WF_vars(Network) /\ WF_vars(LoopStep)
            /\ \A p \in Trips : WF_vars(PauseStep(p))

-----------------------------------------------------------------------------
(* Every variable has its type, and a caller that is past getOnchain has   *)
(* an executor.                                                            *)
OnchainTypeOK ==
    /\ AccountTypeOK
    /\ config \in Configs
    /\ onchain \in Callers \cup {None}
    /\ next \in [Callers -> Nat \cup {Unset}]
    /\ given \in [Callers -> SUBSET Nat]
    /\ pc \in [Callers -> Pc]
    /\ inst \in [Callers -> Callers \cup {None}]
    /\ num \in [Callers -> Nat]
    /\ job \in Trades \cup {None}
    /\ attempt \in 0 .. MaxRetries
    /\ fills \in [Trades -> {"executed", "failed", "lost", None}]
    /\ threw \in BOOLEAN
    /\ crashes \in 0 .. MaxCrashes
    /\ job = None <=> pc[Loop] = "idle"
    /\ \A c \in Callers : pc[c] \notin {"idle", "import", "done"} => inst[c] # None

(* nonceManager.ts:8-10: whatever the interleaving of execute() and pause()*)
(* over the await of the pending count, an executor does not give out a    *)
(* number twice before a reset.                                            *)
NonceGivenOnce == \A m \in Callers : \A n \in given[m] : n < next[m]

(* onchain.ts:68-75: as long as nothing has thrown, every number below a   *)
(* queued one is mined, queued, or held by a caller about to submit it: no *)
(* transaction waits behind a gap.                                         *)
GapNeedsException ==
    ~threw => \A tx \in mempool : \A n \in Confirmed .. tx.nonce :
                 \/ n \in Queued
                 \/ \E c \in Callers : pc[c] \in {"estimate", "send"} /\ num[c] = n

(* onchain.ts:66-97: execute() returns, whatever the network does.         *)
EveryTradeReturns == \A t \in Trades : (job = t) ~> (fills[t] # None)

(* onchain.ts:52-97, index.ts:21-38: every trade is told one status, once, *)
(* nothing is carried out while the contract is paused, and "executed" is  *)
(* said of a cycle the chain has not carried out only after a pause.       *)
Abstract == INSTANCE Settlement WITH simulated <- (config.mode = "paper"),
                                     settled <- Settled, halted <- paused,
                                     haltedOnce <- PausedOnce, reported <- fills
ImplementsSettlement == Abstract!Spec

(* The claim of PancakeSwap_MultiAgent_System_Blueprint.md:216 and of the  *)
(* comment at onchain.ts:71: a retry replaces the transaction that timed   *)
(* out, so the chain carries out the cycle of a trade once.                *)
CycleMinedOnce == \A t \in Trades : Cardinality(Succeeded(t)) <= 1

(* The claim of nonceManager.ts:2, one sequence of nonces for the one      *)
(* signer, for what is made of it at onchain.ts:76-77: even if no await    *)
(* throws, a trade told as executed has been carried out.                  *)
ExecutedWasMined ==
    \A t \in Trades : fills[t] = "executed" =>
        t \in Settled \/ config.mode = "paper" \/ threw
=============================================================================
