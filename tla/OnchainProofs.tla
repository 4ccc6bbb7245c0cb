---------------------------- MODULE OnchainProofs ----------------------------
(***************************************************************************)
(* Proofs about the on-chain executor: types, nonces, gaps, and that it    *)
(* implements Settlement.                                                  *)
(***************************************************************************)
EXTENDS OnchainExecutor, FiniteSetTheorems, TLAPS

USE AccountAssumption, ExecutorAssumption DEF AccountAssumption, ExecutorAssumption

LEMMA CallersFacts ==
    /\ Loop \in Callers /\ Trips \subseteq Callers /\ Loop \notin Trips
    /\ None \notin Callers /\ None \notin Trades /\ Unset \in Int /\ Unset < 0
    /\ \A p \in Trips : p # Loop
  BY DEF Callers, Unset

(* A caller that may call the chain holds an executor.                     *)
LEMMA HasExecutor ==
    ASSUME OnchainTypeOK, NEW c \in Callers, pc[c] \notin {"idle", "import", "done"}
    PROVE  inst[c] \in Callers
  BY DEF OnchainTypeOK

LEMMA GetOnchainType ==
    ASSUME OnchainTypeOK, NEW c \in Callers, GetOnchain(c)
    PROVE  /\ pc' \in [Callers -> Pc] /\ inst' \in [Callers -> Callers \cup {None}]
           /\ pc'[c] # "idle" /\ \A d \in Callers : d # c => pc'[d] = pc[d]
           /\ \A d \in Callers : pc'[d] \notin {"idle", "import", "done"} => inst'[d] # None
  <1>1. CASE onchain = None
    BY <1>1 DEF GetOnchain, Goto, OnchainTypeOK, Pc
  <1>2. CASE onchain # None
    BY <1>2 DEF GetOnchain, Goto, Entry, OnchainTypeOK, Pc
  <1>3. QED
    BY <1>1, <1>2

LEMMA PayloadType ==
    ASSUME OnchainTypeOK, NEW c \in Callers, pc[c] # "idle"
    PROVE  /\ Payload(c) \in Tx
           /\ Payload(c).nonce = num[c]
           /\ Payload(c).of = IF c = Loop THEN job ELSE c
  <1>1. c = Loop => job \in Trades
    BY DEF OnchainTypeOK
  <1>2. c # Loop => c \in Trips
    BY DEF Callers
  <1>3. num[c] \in Nat /\ attempt \in Nat
    BY DEF OnchainTypeOK
  <1>4. QED
    BY <1>1, <1>2, <1>3 DEF Payload, Tx

LEMMA SubmitType ==
    ASSUME mempool \in SUBSET Tx, NEW tx \in Tx, Submit(tx)
    PROVE  mempool' \in SUBSET Tx
  BY DEF Submit

(* The number that take() gives out.                                       *)
LEMMA TakeGives ==
    ASSUME OnchainTypeOK, NEW c \in Callers, Take(c)
    PROVE  \E m \in Callers, n \in Nat :
              /\ m = inst[c] /\ n >= next[m] /\ (n = next[m] \/ n = num[c])
              /\ next' = [next EXCEPT ![m] = n + 1]
              /\ given' = [given EXCEPT ![m] = @ \cup {n}]
              /\ num' = [num EXCEPT ![c] = n]
  <1>1. PICK m \in Callers : m = inst[c]
    BY HasExecutor DEF Take
  <1>2. num[c] \in Nat /\ next[m] \in Int
    BY <1>1 DEF OnchainTypeOK, Unset
  <1>3. PICK n : n = IF next[m] > num[c] THEN next[m] ELSE num[c]
    OBVIOUS
  <1>4. n \in Nat /\ n >= next[m] /\ (n = next[m] \/ n = num[c])
    BY <1>2, <1>3
  <1>5. /\ next' = [next EXCEPT ![m] = n + 1]
        /\ given' = [given EXCEPT ![m] = @ \cup {n}]
        /\ num' = [num EXCEPT ![c] = n]
    BY <1>1, <1>3, Zenon DEF Take
  <1>6. QED
    BY <1>1, <1>4, <1>5

(* What a return, a retry or a given-up pause does to the types.           *)
LEMMA ReturnType ==
    ASSUME OnchainTypeOK, pc[Loop] # "idle",
           NEW s \in {"executed", "failed"}, Return(s)
    PROVE  /\ fills' \in [Trades -> {"executed", "failed", "lost", None}]
           /\ job' = None /\ pc' \in [Callers -> Pc] /\ pc'[Loop] = "idle"
           /\ \A c \in Callers : c # Loop => pc'[c] = pc[c]
  BY CallersFacts DEF OnchainTypeOK, Return, Goto, Pc

LEMMA RetryType ==
    ASSUME OnchainTypeOK, pc[Loop] # "idle", Retry
    PROVE  /\ fills' \in [Trades -> {"executed", "failed", "lost", None}]
           /\ attempt' \in 0 .. MaxRetries
           /\ pc' \in [Callers -> Pc] /\ pc'[Loop] \in {"idle", "take"}
           /\ job' \in Trades \cup {None} /\ (job' = None <=> pc'[Loop] = "idle")
           /\ \A c \in Callers : c # Loop => pc'[c] = pc[c]
  <1>1. CASE attempt < MaxRetries
    <2>1. attempt' = attempt + 1 /\ attempt' \in 0 .. MaxRetries
      BY <1>1 DEF Retry, OnchainTypeOK
    <2>2. pc' = [pc EXCEPT ![Loop] = "take"] /\ UNCHANGED <<fills, job>>
      BY <1>1 DEF Retry, Goto
    <2>3. QED
      BY <2>1, <2>2, CallersFacts DEF OnchainTypeOK, Pc
  <1>2. CASE ~(attempt < MaxRetries)
    <2>1. Return("failed") /\ UNCHANGED attempt
      BY <1>2 DEF Retry
    <2>2. QED
      BY <2>1, ReturnType DEF OnchainTypeOK
  <1>3. QED
    BY <1>1, <1>2

-----------------------------------------------------------------------------
(* Type correctness, for any number of trades, trips and retries.          *)
LEMMA InitTypeOK == Init => OnchainTypeOK
  <1> SUFFICES ASSUME Init PROVE OnchainTypeOK
    OBVIOUS
  <1>1. AccountTypeOK
    <2>1. \A S : <<>> \in Seq(S)
      OBVIOUS
    <2>2. QED
      BY <2>1 DEF Init, AccountInit, AccountTypeOK
  <1>2. /\ next \in [Callers -> Nat \cup {Unset}] /\ given \in [Callers -> SUBSET Nat]
        /\ pc \in [Callers -> Pc] /\ inst \in [Callers -> Callers \cup {None}]
        /\ num \in [Callers -> Nat]
        /\ fills \in [Trades -> {"executed", "failed", "lost", None}]
    BY DEF Init, ExecInit, Pc
  <1>3. pc[Loop] = "idle" /\ \A c \in Callers : pc[c] = "idle"
    BY CallersFacts DEF Init, ExecInit
  <1>4. /\ config \in Configs /\ onchain = None /\ job = None /\ attempt = 0
        /\ threw = FALSE /\ crashes = 0
    BY DEF Init, ExecInit
  <1>5. attempt \in 0 .. MaxRetries /\ crashes \in 0 .. MaxCrashes
    BY <1>4
  <1>6. onchain \in Callers \cup {None} /\ job \in Trades \cup {None} /\ threw \in BOOLEAN
    BY <1>4
  <1>7. QED
    BY <1>1, <1>2, <1>3, <1>4, <1>5, <1>6, Zenon DEF OnchainTypeOK

LEMMA NextTypeOK == OnchainTypeOK /\ [Next]_vars => OnchainTypeOK'
  <1> SUFFICES ASSUME OnchainTypeOK, [Next]_vars PROVE OnchainTypeOK'
    OBVIOUS
  <1>1. ASSUME NEW t \in Trades, PaperFill(t) PROVE OnchainTypeOK'
    <2>1. fills' \in [Trades -> {"executed", "failed", "lost", None}]
      BY <1>1 DEF PaperFill, OnchainTypeOK
    <2>2. QED
      BY <1>1, <2>1 DEF PaperFill, OnchainTypeOK, AccountTypeOK, accountVars
  <1>2. ASSUME NEW t \in Trades, Begin(t) PROVE OnchainTypeOK'
    <2>1. /\ pc' \in [Callers -> Pc] /\ inst' \in [Callers -> Callers \cup {None}]
          /\ pc'[Loop] # "idle" /\ job' \in Trades
          /\ \A c \in Callers : pc'[c] \notin {"idle", "import", "done"} => inst'[c] # None
      BY <1>2, CallersFacts, GetOnchainType DEF Begin, OnchainTypeOK
    <2>2. QED
      BY <1>2, <2>1, CallersFacts DEF Begin, OnchainTypeOK, AccountTypeOK, accountVars
  <1>3. ASSUME NEW p \in Trips, Tripped(p) PROVE OnchainTypeOK'
    <2>1. /\ pc' \in [Callers -> Pc] /\ inst' \in [Callers -> Callers \cup {None}]
          /\ pc'[Loop] = pc[Loop]
          /\ \A c \in Callers : pc'[c] \notin {"idle", "import", "done"} => inst'[c] # None
      BY <1>3, CallersFacts, GetOnchainType DEF Tripped, OnchainTypeOK
    <2>2. QED
      BY <1>3, <2>1, CallersFacts DEF Tripped, OnchainTypeOK, AccountTypeOK, accountVars
  <1>4. ASSUME NEW c \in Callers, Construct(c) PROVE OnchainTypeOK'
    <2>1. CASE Constructible
      <3>1. /\ pc[c] = "import" /\ onchain' = c /\ inst' = [inst EXCEPT ![c] = c]
            /\ next' = [next EXCEPT ![c] = Unset] /\ given' = [given EXCEPT ![c] = {}]
            /\ pc' = [pc EXCEPT ![c] = Entry(c)] /\ UNCHANGED <<fills, job>>
            /\ UNCHANGED <<accountVars, config, num, attempt, threw, crashes>>
        BY <1>4, <2>1 DEF Construct, Goto
      <3>2. Entry(c) \in {"simulate", "take"}
        BY DEF Entry
      <3>3. /\ pc' \in [Callers -> Pc] /\ inst' \in [Callers -> Callers \cup {None}]
            /\ next' \in [Callers -> Nat \cup {Unset}] /\ given' \in [Callers -> SUBSET Nat]
            /\ (pc'[Loop] = "idle" <=> pc[Loop] = "idle")
            /\ \A d \in Callers : pc'[d] \notin {"idle", "import", "done"} => inst'[d] # None
        BY <3>1, <3>2, CallersFacts DEF OnchainTypeOK, Pc
      <3>4. QED
        BY <3>1, <3>3 DEF OnchainTypeOK, AccountTypeOK, accountVars
    <2>2. CASE ~Constructible /\ c = Loop
      <3>1. Return("failed") /\ pc[Loop] # "idle"
        BY <1>4, <2>2 DEF Construct, Fails
      <3>2. QED
        BY <1>4, <2>2, <3>1, ReturnType, CallersFacts
           DEF Construct, OnchainTypeOK, AccountTypeOK, accountVars
    <2>3. CASE ~Constructible /\ c # Loop
      BY <1>4, <2>3, CallersFacts
         DEF Construct, Fails, GiveUp, Goto, OnchainTypeOK, AccountTypeOK, accountVars, Pc
    <2>4. QED
      BY <2>1, <2>2, <2>3
  <1>5. ASSUME Simulate PROVE OnchainTypeOK'
    <2>1. CASE Goto(Loop, "take") /\ attempt' = 0 /\ UNCHANGED <<fills, job>>
      BY <1>5, <2>1, CallersFacts
         DEF Simulate, Goto, OnchainTypeOK, AccountTypeOK, accountVars, Pc
    <2>2. CASE Return("failed") /\ UNCHANGED attempt
      BY <1>5, <2>2, ReturnType, CallersFacts
         DEF Simulate, OnchainTypeOK, AccountTypeOK, accountVars
    <2>3. QED
      BY <1>5, <2>1, <2>2 DEF Simulate
  <1>6. ASSUME NEW c \in Callers, AskPending(c) PROVE OnchainTypeOK'
    <2>1. PICK n \in Confirmed .. (Confirmed + Cardinality(mempool)) :
             num' = [num EXCEPT ![c] = n]
      BY <1>6 DEF AskPending
    <2>2. n \in Nat
      BY DEF Confirmed, OnchainTypeOK, AccountTypeOK
    <2>3. QED
      BY <1>6, <2>1, <2>2, CallersFacts
         DEF AskPending, Goto, OnchainTypeOK, AccountTypeOK, accountVars, Pc
  <1>7. ASSUME NEW c \in Callers, Take(c) PROVE OnchainTypeOK'
    <2> DEFINE n == IF next[inst[c]] > num[c] THEN next[inst[c]] ELSE num[c]
    <2>1. inst[c] \in Callers /\ num[c] \in Nat /\ next[inst[c]] \in Int
      BY <1>7, HasExecutor DEF Take, OnchainTypeOK, Unset
    <2>2. n \in Nat
      BY <2>1
    <2>3. /\ next' = [next EXCEPT ![inst[c]] = n + 1]
          /\ given' = [given EXCEPT ![inst[c]] = @ \cup {n}]
          /\ num' = [num EXCEPT ![c] = n]
          /\ Goto(c, IF c = Loop THEN "estimate" ELSE "send")
          /\ pc[c] = "taken"
      BY <1>7 DEF Take
    <2> HIDE DEF n
    <2>4. /\ next' \in [Callers -> Nat \cup {Unset}] /\ num' \in [Callers -> Nat]
          /\ given' \in [Callers -> SUBSET Nat]
      BY <2>1, <2>2, <2>3 DEF OnchainTypeOK
    <2>5. pc' \in [Callers -> Pc]
      BY <2>3, CallersFacts DEF Goto, OnchainTypeOK, Pc
    <2>6. QED
      BY <1>7, <2>3, <2>4, <2>5 DEF Take, Goto, OnchainTypeOK, AccountTypeOK, accountVars
  <1>8. ASSUME Estimate PROVE OnchainTypeOK'
    BY <1>8, CallersFacts DEF Estimate, Goto, OnchainTypeOK, AccountTypeOK, accountVars, Pc
  <1>9. ASSUME NEW c \in Callers, Send(c) PROVE OnchainTypeOK'
    <2>1. mempool' \in SUBSET Tx
      BY <1>9, PayloadType, SubmitType DEF Send, OnchainTypeOK, AccountTypeOK
    <2>2. QED
      BY <1>9, <2>1, CallersFacts DEF Send, Goto, OnchainTypeOK, AccountTypeOK, Pc
  <1>10. ASSUME Receipt PROVE OnchainTypeOK'
    <2>1. pc[Loop] = "wait"
      BY <1>10 DEF Receipt
    <2>2. (Return("executed") /\ UNCHANGED attempt) \/ Retry
      BY <1>10 DEF Receipt
    <2>3. QED
      BY <1>10, <2>1, <2>2, ReturnType, RetryType, CallersFacts
         DEF Receipt, OnchainTypeOK, AccountTypeOK, accountVars
  <1>11. ASSUME Caught PROVE OnchainTypeOK'
    <2>1. mempool' \in SUBSET Tx
      BY <1>11, PayloadType, SubmitType, CallersFacts DEF Caught, OnchainTypeOK, AccountTypeOK
    <2>2. inst[Loop] \in Callers /\ pc[Loop] # "idle" /\ Retry
      BY <1>11, HasExecutor, CallersFacts DEF Caught
    <2>3. /\ next' \in [Callers -> Nat \cup {Unset}] /\ given' \in [Callers -> SUBSET Nat]
          /\ threw' \in BOOLEAN
      BY <1>11, <2>2 DEF Caught, OnchainTypeOK
    <2>4. \A c \in Callers : pc'[c] \notin {"idle", "import", "done"} => inst[c] # None
      BY <1>11, <2>2, RetryType, CallersFacts DEF Caught, OnchainTypeOK
    <2>5. QED
      BY <1>11, <2>1, <2>2, <2>3, <2>4, RetryType
         DEF Caught, OnchainTypeOK, AccountTypeOK
  <1>12. ASSUME NEW p \in Trips, PauseFailed(p) PROVE OnchainTypeOK'
    <2>1. mempool' \in SUBSET Tx
      BY <1>12, PayloadType, SubmitType, CallersFacts
         DEF PauseFailed, OnchainTypeOK, AccountTypeOK
    <2>2. QED
      BY <1>12, <2>1, CallersFacts
         DEF PauseFailed, GiveUp, Goto, OnchainTypeOK, AccountTypeOK, Pc
  <1>13. ASSUME NEW lost \in SUBSET Trips, Crash(lost) PROVE OnchainTypeOK'
    BY <1>13, CallersFacts DEF Crash, OnchainTypeOK, AccountTypeOK, accountVars, Pc
  <1>14. ASSUME Network PROVE OnchainTypeOK'
    <2>1. PICK tx \in mempool, ok \in BOOLEAN :
             mined' = Append(mined, [tx |-> tx, ok |-> ok]) /\ mempool' = mempool \ {tx}
      BY <1>14 DEF Network, Mine
    <2>2. AccountTypeOK'
      BY <1>14, <2>1 DEF Network, Mine, OnchainTypeOK, AccountTypeOK
    <2>3. QED
      BY <1>14, <2>2 DEF Network, OnchainTypeOK, execVars
  <1>15. ASSUME OwnerStep PROVE OnchainTypeOK'
    BY <1>15 DEF OwnerStep, Unpause, execVars, OnchainTypeOK, AccountTypeOK
  <1>16. CASE UNCHANGED vars
    BY <1>16 DEF vars, execVars, accountVars, OnchainTypeOK, AccountTypeOK
  <1>17. QED
    BY <1>1, <1>2, <1>3, <1>4, <1>5, <1>6, <1>7, <1>8, <1>9, <1>10, <1>11, <1>12, <1>13,
       <1>14, <1>15, <1>16, CallersFacts DEF Next, LoopStep, PauseStep

(* The types of the executor, its callers and the account.                 *)
THEOREM OnchainTypes == Spec => []OnchainTypeOK
  BY InitTypeOK, NextTypeOK, PTL DEF Spec

-----------------------------------------------------------------------------
(* A manager counts up past what it gives out, and a reset forgets both.   *)
LEMMA NextNonceGivenOnce ==
    OnchainTypeOK /\ NonceGivenOnce /\ [Next]_vars => NonceGivenOnce'
  <1> SUFFICES ASSUME OnchainTypeOK, NonceGivenOnce, [Next]_vars PROVE NonceGivenOnce'
    OBVIOUS
  <1>1. CASE UNCHANGED <<next, given>>
    BY <1>1 DEF NonceGivenOnce
  <1>2. ASSUME NEW c \in Callers, Construct(c) PROVE NonceGivenOnce'
    <2>1. UNCHANGED <<next, given>>
          \/ (next' = [next EXCEPT ![c] = Unset] /\ given' = [given EXCEPT ![c] = {}])
      <3>1. CASE Constructible
        BY <1>2, <3>1 DEF Construct
      <3>2. CASE ~Constructible
        BY <1>2, <3>2 DEF Construct
      <3>3. QED
        BY <3>1, <3>2
    <2>2. QED
      BY <2>1 DEF NonceGivenOnce, OnchainTypeOK
  <1>3. ASSUME NEW c \in Callers, Take(c) PROVE NonceGivenOnce'
    <2>1. PICK m \in Callers, n \in Nat : /\ n >= next[m]
                                          /\ next' = [next EXCEPT ![m] = n + 1]
                                          /\ given' = [given EXCEPT ![m] = @ \cup {n}]
      BY <1>3, TakeGives
    <2>2. next[m] \in Int
      BY DEF OnchainTypeOK, Unset
    <2>3. QED
      BY <2>1, <2>2 DEF NonceGivenOnce, OnchainTypeOK
  <1>4. ASSUME Caught PROVE NonceGivenOnce'
    BY <1>4, HasExecutor, CallersFacts DEF Caught, NonceGivenOnce, OnchainTypeOK
  <1>5. ASSUME NEW lost \in SUBSET Trips, Crash(lost) PROVE NonceGivenOnce'
    BY <1>5 DEF Crash, NonceGivenOnce
  <1>6. QED
    BY <1>1, <1>2, <1>3, <1>4, <1>5, CallersFacts
       DEF Next, LoopStep, PauseStep, Network, OwnerStep, execVars, vars, PaperFill, Begin, Tripped,
           Simulate, AskPending, Estimate, Send, Receipt, PauseFailed

(* No executor gives out a number twice before a reset, for any number of  *)
(* pauses whose calls of take() overlap with those of the loop.            *)
THEOREM NoncesGivenOnce == Spec => []NonceGivenOnce
  <1>1. Init => NonceGivenOnce
    BY DEF Init, ExecInit, NonceGivenOnce
  <1>2. QED
    BY <1>1, NextNonceGivenOnce, OnchainTypes, PTL DEF Spec

-----------------------------------------------------------------------------
(* The strengthening of GapNeedsException.  A number is reached when a     *)
(* manager counts past it, a queued transaction waits for it, or a caller  *)
(* has a number above it; it is covered when it is queued, or held by a    *)
(* caller about to submit it.                                              *)
Holding == {"estimate", "send"}
Covered(n) == \/ n \in Queued
              \/ \E c \in Callers : pc[c] \in Holding /\ num[c] = n

Reached(n) == \/ \E m \in Callers : n < next[m]
              \/ \E c \in Callers : pc[c] = "taken" /\ n < num[c]
              \/ \E c \in Callers : pc[c] \in Holding /\ n <= num[c]
              \/ \E tx \in mempool : n <= tx.nonce

NoGap == ~threw => \A n \in Nat : Confirmed <= n /\ Reached(n) => Covered(n)

(* A step of callers that neither hold nor are about to hold a number.     *)
LEMMA OtherSteps ==
    ASSUME OnchainTypeOK, NoGap, UNCHANGED <<mempool, mined, threw>>,
           next' \in [Callers -> Int], \A m \in Callers : next'[m] <= next[m],
           \A c \in Callers : \/ pc'[c] = pc[c] /\ num'[c] = num[c]
                              \/ {pc[c], pc'[c]} \cap (Holding \cup {"taken"}) = {}
    PROVE  NoGap'
  <1> SUFFICES ASSUME ~threw', NEW n \in Nat, Confirmed' <= n, Reached(n)'
               PROVE  Covered(n)'
    BY DEF NoGap
  <1>1. \A m \in Callers : next[m] \in Int
    BY DEF OnchainTypeOK, Unset
  <1>2. (\E m \in Callers : n < next'[m]) => \E m \in Callers : n < next[m]
    BY <1>1
  <1>3. Reached(n)
    BY <1>2 DEF Reached, Holding
  <1>4. Covered(n)
    BY <1>3 DEF NoGap, Confirmed
  <1>5. QED
    BY <1>4 DEF Covered, Queued, Holding

(* Everything that stays as it is has been covered before.                 *)
LEMMA StillCovered ==
    ASSUME NEW n \in Nat, Covered(n), Queued \subseteq Queued',
           \A c \in Callers : pc[c] \in Holding => pc'[c] \in Holding /\ num'[c] = num[c]
    PROVE  Covered(n)'
  BY DEF Covered

LEMMA NextNoGap == OnchainTypeOK /\ NoGap /\ [Next]_vars => NoGap'
  <1> SUFFICES ASSUME OnchainTypeOK, NoGap, [Next]_vars PROVE NoGap'
    OBVIOUS
  <1>1. \A m \in Callers : next[m] \in Int
    BY DEF OnchainTypeOK, Unset
  <1>2. ASSUME UNCHANGED <<mempool, mined, threw, next, num>>,
               \A c \in Callers : \/ pc'[c] = pc[c]
                                  \/ {pc[c], pc'[c]} \cap (Holding \cup {"taken"}) = {}
        PROVE  NoGap'
    <2>1. next' \in [Callers -> Int] /\ \A m \in Callers : next'[m] <= next[m]
      BY <1>2, <1>1 DEF OnchainTypeOK, Unset
    <2>2. QED
      BY <1>2, <2>1, OtherSteps
  <1>3. ASSUME NEW t \in Trades, PaperFill(t) PROVE NoGap'
    BY <1>3, <1>2 DEF PaperFill, accountVars
  <1>4. ASSUME NEW t \in Trades, Begin(t) PROVE NoGap'
    <2>1. \A c \in Callers : pc'[c] = pc[c] \/ (pc[c] = "idle" /\ pc'[c] \in {"import", "simulate"})
      BY <1>4, CallersFacts DEF Begin, GetOnchain, Goto, Entry, OnchainTypeOK
    <2>2. QED
      BY <1>4, <2>1, <1>2 DEF Begin, accountVars, Holding
  <1>5. ASSUME NEW p \in Trips, Tripped(p) PROVE NoGap'
    <2>1. \A c \in Callers : pc'[c] = pc[c] \/ (pc[c] = "idle" /\ pc'[c] \in {"import", "take"})
      BY <1>5, CallersFacts DEF Tripped, GetOnchain, Goto, Entry, OnchainTypeOK
    <2>2. QED
      BY <1>5, <2>1, <1>2 DEF Tripped, accountVars, Holding
  <1>6. ASSUME NEW c \in Callers, Construct(c) PROVE NoGap'
    <2>1. /\ pc[c] = "import" /\ UNCHANGED <<mempool, mined, threw, num>>
          /\ \/ next' = [next EXCEPT ![c] = Unset] /\ Goto(c, Entry(c))
             \/ UNCHANGED next /\ Goto(Loop, "idle") /\ c = Loop
             \/ UNCHANGED next /\ Goto(c, "done")
      <3>1. CASE Constructible
        BY <1>6, <3>1 DEF Construct, accountVars
      <3>2. CASE ~Constructible
        BY <1>6, <3>2 DEF Construct, accountVars, Fails, Return, GiveUp
      <3>3. QED
        BY <3>1, <3>2
    <2>2. /\ next' \in [Callers -> Int] /\ \A m \in Callers : next'[m] <= next[m]
      BY <2>1, <1>1 DEF OnchainTypeOK, Unset
    <2>3. \A d \in Callers : pc'[d] = pc[d]
             \/ (pc[d] = "import" /\ pc'[d] \in {"idle", "simulate", "take", "done"})
      BY <2>1 DEF Goto, Entry, OnchainTypeOK
    <2>4. QED
      BY <2>1, <2>2, <2>3, OtherSteps DEF Holding
  <1>7. ASSUME Simulate PROVE NoGap'
    <2>1. \A c \in Callers : pc'[c] = pc[c] \/ (pc[c] = "simulate" /\ pc'[c] \in {"take", "idle"})
      BY <1>7 DEF Simulate, Return, Goto, OnchainTypeOK
    <2>2. QED
      BY <1>7, <2>1, <1>2 DEF Simulate, accountVars, Holding
  <1>8. ASSUME NEW c \in Callers, AskPending(c) PROVE NoGap'
    <2>1. PICK b \in Confirmed .. (Confirmed + Cardinality(mempool)) :
             IsPendingCount(b) /\ num' = [num EXCEPT ![c] = b]
      BY <1>8 DEF AskPending
    <2>2. /\ pc[c] = "take" /\ pc' = [pc EXCEPT ![c] = "taken"]
          /\ UNCHANGED <<mempool, mined, threw, next>>
      BY <1>8 DEF AskPending, Goto, accountVars
    <2>3. SUFFICES ASSUME ~threw', NEW n \in Nat, Confirmed' <= n, Reached(n)'
                   PROVE  Covered(n)'
      BY DEF NoGap
    <2>4. Confirmed <= n /\ ~threw
      BY <2>2, <2>3 DEF Confirmed
    <2>5. Reached(n) \/ n < b
      BY <2>1, <2>2, <2>3 DEF Reached, Holding, OnchainTypeOK
    <2>6. Covered(n)
      <3>1. CASE Reached(n)
        BY <3>1, <2>4 DEF NoGap
      <3>2. CASE n < b
        <4>1. b \in Int /\ Confirmed \in Nat
          BY <2>1 DEF Confirmed, OnchainTypeOK, AccountTypeOK
        <4>2. ~relayed => n \in Confirmed .. (b - 1)
          BY <3>2, <2>4, <4>1
        <4>3. relayed => b = Confirmed
          BY <2>1 DEF IsPendingCount
        <4>4. ~relayed => n \in Queued
          BY <2>1, <4>2 DEF IsPendingCount
        <4>5. ~relayed
          BY <3>2, <2>4, <4>1, <4>3
        <4>6. QED
          BY <4>4, <4>5 DEF Covered
      <3>3. QED
        BY <2>5, <3>1, <3>2
    <2>7. Queued \subseteq Queued'
      BY <2>2 DEF Queued
    <2>8. \A d \in Callers : pc[d] \in Holding => pc'[d] \in Holding /\ num'[d] = num[d]
      BY <2>1, <2>2 DEF Holding, OnchainTypeOK
    <2>9. QED
      BY <2>6, <2>7, <2>8, StillCovered
  <1>9. ASSUME NEW c \in Callers, Take(c) PROVE NoGap'
    <2>1. PICK m \in Callers, b \in Nat : /\ b = next[m] \/ b = num[c]
                                          /\ next' = [next EXCEPT ![m] = b + 1]
                                          /\ num' = [num EXCEPT ![c] = b]
      BY <1>9, TakeGives
    <2>2. num[c] \in Nat /\ next[m] \in Int
      BY <1>1 DEF OnchainTypeOK
    <2>4. /\ pc[c] = "taken" /\ UNCHANGED <<mempool, mined, threw>>
          /\ \E l \in Holding : pc' = [pc EXCEPT ![c] = l]
      BY <1>9 DEF Take, Goto, accountVars, Holding
    <2>5. SUFFICES ASSUME ~threw', NEW n \in Nat, Confirmed' <= n, Reached(n)'
                   PROVE  Covered(n)'
      BY DEF NoGap
    <2>6. Confirmed <= n /\ ~threw
      BY <2>4, <2>5 DEF Confirmed
    <2>7. n = b \/ n < b \/ Reached(n)
      BY <2>1, <2>4, <2>5, <1>1 DEF Reached, Holding, OnchainTypeOK
    <2>8. Queued \subseteq Queued'
      BY <2>4 DEF Queued
    <2>9. \A d \in Callers : pc[d] \in Holding => pc'[d] \in Holding /\ num'[d] = num[d]
      BY <2>1, <2>4 DEF Holding, OnchainTypeOK
    <2>10. CASE n = b
      <3>1. pc'[c] \in Holding /\ num'[c] = n
        BY <2>1, <2>4, <2>10 DEF OnchainTypeOK
      <3>2. QED
        BY <3>1 DEF Covered
    <2>11. CASE n < b \/ Reached(n)
      <3>1. n < b => Reached(n)
        BY <2>1, <2>4 DEF Reached
      <3>2. Covered(n)
        BY <2>11, <3>1, <2>6 DEF NoGap
      <3>3. QED
        BY <3>2, <2>8, <2>9, StillCovered
    <2>12. QED
      BY <2>7, <2>10, <2>11
  <1>10. ASSUME Estimate PROVE NoGap'
    <2>1. /\ pc[Loop] = "estimate" /\ pc' = [pc EXCEPT ![Loop] = "send"]
          /\ UNCHANGED <<mempool, mined, threw, next, num>>
      BY <1>10 DEF Estimate, Goto, accountVars
    <2>2. \A c \in Callers : /\ pc'[c] \in Holding <=> pc[c] \in Holding
                             /\ pc'[c] = "taken" <=> pc[c] = "taken"
      BY <2>1, CallersFacts DEF Holding, OnchainTypeOK
    <2>3. \A n : Reached(n)' => Reached(n)
      BY <2>1, <2>2 DEF Reached
    <2>4. \A n : Covered(n) => Covered(n)'
      BY <2>1, <2>2 DEF Covered, Queued
    <2>5. QED
      BY <2>1, <2>3, <2>4 DEF NoGap, Confirmed
  <1>11. ASSUME NEW c \in Callers, Send(c) PROVE NoGap'
    <2>1. PICK tx \in Tx : /\ tx.nonce = num[c]
                           /\ mempool' = {m \in mempool : m.nonce # tx.nonce} \cup {tx}
      BY <1>11, PayloadType DEF Send, Submit
    <2>2. /\ pc[c] = "send" /\ UNCHANGED <<mined, threw, next, num>>
          /\ \E l \in {"wait", "done"} : pc' = [pc EXCEPT ![c] = l]
      BY <1>11 DEF Send, Goto
    <2>3. \A d \in Callers : d # c => pc'[d] = pc[d]
      BY <2>2 DEF OnchainTypeOK
    <2>4. pc'[c] \notin Holding \cup {"taken"} /\ pc[c] \in Holding
      BY <2>2 DEF Holding, OnchainTypeOK
    <2>5. \A n \in Nat : Reached(n)' => Reached(n)
      BY <2>1, <2>2, <2>3, <2>4 DEF Reached
    <2>6. Queued \subseteq Queued' /\ num[c] \in Queued'
      BY <2>1 DEF Queued
    <2>7. \A n \in Nat : Covered(n) => Covered(n)'
      BY <2>2, <2>3, <2>4, <2>6 DEF Covered
    <2>8. QED
      BY <2>2, <2>5, <2>7 DEF NoGap, Confirmed
  <1>12. ASSUME Receipt PROVE NoGap'
    <2>1. pc[Loop] = "wait" /\ UNCHANGED <<mempool, mined, threw, next, num>>
      BY <1>12 DEF Receipt, accountVars
    <2>2. (Return("executed") /\ UNCHANGED attempt) \/ Retry
      BY <1>12 DEF Receipt
    <2>3. pc' = [pc EXCEPT ![Loop] = "idle"] \/ pc' = [pc EXCEPT ![Loop] = "take"]
      BY <2>2 DEF Retry, Return, Goto
    <2>4. \A c \in Callers : pc'[c] = pc[c] \/ (pc[c] = "wait" /\ pc'[c] \in {"take", "idle"})
      BY <2>1, <2>3 DEF OnchainTypeOK
    <2>5. QED
      BY <2>1, <2>4, <1>2 DEF Holding
  <1>13. ASSUME threw' PROVE NoGap'
    BY <1>13 DEF NoGap
  <1>14. ASSUME Network PROVE NoGap'
    <2>1. PICK tx \in mempool, ok \in BOOLEAN :
             /\ tx.nonce = Confirmed /\ mempool' = mempool \ {tx}
             /\ mined' = Append(mined, [tx |-> tx, ok |-> ok])
      BY <1>14 DEF Network, Mine
    <2>2. UNCHANGED <<threw, next, num, pc>>
      BY <1>14 DEF Network, execVars
    <2>3. Confirmed \in Nat /\ Confirmed' = Confirmed + 1
      BY <2>1 DEF Confirmed, OnchainTypeOK, AccountTypeOK
    <2>4. SUFFICES ASSUME ~threw', NEW n \in Nat, Confirmed' <= n, Reached(n)'
                   PROVE  Covered(n)'
      BY DEF NoGap
    <2>5. Reached(n)
      BY <2>1, <2>2, <2>4 DEF Reached
    <2>6. Covered(n)
      BY <2>2, <2>3, <2>4, <2>5 DEF NoGap
    <2>7. n \in Queued => n \in Queued'
      BY <2>1, <2>3, <2>4 DEF Queued
    <2>8. QED
      BY <2>2, <2>6, <2>7 DEF Covered
  <1>15. CASE OwnerStep \/ UNCHANGED vars
    BY <1>15, <1>2 DEF OwnerStep, Unpause, vars, execVars, accountVars
  <1>16. Caught \/ (\E p \in Trips : PauseFailed(p)) \/ (\E l \in SUBSET Trips : Crash(l)) => threw'
    BY DEF Caught, PauseFailed, Crash
  <1>17. QED
    BY <1>3, <1>4, <1>5, <1>6, <1>7, <1>8, <1>9, <1>10, <1>11, <1>12, <1>13, <1>14, <1>15,
       <1>16, CallersFacts DEF Next, LoopStep, PauseStep

(* Without an exception no transaction waits behind a gap of the nonces,   *)
(* for any number of trips and with two executors or one.                  *)
THEOREM GapsNeedExceptions == Spec => []GapNeedsException
  <1>1. Init => NoGap
    BY DEF Init, ExecInit, AccountInit, NoGap, Reached, Holding, Unset
  <1>2. OnchainTypeOK /\ NoGap => GapNeedsException
    <2> SUFFICES ASSUME OnchainTypeOK, NoGap, ~threw, NEW tx \in mempool,
                        NEW n \in Confirmed .. tx.nonce
                 PROVE  Covered(n)
      BY DEF GapNeedsException, Covered, Holding
    <2>1. Confirmed \in Nat /\ tx.nonce \in Nat
      BY DEF Confirmed, OnchainTypeOK, AccountTypeOK, Tx
    <2>2. n \in Nat /\ Confirmed <= n /\ n <= tx.nonce
      BY <2>1
    <2>3. QED
      BY <2>2 DEF NoGap, Reached
  <1>3. QED
    BY <1>1, <1>2, NextNoGap, OnchainTypes, PTL DEF Spec

-----------------------------------------------------------------------------
(* The chain mines the transactions of the account in the order of their   *)
(* numbers, and what is queued comes after what is mined.                  *)
ChainInv == /\ \A i \in DOMAIN mined : mined[i].tx.nonce = i - 1
            /\ \A tx \in mempool : tx.nonce >= Confirmed
            /\ \A tx, u \in mempool : tx.nonce = u.nonce => tx = u

LEMMA MinedType ==
    ASSUME OnchainTypeOK, NEW i \in DOMAIN mined
    PROVE  mined[i] \in [tx : Tx, ok : BOOLEAN] /\ mined[i].tx \in Tx
  <1>1. mined \in Seq([tx : Tx, ok : BOOLEAN])
    BY DEF OnchainTypeOK, AccountTypeOK
  <1>2. DOMAIN mined = 1 .. Len(mined)
    BY <1>1
  <1>3. \A S : \A s \in Seq(S) : \A n \in 1 .. Len(s) : s[n] \in S
    OBVIOUS
  <1>4. mined[i] \in [tx : Tx, ok : BOOLEAN]
    BY <1>1, <1>2, <1>3, Zenon
  <1>5. QED
    BY <1>4

(* What is mined has a number below every queued one.                      *)
LEMMA MinedBelow ==
    ASSUME OnchainTypeOK, ChainInv, NEW i \in DOMAIN mined
    PROVE  /\ mined[i].tx.nonce < Confirmed
           /\ \A tx \in mempool : tx.nonce # mined[i].tx.nonce
           /\ \A j \in DOMAIN mined : mined[j].tx.nonce = mined[i].tx.nonce => i = j
  <1>1. Len(mined) \in Nat /\ DOMAIN mined = 1 .. Len(mined)
    BY DEF OnchainTypeOK, AccountTypeOK
  <1>2. mined[i].tx.nonce = i - 1 /\ i \in 1 .. Len(mined)
    BY <1>1 DEF ChainInv
  <1>3. mined[i].tx.nonce < Confirmed
    BY <1>1, <1>2 DEF Confirmed
  <1>4. \A tx \in mempool : tx.nonce >= Confirmed /\ tx.nonce \in Nat
    BY DEF ChainInv, OnchainTypeOK, AccountTypeOK, Tx
  <1>5. ASSUME NEW j \in DOMAIN mined, mined[j].tx.nonce = mined[i].tx.nonce PROVE i = j
    <2>1. mined[j].tx.nonce = j - 1 /\ j \in 1 .. Len(mined)
      BY <1>1 DEF ChainInv
    <2>2. QED
      BY <1>2, <1>5, <2>1
  <1>6. QED
    BY <1>1, <1>2, <1>3, <1>4, <1>5 DEF Confirmed

LEMMA ChainSubmit ==
    ASSUME OnchainTypeOK, ChainInv, UNCHANGED mined, NEW tx \in Tx, Submit(tx)
    PROVE  ChainInv'
  <1>1. tx.nonce >= Confirmed /\ mempool' = {m \in mempool : m.nonce # tx.nonce} \cup {tx}
    BY DEF Submit
  <1>2. Confirmed' = Confirmed
    BY DEF Confirmed
  <1>3. QED
    BY <1>1, <1>2 DEF ChainInv

LEMMA ChainMined ==
    ASSUME OnchainTypeOK, ChainInv, Network
    PROVE  ChainInv'
  <1>1. PICK tx \in mempool, ok \in BOOLEAN :
           /\ tx.nonce = Confirmed /\ mempool' = mempool \ {tx}
           /\ mined' = Append(mined, [tx |-> tx, ok |-> ok])
    BY Zenon DEF Network, Mine
  <1>2. PICK k \in Nat : k = Len(mined) /\ k = Confirmed /\ DOMAIN mined = 1 .. k
    BY DEF OnchainTypeOK, AccountTypeOK, Confirmed
  <1>3. /\ DOMAIN mined' = 1 .. (k + 1) /\ Confirmed' = k + 1
        /\ \A i \in 1 .. k : mined'[i] = mined[i]
        /\ mined'[k + 1] = [tx |-> tx, ok |-> ok]
    BY <1>1, <1>2 DEF OnchainTypeOK, AccountTypeOK, Confirmed
  <1>4. ASSUME NEW i \in DOMAIN mined' PROVE mined'[i].tx.nonce = i - 1
    <2>1. CASE i \in 1 .. k
      BY <1>2, <1>3, <2>1 DEF ChainInv
    <2>2. CASE i = k + 1
      BY <1>1, <1>2, <1>3, <2>2
    <2>3. QED
      BY <1>3, <2>1, <2>2
  <1>5. ASSUME NEW u \in mempool' PROVE u.nonce >= k + 1
    <2>1. u \in mempool /\ u # tx /\ u.nonce \in Nat
      BY <1>1, <1>5 DEF OnchainTypeOK, AccountTypeOK, Tx
    <2>2. u.nonce >= k /\ u.nonce # k
      BY <1>1, <1>2, <2>1 DEF ChainInv
    <2>3. QED
      BY <2>1, <2>2
  <1>6. \A t, u \in mempool' : t.nonce = u.nonce => t = u
    BY <1>1 DEF ChainInv
  <1>7. QED
    BY <1>3, <1>4, <1>5, <1>6 DEF ChainInv

LEMMA NextChainInv == OnchainTypeOK /\ ChainInv /\ [Next]_vars => ChainInv'
  <1> SUFFICES ASSUME OnchainTypeOK, ChainInv, [Next]_vars PROVE ChainInv'
    OBVIOUS
  <1>1. CASE UNCHANGED <<mempool, mined>>
    BY <1>1 DEF ChainInv, Confirmed
  <1>2. ASSUME NEW c \in Callers, pc[c] # "idle", UNCHANGED mined, Submit(Payload(c))
        PROVE  ChainInv'
    BY <1>2, PayloadType, ChainSubmit
  <1>3. ASSUME NEW c \in Callers, Send(c) PROVE ChainInv'
    BY <1>3, <1>2 DEF Send
  <1>4. ASSUME Caught PROVE ChainInv'
    BY <1>4, <1>1, <1>2, CallersFacts DEF Caught
  <1>5. ASSUME NEW p \in Trips, PauseFailed(p) PROVE ChainInv'
    BY <1>5, <1>1, <1>2, CallersFacts DEF PauseFailed
  <1>6. QED
    BY <1>1, <1>3, <1>4, <1>5, ChainMined, CallersFacts
       DEF Next, LoopStep, PauseStep, OwnerStep, Unpause, vars, accountVars, PaperFill, Begin,
           Tripped, Construct, Simulate, AskPending, Take, Estimate, Receipt, Crash

LEMMA NoncesInOrder == Spec => []ChainInv
  <1>1. Init => ChainInv
    BY DEF Init, AccountInit, ChainInv
  <1>2. QED
    BY <1>1, NextChainInv, OnchainTypes, PTL DEF Spec

-----------------------------------------------------------------------------
(* What the refinement rests on: nothing happens on the chain in paper     *)
(* mode, nothing directional is ever submitted, and a trade has no status  *)
(* before execute() has returned.                                          *)
Submitting == {"take", "taken", "estimate", "send", "wait"}

PaperIsQuiet == config.mode = "paper" =>
                   /\ mempool = {} /\ job = None
                   /\ \A c \in Callers : pc[c] \in {"idle", "done"}
CyclesOnly == /\ \A tx \in mempool : tx.of \notin Directional
              /\ pc[Loop] \in Submitting => job \notin Directional
OneStatus == job # None => fills[job] = None

SettleInv == PaperIsQuiet /\ CyclesOnly /\ OneStatus

LEMMA SubmitCycle ==
    ASSUME OnchainTypeOK, CyclesOnly, NEW c \in Callers, pc[c] \in Submitting, Submit(Payload(c))
    PROVE  \A tx \in mempool' : tx.of \notin Directional
  <1>1. Payload(c).of \notin Directional
    <2>1. CASE c = Loop
      BY <2>1 DEF Payload, CyclesOnly
    <2>2. CASE c # Loop
      BY <2>2 DEF Payload, Callers
    <2>3. QED
      BY <2>1, <2>2
  <1>2. PICK tx : tx = Payload(c)
    OBVIOUS
  <1>3. mempool' = {m \in mempool : m.nonce # tx.nonce} \cup {tx}
    BY <1>2 DEF Submit
  <1>4. QED
    BY <1>1, <1>2, <1>3 DEF CyclesOnly

(* How a retry ends: another attempt for the same trade, or "failed".      *)
LEMMA RetryEnds ==
    ASSUME OnchainTypeOK, pc[Loop] \in Submitting, Retry
    PROVE  /\ \A c \in Callers : c # Loop => pc'[c] = pc[c]
           /\ \/ pc'[Loop] = "take" /\ UNCHANGED <<fills, job>>
              \/ pc'[Loop] = "idle" /\ job' = None /\ fills' = [fills EXCEPT ![job] = "failed"]
  <1>1. Loop \in Callers /\ pc \in [Callers -> Pc]
    BY CallersFacts DEF OnchainTypeOK
  <1>2. CASE attempt < MaxRetries
    BY <1>1, <1>2 DEF Retry, Goto
  <1>3. CASE ~(attempt < MaxRetries)
    BY <1>1, <1>3 DEF Retry, Return, Goto
  <1>4. QED
    BY <1>2, <1>3

LEMMA InitSettleInv == Init => SettleInv
  BY DEF Init, AccountInit, ExecInit, SettleInv, PaperIsQuiet, CyclesOnly, OneStatus, Submitting

LEMMA NextSettleInv == OnchainTypeOK /\ SettleInv /\ [Next]_vars => SettleInv'
  <1> SUFFICES ASSUME OnchainTypeOK, SettleInv, [Next]_vars PROVE SettleInv'
    OBVIOUS
  <1> USE DEF SettleInv, PaperIsQuiet
  <1>0. Loop \in Callers /\ pc \in [Callers -> Pc] /\ fills \in [Trades -> {"executed", "failed", "lost", None}]
        /\ job \in Trades \cup {None} /\ None \notin Trades
        /\ (job = None <=> pc[Loop] = "idle")
    BY CallersFacts DEF OnchainTypeOK
  <1>1. ASSUME NEW t \in Trades, PaperFill(t) PROVE SettleInv'
    BY <1>0, <1>1 DEF PaperFill, accountVars, CyclesOnly, OneStatus
  <1>2. ASSUME NEW t \in Trades, Begin(t) PROVE SettleInv'
    <2>1. pc'[Loop] \in {"import", "simulate"}
      BY <1>0, <1>2 DEF Begin, GetOnchain, Goto, Entry
    <2>2. QED
      BY <1>2, <2>1 DEF Begin, accountVars, CyclesOnly, OneStatus, Submitting
  <1>3. ASSUME NEW p \in Trips, Tripped(p) PROVE SettleInv'
    <2>1. pc'[Loop] = pc[Loop]
      BY <1>0, <1>3, CallersFacts DEF Tripped, GetOnchain, Goto
    <2>2. QED
      BY <1>3, <2>1 DEF Tripped, accountVars, CyclesOnly, OneStatus
  <1>4. ASSUME NEW c \in Callers, Construct(c) PROVE SettleInv'
    <2>1. UNCHANGED <<mempool, config>> /\ pc[c] = "import" /\ config.mode # "paper"
      BY <1>4 DEF Construct, accountVars
    <2>2. CASE Constructible
      <3>1. /\ pc' = [pc EXCEPT ![c] = Entry(c)] /\ UNCHANGED <<fills, job>>
        BY <1>4, <2>2 DEF Construct, Goto
      <3>2. pc'[Loop] = pc[Loop] \/ pc'[Loop] = "simulate"
        BY <1>0, <3>1 DEF Entry
      <3>3. QED
        BY <2>1, <3>1, <3>2 DEF CyclesOnly, OneStatus, Submitting
    <2>3. CASE ~Constructible /\ c = Loop
      <3>1. job' = None /\ pc'[Loop] = "idle"
        BY <1>0, <1>4, <2>3 DEF Construct, Fails, Return, Goto
      <3>2. QED
        BY <2>1, <3>1 DEF CyclesOnly, OneStatus, Submitting
    <2>4. CASE ~Constructible /\ c # Loop
      <3>1. UNCHANGED <<fills, job>> /\ pc'[Loop] = pc[Loop]
        BY <1>0, <1>4, <2>4 DEF Construct, Fails, GiveUp, Goto
      <3>2. QED
        BY <2>1, <3>1 DEF CyclesOnly, OneStatus
    <2>5. QED
      BY <2>2, <2>3, <2>4
  <1>5. ASSUME Simulate PROVE SettleInv'
    <2>1. UNCHANGED <<mempool, config>> /\ config.mode # "paper"
      BY <1>0, <1>5 DEF Simulate, accountVars
    <2>2. \/ job \notin Directional /\ UNCHANGED <<fills, job>>
          \/ job' = None /\ pc'[Loop] = "idle"
      BY <1>0, <1>5 DEF Simulate, Return, Goto
    <2>3. QED
      BY <2>1, <2>2 DEF CyclesOnly, OneStatus, Submitting
  <1>6. ASSUME NEW c \in Callers, AskPending(c) PROVE SettleInv'
    BY <1>0, <1>6 DEF AskPending, Goto, accountVars, CyclesOnly, OneStatus, Submitting
  <1>7. ASSUME NEW c \in Callers, Take(c) PROVE SettleInv'
    <2>1. /\ pc[c] = "taken" /\ UNCHANGED <<accountVars, config, job, fills>>
          /\ \E l \in {"estimate", "send"} : pc' = [pc EXCEPT ![c] = l]
      BY <1>7 DEF Take, Goto
    <2>2. QED
      BY <1>0, <2>1 DEF accountVars, CyclesOnly, OneStatus, Submitting
  <1>8. ASSUME Estimate PROVE SettleInv'
    BY <1>0, <1>8 DEF Estimate, Goto, accountVars, CyclesOnly, OneStatus, Submitting
  <1>9. ASSUME NEW c \in Callers, Send(c) PROVE SettleInv'
    <2>1. /\ pc[c] = "send" /\ UNCHANGED <<config, job, fills>>
          /\ \E l \in {"wait", "done"} : pc' = [pc EXCEPT ![c] = l]
      BY <1>9 DEF Send, Goto
    <2>2. \A tx \in mempool' : tx.of \notin Directional
      BY <1>9, <2>1, SubmitCycle DEF Send, Submitting
    <2>3. QED
      BY <1>0, <2>1, <2>2 DEF CyclesOnly, OneStatus, Submitting
  <1>10. ASSUME Receipt PROVE SettleInv'
    <2>1. UNCHANGED <<mempool, config>> /\ pc[Loop] = "wait"
      BY <1>10 DEF Receipt, accountVars
    <2>2. (Return("executed") /\ UNCHANGED attempt) \/ Retry
      BY <1>10 DEF Receipt
    <2>3. \/ pc'[Loop] = "take" /\ UNCHANGED <<fills, job>>
          \/ pc'[Loop] = "idle" /\ job' = None
      BY <1>0, <2>1, <2>2, RetryEnds DEF Return, Goto, Submitting
    <2>4. QED
      BY <1>0, <2>1, <2>3 DEF CyclesOnly, OneStatus, Submitting
  <1>11. ASSUME Caught PROVE SettleInv'
    <2>1. UNCHANGED config /\ pc[Loop] \in Submitting /\ Retry
      BY <1>11 DEF Caught, Submitting
    <2>2. \A tx \in mempool' : tx.of \notin Directional
      BY <1>0, <1>11, <2>1, SubmitCycle DEF Caught, CyclesOnly
    <2>3. QED
      BY <1>0, <2>1, <2>2, RetryEnds DEF CyclesOnly, OneStatus, Submitting
  <1>12. ASSUME NEW p \in Trips, PauseFailed(p) PROVE SettleInv'
    <2>1. /\ UNCHANGED <<config, job, fills>> /\ pc[p] \in Submitting
          /\ pc'[Loop] = pc[Loop]
      BY <1>0, <1>12, CallersFacts DEF PauseFailed, GiveUp, Goto, Submitting
    <2>2. \A tx \in mempool' : tx.of \notin Directional
      BY <1>12, <2>1, SubmitCycle, CallersFacts DEF PauseFailed, CyclesOnly
    <2>3. config.mode # "paper"
      BY <2>1, CallersFacts DEF Submitting
    <2>4. QED
      BY <2>1, <2>2, <2>3 DEF CyclesOnly, OneStatus
  <1>13. ASSUME NEW lost \in SUBSET Trips, Crash(lost) PROVE SettleInv'
    BY <1>0, <1>13 DEF Crash, accountVars, CyclesOnly, OneStatus, Submitting
  <1>14. ASSUME Network PROVE SettleInv'
    <2>1. PICK tx \in mempool : mempool' = mempool \ {tx}
      BY <1>14 DEF Network, Mine
    <2>2. QED
      BY <1>14, <2>1 DEF Network, execVars, CyclesOnly, OneStatus
  <1>15. CASE OwnerStep \/ UNCHANGED vars
    BY <1>15 DEF OwnerStep, Unpause, vars, execVars, accountVars, CyclesOnly, OneStatus
  <1>16. QED
    BY <1>1, <1>2, <1>3, <1>4, <1>5, <1>6, <1>7, <1>8, <1>9, <1>10, <1>11, <1>12, <1>13,
       <1>14, <1>15, CallersFacts DEF Next, LoopStep, PauseStep

-----------------------------------------------------------------------------
(* While the loop waits for a receipt, only a pause can take the place of  *)
(* its transaction: the loop itself submits nothing else meanwhile.        *)
InPlace(tx) == tx.nonce = num[Loop] => tx = Payload(Loop) \/ tx.of \in Trips
WaitInv == pc[Loop] = "wait" => /\ \A tx \in mempool : InPlace(tx)
                                /\ \A i \in DOMAIN mined : InPlace(mined[i].tx)

(* The loop waits on, or it has just submitted.                            *)
LEMMA StillWaiting ==
    ASSUME OnchainTypeOK, [Next]_vars, pc'[Loop] = "wait"
    PROVE  \/ Send(Loop)
           \/ /\ pc[Loop] = "wait" /\ UNCHANGED <<job, attempt>> /\ num'[Loop] = num[Loop]
              /\ \/ UNCHANGED <<mempool, mined>> \/ Network
                 \/ \E p \in Trips : Send(p) \/ PauseFailed(p)
  <1> DEFINE Aside == /\ pc[Loop] = "wait" /\ UNCHANGED <<mempool, mined, job, attempt>>
                      /\ num'[Loop] = num[Loop]
  <1>0. Loop \in Callers /\ pc \in [Callers -> Pc] /\ num \in [Callers -> Nat]
    BY CallersFacts DEF OnchainTypeOK
  <1>1. ASSUME NEW c \in Callers, Construct(c) PROVE Aside
    <2>1. UNCHANGED <<mempool, mined, attempt, num>>
      BY <1>1 DEF Construct, accountVars
    <2>2. CASE Constructible
      <3>1. UNCHANGED job /\ pc' = [pc EXCEPT ![c] = Entry(c)] /\ Entry(c) # "wait"
        BY <1>1, <2>2 DEF Construct, Goto, Entry
      <3>2. QED
        BY <1>0, <2>1, <3>1
    <2>3. CASE ~Constructible
      <3>1. c # Loop
        BY <1>0, <1>1, <2>3 DEF Construct, Fails, Return, Goto
      <3>2. UNCHANGED job /\ pc' = [pc EXCEPT ![c] = "done"]
        BY <1>1, <2>3, <3>1 DEF Construct, Fails, GiveUp, Goto
      <3>3. QED
        BY <1>0, <2>1, <3>1, <3>2
    <2>4. QED
      BY <2>2, <2>3
  <1>2. ASSUME NEW c \in Callers, AskPending(c) \/ Take(c) PROVE Aside
    <2>1. /\ UNCHANGED <<mempool, mined, job, attempt>>
          /\ \E n : num' = [num EXCEPT ![c] = n]
          /\ \E l \in {"taken", "estimate", "send"} : pc' = [pc EXCEPT ![c] = l]
      BY <1>2 DEF AskPending, Take, Goto, accountVars
    <2>2. QED
      BY <1>0, <2>1
  <1>3. ASSUME NEW p \in Trips, Tripped(p) PROVE Aside
    BY <1>0, <1>3, CallersFacts DEF Tripped, GetOnchain, Goto, accountVars
  <1>4. ASSUME NEW p \in Trips, Send(p) \/ PauseFailed(p)
        PROVE  pc[Loop] = "wait" /\ UNCHANGED <<job, attempt, num>>
    BY <1>0, <1>4, CallersFacts DEF Send, PauseFailed, GiveUp, Goto
  <1>5. Network => pc[Loop] = "wait" /\ UNCHANGED <<job, attempt, num>>
    BY DEF Network, execVars
  <1>6. ~Retry /\ \A s : ~Return(s)
    BY <1>0 DEF Retry, Return, Goto
  <1>7. ~Simulate /\ ~Estimate /\ ~Receipt /\ ~Caught
    BY <1>0, <1>6 DEF Simulate, Estimate, Receipt, Caught, Goto
  <1>8. /\ \A t \in Trades : ~Begin(t)
        /\ \A lost \in SUBSET Trips : ~Crash(lost)
    BY <1>0 DEF Begin, GetOnchain, Entry, Goto, Crash
  <1>9. (\E t \in Trades : PaperFill(t)) \/ OwnerStep \/ UNCHANGED vars => Aside
    BY DEF PaperFill, OwnerStep, Unpause, vars, execVars, accountVars
  <1> HIDE DEF Aside
  <1>10. Aside \/ Send(Loop) \/ Network \/ \E p \in Trips : Send(p) \/ PauseFailed(p)
    BY <1>1, <1>2, <1>3, <1>7, <1>8, <1>9, CallersFacts DEF Next, LoopStep, PauseStep
  <1>11. QED
    BY <1>4, <1>5, <1>10 DEF Aside

LEMMA NextWaitInv == OnchainTypeOK /\ ChainInv /\ WaitInv /\ [Next]_vars => WaitInv'
  <1> SUFFICES ASSUME OnchainTypeOK, ChainInv, WaitInv, [Next]_vars, pc'[Loop] = "wait"
               PROVE  /\ \A tx \in mempool' : InPlace(tx)'
                      /\ \A i \in DOMAIN mined' : InPlace(mined[i].tx)'
    BY DEF WaitInv, InPlace
  <1>0. Loop \in Callers /\ pc \in [Callers -> Pc] /\ num \in [Callers -> Nat]
    BY CallersFacts DEF OnchainTypeOK
  <1>1. ASSUME pc[Loop] = "wait", UNCHANGED <<mined, job, attempt>>, num'[Loop] = num[Loop],
               \A tx \in mempool' : tx \in mempool \/ tx.of \in Trips
        PROVE  /\ \A tx \in mempool' : InPlace(tx)'
               /\ \A i \in DOMAIN mined' : InPlace(mined[i].tx)'
    <2>1. Payload(Loop)' = Payload(Loop)
      BY <1>1 DEF Payload
    <2>2. QED
      BY <1>1, <2>1 DEF WaitInv, InPlace
  <1>2. ASSUME Send(Loop)
        PROVE  /\ \A tx \in mempool' : InPlace(tx)'
               /\ \A i \in DOMAIN mined' : InPlace(mined[i].tx)'
    <2>1. /\ UNCHANGED <<mined, num, job, attempt>> /\ num[Loop] >= Confirmed
          /\ mempool' = {m \in mempool : m.nonce # num[Loop]} \cup {Payload(Loop)}
      BY <1>2 DEF Send, Submit, Payload
    <2>2. Payload(Loop)' = Payload(Loop)
      BY <2>1 DEF Payload
    <2>3. \A i \in DOMAIN mined : mined[i].tx.nonce # num[Loop]
      <3>1. Confirmed \in Nat /\ num[Loop] \in Nat
        BY <1>0 DEF OnchainTypeOK, AccountTypeOK, Confirmed
      <3>2. \A i \in DOMAIN mined : mined[i].tx.nonce < Confirmed
        BY MinedBelow
      <3>3. QED
        BY <2>1, <3>1, <3>2
    <2>4. QED
      BY <2>1, <2>2, <2>3 DEF InPlace
  <1>3. ASSUME NEW p \in Trips, Send(p) \/ PauseFailed(p)
        PROVE  /\ \A tx \in mempool' : InPlace(tx)'
               /\ \A i \in DOMAIN mined' : InPlace(mined[i].tx)'
    <2>1. /\ UNCHANGED <<mined, num, job, attempt>> /\ pc'[Loop] = pc[Loop]
          /\ UNCHANGED mempool \/ Submit(Payload(p))
      BY <1>0, <1>3, CallersFacts DEF Send, PauseFailed, GiveUp, Goto
    <2>2. Payload(p).of \in Trips
      BY CallersFacts DEF Payload
    <2>3. \A tx \in mempool' : tx \in mempool \/ tx.of \in Trips
      BY <2>1, <2>2 DEF Submit
    <2>4. QED
      BY <1>1, <2>1, <2>3
  <1>4. ASSUME Network
        PROVE  /\ \A tx \in mempool' : InPlace(tx)'
               /\ \A i \in DOMAIN mined' : InPlace(mined[i].tx)'
    <2>1. PICK tx \in mempool, ok \in BOOLEAN :
             /\ mempool' = mempool \ {tx}
             /\ mined' = Append(mined, [tx |-> tx, ok |-> ok])
      BY <1>4, Zenon DEF Network, Mine
    <2>2. UNCHANGED <<pc, num, job, attempt>>
      BY <1>4 DEF Network, execVars
    <2>3. Payload(Loop)' = Payload(Loop)
      BY <2>2 DEF Payload
    <2>4. PICK k \in Nat : k = Len(mined) /\ DOMAIN mined = 1 .. k
      BY DEF OnchainTypeOK, AccountTypeOK
    <2>5. /\ DOMAIN mined' = 1 .. (k + 1)
          /\ \A i \in 1 .. k : mined'[i] = mined[i]
          /\ mined'[k + 1] = [tx |-> tx, ok |-> ok]
      BY <2>1, <2>4 DEF OnchainTypeOK, AccountTypeOK
    <2>6. \A u \in mempool : InPlace(u)
      BY <2>2 DEF WaitInv
    <2>7. \A i \in 1 .. k : InPlace(mined[i].tx)
      BY <2>2, <2>4 DEF WaitInv
    <2>8. ASSUME NEW i \in 1 .. (k + 1) PROVE InPlace(mined[i].tx)'
      <3>1. CASE i \in 1 .. k
        BY <2>2, <2>3, <2>5, <2>7, <3>1 DEF InPlace
      <3>2. CASE i = k + 1
        BY <2>2, <2>3, <2>5, <2>6, <3>2 DEF InPlace
      <3>3. QED
        BY <3>1, <3>2
    <2>9. QED
      BY <2>1, <2>2, <2>3, <2>5, <2>6, <2>8 DEF InPlace
  <1>5. QED
    BY <1>1, <1>2, <1>3, <1>4, StillWaiting

LEMMA OnlyPausesReplace == Spec => []WaitInv
  <1>1. Init => WaitInv
    BY CallersFacts DEF Init, ExecInit, WaitInv
  <1>2. QED
    BY <1>1, NextWaitInv, NoncesInOrder, OnchainTypes, PTL DEF Spec

-----------------------------------------------------------------------------
(* Every step of the executor is a step of Settlement or leaves it alone.  *)
LEMMA Stutters ==
    ASSUME UNCHANGED <<config, mined, paused, fills>>
    PROVE  UNCHANGED Abstract!vars
  BY DEF Settled, Succeeded, PausedOnce, Abstract!vars

LEMMA Reports ==
    ASSUME OneStatus, UNCHANGED <<config, mined, paused>>, NEW t \in Trades,
           NEW s \in {"executed", "failed", "lost"}, t = job, job # None,
           fills' = [fills EXCEPT ![t] = s], s = "executed" => t \in Settled \/ PausedOnce
    PROVE  Abstract!Next
  <1>1. fills[t] = "none"
    BY DEF OneStatus, None
  <1>2. Settled' = Settled /\ PausedOnce' = PausedOnce
    BY DEF Settled, Succeeded, PausedOnce
  <1>3. Abstract!Report(t, s)
    BY <1>1, <1>2 DEF Abstract!Report
  <1>4. QED
    BY <1>3 DEF Abstract!Next

LEMMA ReturnReports ==
    ASSUME OnchainTypeOK, OneStatus, UNCHANGED <<config, mined, paused>>, pc[Loop] # "idle",
           NEW s \in {"executed", "failed"}, Return(s),
           s = "executed" => job \in Settled \/ PausedOnce
    PROVE  Abstract!Next
  <1>1. PICK t \in Trades : t = job
    BY DEF OnchainTypeOK
  <1>2. fills' = [fills EXCEPT ![t] = s] /\ job # None
    BY <1>1, CallersFacts DEF Return
  <1>3. QED
    BY <1>1, <1>2, Reports

LEMMA RetryReports ==
    ASSUME OnchainTypeOK, OneStatus, UNCHANGED <<config, mined, paused>>, pc[Loop] # "idle", Retry
    PROVE  Abstract!Next \/ UNCHANGED Abstract!vars
  <1>1. CASE attempt < MaxRetries
    BY <1>1, Stutters DEF Retry
  <1>2. CASE ~(attempt < MaxRetries)
    BY <1>2, ReturnReports DEF Retry
  <1>3. QED
    BY <1>1, <1>2

(* What has been carried out after a transaction is mined.                 *)
LEMMA MinedSettles ==
    ASSUME OnchainTypeOK, NEW tx \in Tx, NEW ok \in BOOLEAN,
           mined' = Append(mined, [tx |-> tx, ok |-> ok])
    PROVE  /\ ok /\ tx.of \in Trades => Settled' = Settled \cup {tx.of}
           /\ ~(ok /\ tx.of \in Trades) => Settled' = Settled
           /\ PausedOnce' <=> PausedOnce \/ (ok /\ tx.of \in Trips)
  <1>1. /\ Len(mined) \in Nat /\ DOMAIN mined = 1 .. Len(mined)
        /\ DOMAIN mined' = 1 .. Len(mined) + 1
        /\ \A i \in 1 .. Len(mined) : mined'[i] = mined[i]
        /\ mined'[Len(mined) + 1] = [tx |-> tx, ok |-> ok]
    BY DEF OnchainTypeOK, AccountTypeOK
  <1>2. ASSUME NEW t
        PROVE  Succeeded(t)' # {} <=> Succeeded(t) # {} \/ (ok /\ tx.of = t)
    <2>1. Succeeded(t) # {} <=> \E i \in DOMAIN mined : mined[i].tx.of = t /\ mined[i].ok
      BY DEF Succeeded
    <2>2. Succeeded(t)' # {} <=> \E i \in DOMAIN mined' : mined'[i].tx.of = t /\ mined'[i].ok
      BY DEF Succeeded
    <2>3. (\E i \in DOMAIN mined' : mined'[i].tx.of = t /\ mined'[i].ok)
             <=> \/ \E i \in DOMAIN mined : mined[i].tx.of = t /\ mined[i].ok
                 \/ ok /\ tx.of = t
      BY <1>1
    <2>4. QED
      BY <2>1, <2>2, <2>3
  <1>3. /\ Settled = {t \in Trades : Succeeded(t) # {}}
        /\ Settled' = {t \in Trades : Succeeded(t)' # {}}
    BY DEF Settled
  <1>4. /\ PausedOnce <=> \E p \in Trips : Succeeded(p) # {}
        /\ PausedOnce' <=> \E p \in Trips : Succeeded(p)' # {}
    BY DEF PausedOnce
  <1>5. ASSUME NEW t \in Trades
        PROVE  t \in Settled' <=> t \in Settled \/ (ok /\ tx.of = t)
    BY <1>2, <1>3
  <1>6. Settled \subseteq Trades /\ Settled' \subseteq Trades
    BY <1>3
  <1>7. PausedOnce' <=> PausedOnce \/ (ok /\ tx.of \in Trips)
    <2>1. \A p \in Trips : Succeeded(p)' # {} <=> Succeeded(p) # {} \/ (ok /\ tx.of = p)
      BY <1>2
    <2>2. QED
      BY <1>4, <2>1
  <1>8. QED
    BY <1>5, <1>6, <1>7

LEMMA NetworkSettles ==
    ASSUME OnchainTypeOK, SettleInv, Network
    PROVE  Abstract!Next \/ UNCHANGED Abstract!vars
  <1>1. PICK tx \in mempool, ok \in BOOLEAN :
           /\ paused /\ tx.of \in Trades => ~ok
           /\ mined' = Append(mined, [tx |-> tx, ok |-> ok])
           /\ paused' = (paused \/ (ok /\ tx.of \in Trips))
    BY Zenon DEF Network, Mine
  <1>2. tx \in Tx /\ tx.of \in Trades \cup Trips /\ tx.of \notin Directional
        /\ config.mode # "paper" /\ UNCHANGED <<config, fills>> /\ paused \in BOOLEAN
    BY DEF OnchainTypeOK, AccountTypeOK, Tx, Network, execVars, SettleInv, CyclesOnly, PaperIsQuiet
  <1>3. /\ ok /\ tx.of \in Trades => Settled' = Settled \cup {tx.of}
        /\ ~(ok /\ tx.of \in Trades) => Settled' = Settled
        /\ PausedOnce' <=> PausedOnce \/ (ok /\ tx.of \in Trips)
    BY <1>1, <1>2, MinedSettles
  <1>4. PausedOnce \in BOOLEAN /\ PausedOnce' \in BOOLEAN
    BY DEF PausedOnce
  <1>5. CASE ok /\ tx.of \in Trips
    <2>1. paused' = TRUE /\ Settled' = Settled /\ PausedOnce' = TRUE
      BY <1>1, <1>3, <1>4, <1>5
    <2>2. Abstract!Halt
      BY <1>2, <2>1 DEF Abstract!Halt
    <2>3. QED
      BY <2>2 DEF Abstract!Next
  <1>6. CASE ok /\ tx.of \in Trades
    <2>1. paused = FALSE /\ paused' = FALSE
      BY <1>1, <1>2, <1>6
    <2>2. PICK t \in Trades \ Directional : t = tx.of
      BY <1>2, <1>6
    <2>3. Settled' = Settled \cup {t} /\ PausedOnce' = PausedOnce
      BY <1>3, <1>4, <1>6, <2>2
    <2>4. Abstract!Settle(t)
      BY <1>2, <2>1, <2>3 DEF Abstract!Settle
    <2>5. QED
      BY <2>4 DEF Abstract!Next
  <1>7. CASE ~ok
    <2>1. paused' = paused
      BY <1>1, <1>2, <1>7
    <2>2. Settled' = Settled /\ PausedOnce' = PausedOnce
      BY <1>3, <1>4, <1>7
    <2>3. QED
      BY <1>2, <2>1, <2>2 DEF Abstract!vars
  <1>8. QED
    BY <1>2, <1>5, <1>6, <1>7

(* The receipt of the cycle, or that of a pause mined in its place: then   *)
(* the node had seen the cycle queued.                                     *)
LEMMA ReceiptExplained ==
    ASSUME OnchainTypeOK, WaitInv, pc[Loop] = "wait",
           NEW i \in DOMAIN mined, IsReceipt(mined[i]), mined[i].ok
    PROVE  job \in Settled \/ (PausedOnce /\ ~relayed)
  <1>1. job \in Trades /\ Payload(Loop).of = job /\ Payload(Loop).nonce = num[Loop]
    BY CallersFacts DEF Payload, OnchainTypeOK
  <1>2. mined[i].tx = Payload(Loop) => job \in Settled
    BY <1>1 DEF Settled, Succeeded
  <1>3. mined[i].tx.of \in Trips => PausedOnce
    BY DEF PausedOnce, Succeeded
  <1>4. mined[i].tx # Payload(Loop) => ~relayed /\ mined[i].tx.of \in Trips
    BY DEF IsReceipt, WaitInv, InPlace
  <1>5. QED
    BY <1>2, <1>3, <1>4

LEMMA StepSettles ==
    OnchainTypeOK /\ SettleInv /\ WaitInv /\ [Next]_vars => [Abstract!Next]_(Abstract!vars)
  <1> SUFFICES ASSUME OnchainTypeOK, SettleInv, WaitInv, [Next]_vars
               PROVE  Abstract!Next \/ UNCHANGED Abstract!vars
    OBVIOUS
  <1>0. OneStatus
    BY DEF SettleInv
  <1>1. ASSUME NEW t \in Trades, PaperFill(t) PROVE Abstract!Next
    <2>1. /\ config.mode = "paper" /\ fills[t] = "none" /\ fills' = [fills EXCEPT ![t] = "executed"]
          /\ UNCHANGED <<config, mined, paused>>
      BY <1>1 DEF PaperFill, None, accountVars
    <2>2. Settled' = Settled /\ PausedOnce' = PausedOnce
      BY <2>1 DEF Settled, Succeeded, PausedOnce
    <2>3. Abstract!Report(t, "executed")
      BY <2>1, <2>2 DEF Abstract!Report
    <2>4. QED
      BY <2>3 DEF Abstract!Next
  <1>2. ASSUME NEW c \in Callers, Construct(c) PROVE Abstract!Next \/ UNCHANGED Abstract!vars
    <2>1. pc[c] = "import" /\ UNCHANGED <<config, mined, paused>>
      BY <1>2 DEF Construct, accountVars
    <2>2. CASE Constructible \/ c # Loop
      <3>1. UNCHANGED fills
        <4>1. CASE Constructible
          BY <1>2, <4>1 DEF Construct
        <4>2. CASE ~Constructible /\ c # Loop
          BY <1>2, <4>2 DEF Construct, Fails, GiveUp
        <4>3. QED
          BY <2>2, <4>1, <4>2
      <3>2. QED
        BY <2>1, <3>1, Stutters
    <2>3. CASE ~Constructible /\ c = Loop
      <3>1. Return("failed")
        BY <1>2, <2>3 DEF Construct, Fails
      <3>2. QED
        BY <1>0, <2>1, <2>3, <3>1, ReturnReports
    <2>4. QED
      BY <2>2, <2>3
  <1>3. ASSUME Simulate PROVE Abstract!Next \/ UNCHANGED Abstract!vars
    <2>1. pc[Loop] = "simulate" /\ UNCHANGED <<config, mined, paused>>
      BY <1>3 DEF Simulate, accountVars
    <2>2. UNCHANGED fills \/ Return("failed")
      BY <1>3 DEF Simulate
    <2>3. QED
      BY <1>0, <2>1, <2>2, Stutters, ReturnReports
  <1>4. ASSUME Receipt PROVE Abstract!Next \/ UNCHANGED Abstract!vars
    <2>1. pc[Loop] = "wait" /\ UNCHANGED <<config, mined, paused>>
      BY <1>4 DEF Receipt, accountVars
    <2>2. PICK i \in DOMAIN mined :
             /\ IsReceipt(mined[i])
             /\ IF mined[i].ok THEN Return("executed") /\ UNCHANGED attempt ELSE Retry
      BY <1>4 DEF Receipt
    <2>3. CASE mined[i].ok
      <3>1. job \in Settled \/ PausedOnce
        BY <2>1, <2>2, <2>3, ReceiptExplained
      <3>2. Return("executed")
        BY <2>2, <2>3
      <3>3. QED
        BY <1>0, <2>1, <3>1, <3>2, ReturnReports
    <2>4. CASE ~mined[i].ok
      <3>1. Retry
        BY <2>2, <2>4
      <3>2. QED
        BY <1>0, <2>1, <3>1, RetryReports
    <2>5. QED
      BY <2>3, <2>4
  <1>5. ASSUME Caught PROVE Abstract!Next \/ UNCHANGED Abstract!vars
    <2>1. pc[Loop] # "idle" /\ UNCHANGED <<config, mined, paused>> /\ Retry
      BY <1>5 DEF Caught
    <2>2. QED
      BY <1>0, <2>1, RetryReports
  <1>6. ASSUME NEW lost \in SUBSET Trips, Crash(lost)
        PROVE  Abstract!Next \/ UNCHANGED Abstract!vars
    <2>1. UNCHANGED <<config, mined, paused>>
          /\ fills' = IF job = None THEN fills ELSE [fills EXCEPT ![job] = "lost"]
      BY <1>6 DEF Crash, accountVars
    <2>2. CASE job = None
      BY <2>1, <2>2, Stutters
    <2>3. CASE job # None
      <3>1. PICK t \in Trades : t = job
        BY <2>3 DEF OnchainTypeOK
      <3>2. fills' = [fills EXCEPT ![t] = "lost"]
        BY <2>1, <2>3, <3>1
      <3>3. QED
        BY <1>0, <2>1, <2>3, <3>1, <3>2, Reports
    <2>4. QED
      BY <2>2, <2>3
  <1>7. CASE UNCHANGED <<config, mined, paused, fills>>
    BY <1>7, Stutters
  <1>8. ASSUME NEW t \in Trades, Begin(t) PROVE UNCHANGED <<config, mined, paused, fills>>
    BY <1>8 DEF Begin, accountVars
  <1>9. ASSUME NEW p \in Trips, Tripped(p) \/ PauseFailed(p)
        PROVE  UNCHANGED <<config, mined, paused, fills>>
    BY <1>9 DEF Tripped, PauseFailed, GiveUp, accountVars
  <1>10. ASSUME NEW c \in Callers, AskPending(c) \/ Take(c) \/ Send(c)
         PROVE  UNCHANGED <<config, mined, paused, fills>>
    BY <1>10 DEF AskPending, Take, Send, accountVars
  <1>11. Estimate \/ UNCHANGED vars => UNCHANGED <<config, mined, paused, fills>>
    BY DEF Estimate, vars, execVars, accountVars
  <1>12. ASSUME OwnerStep PROVE Abstract!Next
    <2>1. paused' = FALSE /\ UNCHANGED <<config, mined, fills>>
      BY <1>12 DEF OwnerStep, Unpause, execVars
    <2>2. Settled' = Settled /\ PausedOnce' = PausedOnce
      BY <2>1 DEF Settled, Succeeded, PausedOnce
    <2>3. Abstract!Resume
      BY <2>1, <2>2 DEF Abstract!Resume
    <2>4. QED
      BY <2>3 DEF Abstract!Next
  <1>13. QED
    BY <1>1, <1>2, <1>3, <1>4, <1>5, <1>6, <1>7, <1>8, <1>9, <1>10, <1>11, <1>12, NetworkSettles,
       CallersFacts DEF Next, LoopStep, PauseStep

(* index.ts:21-38, onchain.ts:52-98: whatever the network, the retries and *)
(* the restarts do, the statuses the service reports are those of an       *)
(* executor that settles on one status per trade, says "executed" of a     *)
(* trade the chain has not carried out only after a pause, and carries out *)
(* nothing while the contract is paused.                                   *)
THEOREM ExecutorImplementsSettlement == Spec => ImplementsSettlement
  <1>1. Init => Abstract!Init
    <2> SUFFICES ASSUME Init PROVE Abstract!Init
      OBVIOUS
    <2>1. mined = <<>> /\ paused = FALSE /\ fills = [t \in Trades |-> "none"]
      BY DEF Init, AccountInit, ExecInit, None
    <2>2. Settled = {} /\ PausedOnce = FALSE
      BY <2>1 DEF Settled, Succeeded, PausedOnce
    <2>3. QED
      BY <2>1, <2>2 DEF Abstract!Init
  <1>2. QED
    BY <1>1, InitSettleInv, NextSettleInv, OnlyPausesReplace, StepSettles, OnchainTypes, PTL
       DEF Spec, ImplementsSettlement, Abstract!Spec

(* What may be behind the status "executed": the mined cycle, the mode     *)
(* paper, or a pause where submissions are not relayed.                    *)
ReportExplained ==
    \A t \in Trades : fills[t] = "executed" =>
        t \in Settled \/ config.mode = "paper" \/ (PausedOnce /\ ~relayed)

StatusStands == \A t \in Trades : fills[t] # None => fills'[t] = fills[t]
PausedCarriesOutNothing == paused => Settled' = Settled

LEMMA SettlementStep ==
    ASSUME OnchainTypeOK, Abstract!Next \/ UNCHANGED Abstract!vars
    PROVE  StatusStands /\ PausedCarriesOutNothing
  <1>1. fills \in [Trades -> {"executed", "failed", "lost", None}]
    BY DEF OnchainTypeOK
  <1>2. CASE Abstract!Halt \/ Abstract!Resume \/ UNCHANGED Abstract!vars
    BY <1>2 DEF Abstract!Halt, Abstract!Resume, Abstract!vars, StatusStands,
       PausedCarriesOutNothing
  <1>3. ASSUME NEW t \in Trades \ Directional, Abstract!Settle(t)
        PROVE  StatusStands /\ PausedCarriesOutNothing
    BY <1>3 DEF Abstract!Settle, StatusStands, PausedCarriesOutNothing
  <1>4. ASSUME NEW t \in Trades, NEW s \in {"executed", "failed", "lost"}, Abstract!Report(t, s)
        PROVE  StatusStands /\ PausedCarriesOutNothing
    <2>1. /\ fills[t] = None /\ fills' = [fills EXCEPT ![t] = s] /\ Settled' = Settled
      BY <1>4 DEF Abstract!Report, None
    <2>2. QED
      BY <1>1, <2>1 DEF StatusStands, PausedCarriesOutNothing
  <1>5. QED
    BY <1>2, <1>3, <1>4 DEF Abstract!Next

(* What the chain has carried out, and that it was paused, is not undone.  *)
LEMMA MinedStays ==
    ASSUME OnchainTypeOK, [Next]_vars
    PROVE  /\ UNCHANGED relayed /\ UNCHANGED config /\ (threw => threw')
           /\ Settled \subseteq Settled' /\ (PausedOnce => PausedOnce')
           /\ \A i \in DOMAIN mined : i \in DOMAIN mined' /\ mined'[i] = mined[i]
  <1>1. UNCHANGED <<relayed, config>>
    BY DEF Next, LoopStep, PauseStep, OwnerStep, Unpause, Network, Mine, vars, execVars,
           accountVars, PaperFill, Begin, Tripped, Construct, Simulate, AskPending, Take,
           Estimate, Send, Receipt, Caught, PauseFailed, Crash
  <1>2. UNCHANGED threw \/ threw' = TRUE
    BY DEF Next, LoopStep, PauseStep, OwnerStep, Unpause, Network, vars, execVars, PaperFill,
           Begin, Tripped, Construct, Simulate, AskPending, Take, Estimate, Send, Receipt,
           Caught, PauseFailed, Crash
  <1>3. UNCHANGED mined \/ Network
    BY DEF Next, LoopStep, PauseStep, OwnerStep, Unpause, vars, accountVars, PaperFill, Begin,
           Tripped, Construct, Simulate, AskPending, Take, Estimate, Send, Receipt, Caught,
           PauseFailed, Crash
  <1>4. \A i \in DOMAIN mined : i \in DOMAIN mined' /\ mined'[i] = mined[i]
    <2>1. CASE Network
      <3>1. PICK tx \in mempool, ok \in BOOLEAN : mined' = Append(mined, [tx |-> tx, ok |-> ok])
        BY <2>1, Zenon DEF Network, Mine
      <3>2. QED
        BY <3>1 DEF OnchainTypeOK, AccountTypeOK
    <2>2. QED
      BY <1>3, <2>1
  <1>5. \A u : Succeeded(u) \subseteq Succeeded(u)'
    BY <1>4 DEF Succeeded
  <1>6. Settled \subseteq Settled' /\ (PausedOnce => PausedOnce')
    BY <1>5 DEF Settled, PausedOnce
  <1>7. QED
    BY <1>1, <1>2, <1>4, <1>6

(* The steps that tell a status.                                           *)
LEMMA ToldBy ==
    ASSUME OnchainTypeOK, [Next]_vars,
           NEW t \in Trades, fills'[t] = "executed", fills[t] # "executed"
    PROVE  \/ config.mode = "paper"
           \/ /\ Receipt /\ t = job /\ pc[Loop] = "wait"
              /\ \E i \in DOMAIN mined : IsReceipt(mined[i]) /\ mined[i].ok
  <1>0. fills \in [Trades -> {"executed", "failed", "lost", None}]
    BY DEF OnchainTypeOK
  <1>1. Return("failed") => FALSE
    BY <1>0 DEF Return
  <1>2. Retry => FALSE
    BY <1>0, <1>1 DEF Retry
  <1>3. \A c \in Callers : Construct(c) => FALSE
    <2>1. ASSUME NEW c \in Callers, Construct(c) PROVE UNCHANGED fills \/ Return("failed")
      <3>1. CASE Constructible
        BY <2>1, <3>1 DEF Construct
      <3>2. CASE ~Constructible
        BY <2>1, <3>2 DEF Construct, Fails, GiveUp
      <3>3. QED
        BY <3>1, <3>2
    <2>2. QED
      BY <1>1, <2>1
  <1>4. \A lost \in SUBSET Trips : Crash(lost) => FALSE
    BY <1>0 DEF Crash
  <1>5. ASSUME Receipt
        PROVE  /\ t = job /\ pc[Loop] = "wait"
               /\ \E i \in DOMAIN mined : IsReceipt(mined[i]) /\ mined[i].ok
    <2>1. PICK i \in DOMAIN mined :
             /\ IsReceipt(mined[i])
             /\ IF mined[i].ok THEN Return("executed") /\ UNCHANGED attempt ELSE Retry
      BY <1>5 DEF Receipt
    <2>2. mined[i].ok /\ Return("executed")
      BY <1>2, <2>1
    <2>3. t = job
      BY <1>0, <2>2 DEF Return
    <2>4. QED
      BY <1>5, <2>1, <2>2, <2>3 DEF Receipt
  <1>6. Simulate \/ Caught => FALSE
    BY <1>1, <1>2 DEF Simulate, Caught
  <1>7. \A u \in Trades : ~Begin(u) /\ (PaperFill(u) => config.mode = "paper")
    BY DEF Begin, PaperFill
  <1>8. \A c \in Callers : ~Tripped(c) /\ ~AskPending(c) /\ ~Take(c) /\ ~Send(c) /\ ~PauseFailed(c)
    BY DEF Tripped, AskPending, Take, Send, PauseFailed, GiveUp
  <1>9. ~Estimate /\ ~Network /\ ~OwnerStep /\ ~UNCHANGED vars
    BY DEF Estimate, Network, OwnerStep, vars, execVars
  <1>10. QED
    BY <1>3, <1>4, <1>5, <1>6, <1>7, <1>8, <1>9, CallersFacts DEF Next, LoopStep, PauseStep

LEMMA NextReportExplained ==
    OnchainTypeOK /\ WaitInv /\ ReportExplained /\ [Next]_vars => ReportExplained'
  <1> SUFFICES ASSUME OnchainTypeOK, WaitInv, ReportExplained, [Next]_vars,
                      NEW t \in Trades, fills'[t] = "executed"
               PROVE  t \in Settled' \/ config'.mode = "paper" \/ (PausedOnce' /\ ~relayed')
    BY DEF ReportExplained
  <1>1. t \in Settled \/ config.mode = "paper" \/ (PausedOnce /\ ~relayed)
    <2>1. CASE fills[t] = "executed"
      BY <2>1 DEF ReportExplained
    <2>2. CASE fills[t] # "executed"
      BY <2>2, ToldBy, ReceiptExplained
    <2>3. QED
      BY <2>1, <2>2
  <1>2. QED
    BY <1>1, MinedStays

(* index.ts:21-38, onchain.ts:52-98: a fill that is told as executed has   *)
(* been carried out by the chain, whichever attempt, restart or exception  *)
(* came before, unless the mode is paper or a pause was mined on a node    *)
(* that sees what the signer has queued: with PRIVATE_RPC the status is    *)
(* right.  The status of a trade never changes, and while the contract is  *)
(* paused nothing that was still queued is carried out.                    *)
THEOREM ReportsStand ==
    Spec => []ReportExplained /\ [][StatusStands /\ PausedCarriesOutNothing]_vars
  <1>1. Init => ReportExplained
    BY DEF Init, AccountInit, ExecInit, ReportExplained, None
  <1>2. OnchainTypeOK /\ SettleInv /\ WaitInv /\ [Next]_vars
           => StatusStands /\ PausedCarriesOutNothing
    BY StepSettles, SettlementStep
  <1>3. QED
    BY <1>1, <1>2, InitSettleInv, NextSettleInv, NextReportExplained, OnlyPausesReplace,
       OnchainTypes, PTL DEF Spec

-----------------------------------------------------------------------------
(* The cycle of a trade, as long as nothing has thrown.  What is queued    *)
(* for a trade is the transaction the loop waits for.                      *)
QueuedInHand == \A tx \in mempool : tx.of \in Trades => pc[Loop] = "wait" /\ tx = Payload(Loop)

(* What was mined is queued no more; it belongs to a trade with a status,  *)
(* or to the one in hand: then it is what the loop waits for, or it is an  *)
(* earlier attempt, and reverted.                                          *)
MinedOf(i) ==
    LET tx == mined[i].tx
    IN  tx.of \in Trades =>
          /\ tx \notin mempool
          /\ fills[tx.of] # None \/ tx.of = job
          /\ tx.of = job => /\ pc[Loop] \notin {"import", "simulate"}
                            /\ \/ tx.attempt < attempt /\ ~mined[i].ok
                               \/ pc[Loop] = "wait" /\ tx = Payload(Loop)

SameCycle(i, j) == /\ mined[i].tx.of \in Trades /\ mined[i].tx.of = mined[j].tx.of
                   /\ mined[i].tx = mined[j].tx \/ (mined[i].ok /\ mined[j].ok)

OnceInv == ~threw => /\ QueuedInHand
                     /\ \A i \in DOMAIN mined : MinedOf(i)
                     /\ \A i, j \in DOMAIN mined : SameCycle(i, j) => i = j

(* Steps that leave the chain, the trade in hand and what is known of it.  *)
LEMMA OnceAside ==
    ASSUME OnceInv, UNCHANGED <<mempool, mined, threw, job, attempt, fills>>,
           \/ pc'[Loop] = pc[Loop] /\ num'[Loop] = num[Loop]
           \/ {pc[Loop], pc'[Loop]} \cap {"import", "simulate", "wait"} = {}
    PROVE  OnceInv'
  <1>1. CASE pc'[Loop] = pc[Loop] /\ num'[Loop] = num[Loop]
    <2>1. Payload(Loop)' = Payload(Loop)
      BY <1>1 DEF Payload
    <2>2. QED
      BY <1>1, <2>1 DEF OnceInv, QueuedInHand, MinedOf, SameCycle
  <1>2. CASE {pc[Loop], pc'[Loop]} \cap {"import", "simulate", "wait"} = {}
    <2>1. pc[Loop] # "wait" /\ pc'[Loop] \notin {"import", "simulate", "wait"}
      BY <1>2
    <2>2. QED
      BY <2>1 DEF OnceInv, QueuedInHand, MinedOf, SameCycle
  <1>3. QED
    BY <1>1, <1>2

(* The trade in hand gets its status while nothing of it is queued.        *)
LEMMA OnceReturned ==
    ASSUME OnchainTypeOK, OnceInv, UNCHANGED <<mempool, mined, threw>>, job # None,
           NEW s \in {"executed", "failed"}, Return(s),
           ~threw => \A tx \in mempool : tx.of \notin Trades
    PROVE  OnceInv'
  <1>1. /\ job' = None /\ fills' = [fills EXCEPT ![job] = s] /\ job \in Trades
        /\ fills \in [Trades -> {"executed", "failed", "lost", None}] /\ s # None
    BY CallersFacts DEF Return, OnchainTypeOK, None
  <1>2. \A t \in Trades : fills'[t] = IF t = job THEN s ELSE fills[t]
    BY <1>1
  <1>3. ASSUME ~threw PROVE QueuedInHand'
    BY <1>3 DEF QueuedInHand
  <1>4. ASSUME ~threw, NEW i \in DOMAIN mined PROVE MinedOf(i)'
    <2>1. MinedOf(i)
      BY <1>4 DEF OnceInv
    <2>2. None \notin Trades
      BY CallersFacts
    <2>3. QED
      BY <1>1, <1>2, <2>1, <2>2 DEF MinedOf
  <1>5. QED
    BY <1>3, <1>4 DEF OnceInv, SameCycle

(* The receipt of a cycle, or of the pause that was mined under its number:*)
(* no other transaction of the trade has taken effect, and none is queued. *)
LEMMA OnceReceived ==
    ASSUME OnchainTypeOK, ChainInv, OnceInv, Receipt
    PROVE  OnceInv'
  <1>1. PICK i \in DOMAIN mined :
           /\ IsReceipt(mined[i])
           /\ IF mined[i].ok THEN Return("executed") /\ UNCHANGED attempt ELSE Retry
    BY DEF Receipt
  <1>2. /\ pc[Loop] = "wait" /\ UNCHANGED <<mempool, mined, threw>>
        /\ Loop \in Callers /\ job \in Trades /\ job # None
    BY CallersFacts DEF Receipt, accountVars, OnchainTypeOK
  <1>3. Payload(Loop) = [nonce |-> num[Loop], of |-> job, attempt |-> attempt]
    BY DEF Payload
  <1>4. mined[i].tx.nonce = Payload(Loop).nonce
    BY <1>1, <1>3 DEF IsReceipt
  <1>5. ~threw => \A tx \in mempool : tx.of \notin Trades
    BY <1>4, MinedBelow DEF OnceInv, QueuedInHand
  <1>6. CASE mined[i].ok
    BY <1>1, <1>2, <1>5, <1>6, OnceReturned
  <1>7. CASE ~mined[i].ok /\ attempt >= MaxRetries
    <2>1. Return("failed")
      BY <1>1, <1>7 DEF Retry, OnchainTypeOK
    <2>2. QED
      BY <1>2, <1>5, <2>1, OnceReturned
  <1>8. CASE ~mined[i].ok /\ attempt < MaxRetries
    <2>1. attempt' = attempt + 1 /\ UNCHANGED <<fills, job>> /\ pc'[Loop] = "take"
      BY <1>1, <1>2, <1>8 DEF Retry, Goto, OnchainTypeOK
    <2>2. ASSUME ~threw, NEW j \in DOMAIN mined PROVE MinedOf(j)'
      <3>1. MinedOf(j)
        BY <2>2 DEF OnceInv
      <3>2. CASE mined[j].tx.of # job
        BY <1>2, <2>1, <3>1, <3>2 DEF MinedOf
      <3>3. CASE mined[j].tx.of = job
        <4>1. mined[j].tx \in Tx
          BY <2>2, MinedType
        <4>2. mined[j].tx.attempt \in Nat /\ attempt \in Nat
          BY <4>1 DEF Tx, OnchainTypeOK
        <4>3. mined[j].tx = Payload(Loop) => i = j
          BY <1>4, MinedBelow
        <4>4. mined[j].tx.attempt <= attempt /\ ~mined[j].ok
          BY <1>2, <1>3, <1>8, <3>1, <3>3, <4>2, <4>3 DEF MinedOf
        <4>5. mined[j].tx.attempt < attempt'
          BY <2>1, <4>2, <4>4
        <4>6. QED
          BY <1>2, <2>1, <3>1, <4>4, <4>5 DEF MinedOf
      <3>4. QED
        BY <3>2, <3>3
    <2>3. ~threw => QueuedInHand'
      BY <1>2, <1>5 DEF QueuedInHand
    <2>4. QED
      BY <1>2, <2>2, <2>3 DEF OnceInv, SameCycle
  <1>9. QED
    BY <1>6, <1>7, <1>8 DEF OnchainTypeOK

(* A transaction leaves the queue and is mined.                            *)
LEMMA OnceMined ==
    ASSUME OnchainTypeOK, OnceInv, Network
    PROVE  OnceInv'
  <1>1. PICK tx \in mempool, ok \in BOOLEAN :
           /\ mined' = Append(mined, [tx |-> tx, ok |-> ok])
           /\ mempool' = mempool \ {tx}
    BY Zenon DEF Network, Mine
  <1>2. UNCHANGED execVars /\ tx \in Tx
    BY DEF Network, OnchainTypeOK, AccountTypeOK
  <1>3. Payload(Loop)' = Payload(Loop)
    BY <1>2 DEF Payload, execVars
  <1>4. PICK k \in Nat : k = Len(mined) /\ DOMAIN mined = 1 .. k
    BY DEF OnchainTypeOK, AccountTypeOK
  <1>5. /\ DOMAIN mined' = 1 .. (k + 1)
        /\ \A i \in 1 .. k : mined'[i] = mined[i]
        /\ mined'[k + 1] = [tx |-> tx, ok |-> ok]
    BY <1>1, <1>4 DEF OnchainTypeOK, AccountTypeOK
  <1>6. ASSUME ~threw PROVE OnceInv'
    <2>1. /\ QueuedInHand /\ \A i \in 1 .. k : MinedOf(i)
          /\ \A i, j \in 1 .. k : SameCycle(i, j) => i = j
      BY <1>4, <1>6 DEF OnceInv
    <2>2. QueuedInHand'
      BY <1>1, <1>2, <1>3, <2>1 DEF QueuedInHand, execVars
    <2>3. tx.of \in Trades => /\ pc[Loop] = "wait" /\ tx = Payload(Loop) /\ tx.of = job
      BY <2>1 DEF QueuedInHand, Payload
    <2>4. ASSUME NEW i \in 1 .. k PROVE MinedOf(i)'
      BY <1>1, <1>2, <1>3, <1>5, <2>1, <2>4 DEF MinedOf, execVars
    <2>5. MinedOf(k + 1)'
      BY <1>1, <1>2, <1>3, <1>5, <2>3 DEF MinedOf, execVars
    <2>6. ASSUME NEW i \in 1 .. k PROVE ~SameCycle(i, k + 1)' /\ ~SameCycle(k + 1, i)'
      <3>1. MinedOf(i)
        BY <2>1
      <3>2. mined'[i] = mined[i] /\ mined'[k + 1].tx = tx
        BY <1>5
      <3>3. tx.of \in Trades /\ mined[i].tx.of = tx.of => mined[i].tx # tx /\ ~mined[i].ok
        BY <2>3, <3>1 DEF MinedOf
      <3>4. QED
        BY <3>2, <3>3 DEF SameCycle
    <2>7. ASSUME NEW i \in 1 .. (k + 1), NEW j \in 1 .. (k + 1), SameCycle(i, j)' PROVE i = j
      <3>1. /\ i \in 1 .. k \/ i = k + 1
            /\ j \in 1 .. k \/ j = k + 1
        OBVIOUS
      <3>2. CASE i \in 1 .. k /\ j \in 1 .. k
        <4>1. SameCycle(i, j)
          BY <1>5, <2>7, <3>2 DEF SameCycle
        <4>2. QED
          BY <2>1, <3>2, <4>1
      <3>3. QED
        BY <2>6, <2>7, <3>1, <3>2
    <2>8. \A i \in DOMAIN mined' : MinedOf(i)'
      <3>1. \A i \in 1 .. (k + 1) : i \in 1 .. k \/ i = k + 1
        OBVIOUS
      <3>2. QED
        BY <1>5, <2>4, <2>5, <3>1
    <2>9. QED
      BY <1>5, <2>2, <2>7, <2>8 DEF OnceInv
  <1>7. QED
    BY <1>2, <1>6 DEF OnceInv, execVars

(* A caller submits what it holds.                                         *)
LEMMA OnceSent ==
    ASSUME OnchainTypeOK, OnceInv, NEW c \in Callers, Send(c)
    PROVE  OnceInv'
  <1>1. /\ pc[c] = "send" /\ UNCHANGED <<mined, threw, num, job, attempt, fills>>
        /\ mempool' = {m \in mempool : m.nonce # Payload(c).nonce} \cup {Payload(c)}
        /\ pc' = [pc EXCEPT ![c] = IF c = Loop THEN "wait" ELSE "done"]
        /\ pc \in [Callers -> Pc] /\ Loop \in Callers
    BY CallersFacts DEF Send, Submit, Goto, OnchainTypeOK
  <1>2. Payload(Loop)' = Payload(Loop) /\ Payload(Loop).of = job /\ Payload(Loop).attempt = attempt
    BY <1>1 DEF Payload
  <1>3. CASE c = Loop
    <2>1. pc'[Loop] = "wait" /\ pc[Loop] = "send"
      BY <1>1, <1>3
    <2>2. ASSUME ~threw PROVE QueuedInHand'
      BY <1>1, <1>2, <1>3, <2>1, <2>2 DEF QueuedInHand, OnceInv
    <2>3. ASSUME ~threw, NEW i \in DOMAIN mined PROVE MinedOf(i)'
      <3>1. MinedOf(i) /\ mined[i].tx \in Tx
        BY <2>3, MinedType DEF OnceInv
      <3>2. mined[i].tx.attempt \in Nat /\ attempt \in Nat
        BY <3>1 DEF Tx, OnchainTypeOK
      <3>3. mined[i].tx.of \in Trades => mined[i].tx # Payload(Loop)
        BY <1>2, <2>1, <3>1, <3>2 DEF MinedOf
      <3>4. mined[i].tx.of \in Trades => mined[i].tx \notin mempool'
        BY <1>1, <1>3, <3>1, <3>3 DEF MinedOf
      <3>5. QED
        BY <1>1, <1>2, <2>1, <3>1, <3>4 DEF MinedOf
    <2>4. QED
      BY <1>1, <2>2, <2>3 DEF OnceInv, SameCycle
  <1>4. CASE c # Loop
    <2>1. pc'[Loop] = pc[Loop] /\ Payload(c).of = c /\ c \notin Trades
      BY <1>1, <1>4, AccountAssumption DEF Payload, Callers
    <2>2. \A tx \in mempool' : tx.of \in Trades => tx \in mempool
      BY <1>1, <2>1
    <2>3. ASSUME ~threw PROVE QueuedInHand'
      BY <1>2, <2>1, <2>2, <2>3 DEF QueuedInHand, OnceInv
    <2>4. ASSUME ~threw, NEW i \in DOMAIN mined PROVE MinedOf(i)'
      <3>1. MinedOf(i)
        BY <2>4 DEF OnceInv
      <3>2. QED
        BY <1>1, <1>2, <2>1, <2>2, <3>1 DEF MinedOf
    <2>5. QED
      BY <1>1, <2>3, <2>4 DEF OnceInv, SameCycle
  <1>5. QED
    BY <1>3, <1>4

(* The loop takes up a trade that has no status yet.                       *)
LEMMA OnceBegun ==
    ASSUME OnchainTypeOK, OnceInv, NEW t \in Trades, Begin(t)
    PROVE  OnceInv'
  <1>1. /\ UNCHANGED <<mempool, mined, threw, fills>> /\ job = None
        /\ pc[Loop] = "idle" /\ fills[t] = None /\ job' = t
    BY DEF Begin, accountVars, OnchainTypeOK
  <1>2. ASSUME ~threw, NEW i \in DOMAIN mined PROVE MinedOf(i)'
    <2>1. MinedOf(i) /\ None \notin Trades
      BY <1>2, CallersFacts DEF OnceInv
    <2>2. mined[i].tx.of \in Trades => mined[i].tx.of # t /\ fills[mined[i].tx.of] # None
      BY <1>1, <2>1 DEF MinedOf
    <2>3. QED
      BY <1>1, <2>1, <2>2 DEF MinedOf
  <1>3. ~threw => QueuedInHand'
    BY <1>1 DEF OnceInv, QueuedInHand
  <1>4. QED
    BY <1>1, <1>2, <1>3 DEF OnceInv, SameCycle

LEMMA NextOnceInv == OnchainTypeOK /\ ChainInv /\ OnceInv /\ [Next]_vars => OnceInv'
  <1> SUFFICES ASSUME OnchainTypeOK, ChainInv, OnceInv, [Next]_vars PROVE OnceInv'
    OBVIOUS
  <1>0. /\ Loop \in Callers /\ pc \in [Callers -> Pc] /\ num \in [Callers -> Nat]
        /\ (job # None <=> pc[Loop] # "idle")
    BY CallersFacts DEF OnchainTypeOK
  <1>1. ASSUME NEW t \in Trades, PaperFill(t) PROVE OnceInv'
    <2>1. /\ UNCHANGED <<mempool, mined, threw, pc, num, job, attempt>>
          /\ \A u \in Trades : fills[u] # None => fills'[u] # None
      BY <1>1, CallersFacts DEF PaperFill, accountVars, OnchainTypeOK, None
    <2>2. Payload(Loop)' = Payload(Loop)
      BY <2>1 DEF Payload
    <2>3. QED
      BY <2>1, <2>2 DEF OnceInv, QueuedInHand, MinedOf, SameCycle
  <1>2. ASSUME NEW p \in Trips, Tripped(p) PROVE OnceInv'
    <2>1. pc'[Loop] = pc[Loop] /\ num'[Loop] = num[Loop]
      BY <1>0, <1>2, CallersFacts DEF Tripped, GetOnchain, Goto
    <2>2. QED
      BY <1>2, <2>1, OnceAside DEF Tripped, accountVars
  <1>3. ASSUME NEW c \in Callers, Construct(c) PROVE OnceInv'
    <2>1. /\ UNCHANGED <<mempool, mined, threw, num, attempt>> /\ pc[c] = "import"
      BY <1>3 DEF Construct, accountVars
    <2>2. CASE c # Loop
      <3>1. UNCHANGED <<fills, job>> /\ pc'[Loop] = pc[Loop]
        <4>1. CASE Constructible
          BY <1>0, <1>3, <2>2, <4>1 DEF Construct, Goto
        <4>2. CASE ~Constructible
          BY <1>0, <1>3, <2>2, <4>2 DEF Construct, Fails, GiveUp, Goto
        <4>3. QED
          BY <4>1, <4>2
      <3>2. QED
        BY <2>1, <3>1, OnceAside
    <2>3. CASE c = Loop /\ Constructible
      <3>1. UNCHANGED <<fills, job>> /\ pc'[Loop] = "simulate"
        BY <1>0, <1>3, <2>3 DEF Construct, Goto, Entry
      <3>2. ASSUME ~threw, NEW i \in DOMAIN mined PROVE MinedOf(i)'
        BY <2>1, <2>3, <3>1, <3>2 DEF MinedOf, OnceInv
      <3>3. ~threw => QueuedInHand'
        BY <2>1, <2>3 DEF OnceInv, QueuedInHand
      <3>4. QED
        BY <2>1, <3>2, <3>3 DEF OnceInv, SameCycle
    <2>4. CASE c = Loop /\ ~Constructible
      <3>1. Return("failed")
        BY <1>3, <2>4 DEF Construct, Fails
      <3>2. ~threw => \A tx \in mempool : tx.of \notin Trades
        BY <2>1, <2>4 DEF OnceInv, QueuedInHand
      <3>3. QED
        BY <1>0, <2>1, <2>4, <3>1, <3>2, OnceReturned
    <2>5. QED
      BY <2>2, <2>3, <2>4
  <1>4. ASSUME Simulate PROVE OnceInv'
    <2>1. /\ UNCHANGED <<mempool, mined, threw, num>> /\ pc[Loop] = "simulate"
          /\ ~threw => \A tx \in mempool : tx.of \notin Trades
      BY <1>4 DEF Simulate, accountVars, OnceInv, QueuedInHand
    <2>2. CASE Return("failed")
      BY <1>0, <2>1, <2>2, OnceReturned
    <2>3. CASE Goto(Loop, "take") /\ attempt' = 0 /\ UNCHANGED <<fills, job>>
      <3>1. ASSUME ~threw, NEW i \in DOMAIN mined PROVE MinedOf(i)'
        <4>1. MinedOf(i)
          BY <3>1 DEF OnceInv
        <4>2. mined[i].tx.of \in Trades => mined[i].tx.of # job
          BY <2>1, <4>1 DEF MinedOf
        <4>3. QED
          BY <2>1, <2>3, <4>1, <4>2 DEF MinedOf
      <3>2. ~threw => QueuedInHand'
        BY <2>1 DEF QueuedInHand
      <3>3. QED
        BY <2>1, <3>1, <3>2 DEF OnceInv, SameCycle
    <2>4. QED
      BY <1>4, <2>2, <2>3 DEF Simulate
  <1>5. ASSUME NEW c \in Callers, AskPending(c) PROVE OnceInv'
    <2>1. PICK n : num' = [num EXCEPT ![c] = n]
      BY <1>5 DEF AskPending
    <2>2. /\ pc[c] = "take" /\ pc' = [pc EXCEPT ![c] = "taken"]
          /\ UNCHANGED <<mempool, mined, threw, job, attempt, fills>>
      BY <1>5 DEF AskPending, Goto, accountVars
    <2>3. QED
      BY <1>0, <2>1, <2>2, OnceAside
  <1>6. ASSUME NEW c \in Callers, Take(c) PROVE OnceInv'
    <2>1. PICK n : num' = [num EXCEPT ![c] = n]
      BY <1>6 DEF Take
    <2>2. /\ pc[c] = "taken" /\ \E l \in {"estimate", "send"} : pc' = [pc EXCEPT ![c] = l]
          /\ UNCHANGED <<mempool, mined, threw, job, attempt, fills>>
      BY <1>6 DEF Take, Goto, accountVars
    <2>3. QED
      BY <1>0, <2>1, <2>2, OnceAside
  <1>7. ASSUME Estimate PROVE OnceInv'
    <2>1. pc[Loop] = "estimate" /\ pc'[Loop] = "send"
      BY <1>0, <1>7 DEF Estimate, Goto
    <2>2. QED
      BY <1>7, <2>1, OnceAside DEF Estimate, accountVars
  <1>8. Caught \/ (\E p \in Trips : PauseFailed(p)) \/ (\E lost \in SUBSET Trips : Crash(lost))
           => threw' = TRUE
    BY DEF Caught, PauseFailed, Crash
  <1>9. threw' = TRUE => OnceInv'
    BY DEF OnceInv
  <1>10. CASE OwnerStep \/ UNCHANGED vars
    BY <1>10, OnceAside DEF OwnerStep, Unpause, vars, execVars, accountVars
  <1>11. QED
    BY <1>1, <1>2, <1>3, <1>4, <1>5, <1>6, <1>7, <1>8, <1>9, <1>10, OnceSent, OnceReceived,
       OnceMined, OnceBegun, CallersFacts DEF Next, LoopStep, PauseStep

(* onchain.ts:66-97 against PancakeSwap_MultiAgent_System_Blueprint.md:216 *)
(* ("watcher with timeout": a retry that replaces): it takes an await that *)
(* throws, or a restart, to carry out the cycle of a trade twice.  A cycle *)
(* that reverts is retried without it, whatever pause() and a second       *)
(* executor do meanwhile.                                                  *)
THEOREM MinedOnceUnlessThrown == Spec => [](~threw => CycleMinedOnce)
  <1>1. Init => OnceInv
    BY DEF Init, AccountInit, ExecInit, OnceInv, QueuedInHand
  <1>2. OnchainTypeOK /\ OnceInv => (~threw => CycleMinedOnce)
    <2> SUFFICES ASSUME OnchainTypeOK, OnceInv, ~threw, NEW t \in Trades
                 PROVE  Cardinality(Succeeded(t)) <= 1
      BY DEF CycleMinedOnce
    <2>1. \A i, j \in Succeeded(t) : i = j
      BY DEF Succeeded, OnceInv, SameCycle
    <2>2. CASE Succeeded(t) = {}
      BY <2>2, FS_EmptySet
    <2>3. CASE Succeeded(t) # {}
      <3>1. PICK i : i \in Succeeded(t)
        BY <2>3
      <3>2. Succeeded(t) = {i}
        BY <2>1, <3>1
      <3>3. Cardinality({i}) = 1
        BY FS_Singleton
      <3>4. QED
        BY <3>2, <3>3
    <2>4. QED
      BY <2>2, <2>3
  <1>3. QED
    BY <1>1, <1>2, NextOnceInv, NoncesInOrder, OnchainTypes, PTL DEF Spec

-----------------------------------------------------------------------------
(* As long as all callers share the one executor that was constructed, and *)
(* nothing has thrown, its count runs ahead of what is queued and held.    *)
OneExecutor == \A c, d \in Callers : inst[c] # None /\ inst[d] # None => inst[c] = inst[d]

Fresh(m) == /\ \A tx \in mempool : tx.nonce < next[m]
            /\ \A c \in Callers : pc[c] \in Holding =>
                  /\ num[c] < next[m] /\ num[c] \notin Queued
                  /\ \A d \in Callers : pc[d] \in Holding /\ num[d] = num[c] => c = d

Wired == /\ onchain = None => mempool = {} /\ \A c \in Callers : inst[c] = None
         /\ onchain # None => inst[onchain] = onchain
         /\ \A c \in Callers : inst[c] \in {None, onchain}
         /\ \A c \in Callers : pc[c] = "import" => inst[c] = None

KeptInv == ~threw => Wired /\ (onchain # None => Fresh(onchain))

NothingReplaced ==
    \A tx \in mempool : tx \in mempool' \/ \E i \in DOMAIN mined' : mined'[i].tx = tx

(* Steps of callers that neither hold nor take a number.                   *)
LEMMA FreshAside ==
    ASSUME OnchainTypeOK, KeptInv, UNCHANGED <<mempool, threw, next, onchain>>, Wired',
           \A c \in Callers : \/ pc'[c] = pc[c] /\ num'[c] = num[c]
                              \/ pc'[c] \notin Holding
                              \/ pc[c] \in Holding /\ num'[c] = num[c]
    PROVE  KeptInv'
BY DEF KeptInv, Fresh, Queued

LEMMA WiredAside ==
    ASSUME Wired, UNCHANGED <<mempool, onchain, inst>>,
           \A c \in Callers : pc'[c] = "import" => pc[c] = "import"
    PROVE  Wired'
BY DEF Wired

(* getOnchain hands out the executor that exists, or none exists yet.      *)
LEMMA KeptGot ==
    ASSUME OnchainTypeOK, KeptInv, UNCHANGED <<mempool, threw, next, onchain, num>>,
           NEW c \in Callers, pc[c] = "idle", GetOnchain(c)
    PROVE  KeptInv'
  <1>1. \A d \in Callers : pc'[d] = pc[d] \/ pc'[d] \notin Holding
    BY DEF GetOnchain, Goto, Entry, OnchainTypeOK, Holding
  <1>2. ASSUME Wired PROVE Wired'
    <2>1. CASE onchain = None
      BY <1>2, <2>1 DEF GetOnchain, Goto, Wired, OnchainTypeOK
    <2>2. CASE onchain # None
      <3>1. /\ pc' = [pc EXCEPT ![c] = Entry(c)] /\ inst' = [inst EXCEPT ![c] = onchain]
            /\ Entry(c) # "import"
        BY <2>2 DEF GetOnchain, Goto, Entry
      <3>2. QED
        BY <1>2, <2>2, <3>1 DEF Wired, OnchainTypeOK
    <2>3. QED
      BY <2>1, <2>2
  <1>3. CASE threw
    BY <1>3 DEF KeptInv
  <1>4. CASE ~threw
    BY <1>1, <1>2, <1>4, FreshAside DEF KeptInv
  <1>5. QED
    BY <1>3, <1>4

(* The one executor is constructed while nothing is queued or held.        *)
LEMMA KeptConstructed ==
    ASSUME OnchainTypeOK, KeptInv, OneExecutor', NEW c \in Callers, Construct(c), Constructible
    PROVE  KeptInv'
  <1>1. /\ pc[c] = "import" /\ onchain' = c /\ UNCHANGED <<mempool, threw, num>>
        /\ inst' = [inst EXCEPT ![c] = c] /\ pc' = [pc EXCEPT ![c] = Entry(c)]
        /\ Entry(c) \notin Holding \cup {"import"}
    BY DEF Construct, Goto, accountVars, Entry, Holding
  <1>2. /\ inst \in [Callers -> Callers \cup {None}] /\ pc \in [Callers -> Pc]
        /\ onchain \in Callers \cup {None} /\ c # None
        /\ \A d \in Callers : pc[d] \in Holding => inst[d] # None
    BY CallersFacts DEF OnchainTypeOK, Holding
  <1>3. ASSUME ~threw PROVE onchain = None
    <2>1. Wired
      BY <1>3 DEF KeptInv
    <2>2. inst[c] = None /\ onchain # c
      BY <1>1, <1>2, <2>1 DEF Wired
    <2>3. CASE onchain # None
      <3>1. onchain \in Callers /\ inst[onchain] = onchain
        BY <1>2, <2>1, <2>3 DEF Wired
      <3>2. inst'[onchain] = onchain /\ inst'[c] = c
        BY <1>1, <1>2, <2>2, <3>1
      <3>3. QED
        BY <1>2, <2>2, <2>3, <3>1, <3>2 DEF OneExecutor
    <2>4. QED
      BY <2>3
  <1>4. ASSUME ~threw PROVE Wired' /\ Fresh(onchain)'
    <2>1. mempool = {} /\ \A d \in Callers : inst[d] = None
      BY <1>3, <1>4 DEF KeptInv, Wired
    <2>2. \A d \in Callers : pc'[d] \notin Holding
      BY <1>1, <1>2, <2>1
    <2>3. Fresh(onchain)'
      BY <1>1, <2>1, <2>2 DEF Fresh
    <2>4. Wired'
      BY <1>1, <1>2, <1>4, <2>1 DEF Wired, KeptInv
    <2>5. QED
      BY <2>3, <2>4
  <1>5. QED
    BY <1>1, <1>4 DEF KeptInv

(* take() gives out a number above all that are queued or held.            *)
LEMMA KeptTaken ==
    ASSUME OnchainTypeOK, KeptInv, NEW c \in Callers, Take(c)
    PROVE  KeptInv'
  <1>1. /\ pc[c] = "taken" /\ UNCHANGED <<mempool, threw, onchain, inst>>
        /\ \E l \in Holding : pc' = [pc EXCEPT ![c] = l]
    BY DEF Take, Goto, accountVars, Holding
  <1>2. PICK m \in Callers, n \in Nat : /\ m = inst[c] /\ n >= next[m]
                                        /\ next' = [next EXCEPT ![m] = n + 1]
                                        /\ num' = [num EXCEPT ![c] = n]
    BY TakeGives
  <1>3. /\ next \in [Callers -> Nat \cup {Unset}] /\ num \in [Callers -> Nat]
        /\ pc \in [Callers -> Pc] /\ m # None /\ next[m] \in Int
        /\ \A tx \in mempool : tx.nonce \in Nat
    BY CallersFacts DEF OnchainTypeOK, AccountTypeOK, Tx, Unset
  <1>4. ASSUME ~threw PROVE Wired' /\ Fresh(onchain)'
    <2>1. Wired /\ onchain = m /\ Fresh(m)
      BY <1>2, <1>3, <1>4 DEF KeptInv, Wired
    <2>2. Wired'
      BY <1>1, <1>3, <2>1, WiredAside DEF Holding
    <2>3. next'[m] = n + 1 /\ num'[c] = n
      BY <1>2, <1>3
    <2>4. \A tx \in mempool : tx.nonce < n
      BY <1>2, <1>3, <2>1 DEF Fresh
    <2>5. \A d \in Callers : d # c => pc'[d] = pc[d] /\ num'[d] = num[d]
      BY <1>1, <1>2, <1>3
    <2>6. \A d \in Callers : d # c /\ pc'[d] \in Holding => num'[d] < n
      BY <1>2, <1>3, <2>1, <2>5 DEF Fresh
    <2>7. Fresh(m)'
      <3>1. m' = m /\ UNCHANGED mempool
        BY <1>1
      <3>2. \A tx \in mempool : tx.nonce < n + 1
        BY <1>3, <2>4
      <3>3. n \notin Queued /\ Queued' = Queued
        BY <1>1, <2>4 DEF Queued
      <3>4. ASSUME NEW d \in Callers, pc'[d] \in Holding
            PROVE  /\ num'[d] < n + 1 /\ num'[d] \notin Queued
                   /\ \A e \in Callers : pc'[e] \in Holding /\ num'[e] = num'[d] => d = e
        <4>1. CASE d = c
          BY <2>3, <2>6, <3>3, <4>1
        <4>2. CASE d # c
          <5>1. pc[d] \in Holding /\ num'[d] = num[d] /\ num[d] \in Nat /\ num'[d] < n
            BY <1>3, <2>5, <2>6, <3>4, <4>2
          <5>2. /\ num[d] \notin Queued
                /\ \A e \in Callers : pc[e] \in Holding /\ num[e] = num[d] => d = e
            BY <2>1, <5>1 DEF Fresh
          <5>3. \A e \in Callers : pc'[e] \in Holding /\ num'[e] = num'[d] => d = e
            BY <2>3, <2>5, <5>1, <5>2
          <5>4. QED
            BY <5>1, <5>2, <5>3
        <4>3. QED
          BY <4>1, <4>2
      <3>5. QED
        BY <2>3, <3>1, <3>2, <3>3, <3>4 DEF Fresh
    <2>8. QED
      BY <1>1, <2>1, <2>2, <2>7
  <1>5. QED
    BY <1>1, <1>4 DEF KeptInv

(* A number that is submitted is not queued already.                       *)
LEMMA KeptSent ==
    ASSUME OnchainTypeOK, KeptInv, NEW c \in Callers, Send(c)
    PROVE  KeptInv' /\ (~threw => NothingReplaced)
  <1>1. /\ pc[c] = "send" /\ UNCHANGED <<threw, onchain, inst, next, num>>
        /\ mempool' = {m \in mempool : m.nonce # Payload(c).nonce} \cup {Payload(c)}
        /\ \E l \in {"wait", "done"} : pc' = [pc EXCEPT ![c] = l]
    BY DEF Send, Submit, Goto
  <1>2. /\ Payload(c).nonce = num[c] /\ pc \in [Callers -> Pc] /\ inst[c] # None
    <2>1. Payload(c).nonce = num[c]
      BY DEF Payload
    <2>2. pc \in [Callers -> Pc] /\ inst[c] # None
      BY <1>1 DEF OnchainTypeOK
    <2>3. QED
      BY <2>1, <2>2
  <1>3. ASSUME ~threw PROVE Wired' /\ Fresh(onchain)' /\ NothingReplaced
    <2>1. Wired /\ onchain # None /\ Fresh(onchain)
      BY <1>2, <1>3 DEF KeptInv, Wired
    <2>2. num[c] < next[onchain] /\ num[c] \notin Queued
          /\ \A d \in Callers : pc[d] \in Holding /\ num[d] = num[c] => c = d
      BY <1>1, <2>1 DEF Fresh, Holding
    <2>3. mempool' = mempool \cup {Payload(c)}
      BY <1>1, <1>2, <2>2 DEF Queued
    <2>4. \A d \in Callers : pc'[d] \in Holding => d # c /\ pc[d] \in Holding
      BY <1>1, <1>2 DEF Holding
    <2>5. Queued' = Queued \cup {num[c]}
      BY <1>2, <2>3 DEF Queued
    <2>6. Fresh(onchain)'
      BY <1>1, <1>2, <2>1, <2>2, <2>3, <2>4, <2>5 DEF Fresh
    <2>7. Wired'
      BY <1>1, <1>2, <2>1 DEF Wired
    <2>8. QED
      BY <2>3, <2>6, <2>7 DEF NothingReplaced
  <1>4. QED
    BY <1>1, <1>3 DEF KeptInv

LEMMA KeptMined ==
    ASSUME OnchainTypeOK, KeptInv, Network
    PROVE  KeptInv' /\ NothingReplaced
  <1>1. PICK tx \in mempool, ok \in BOOLEAN :
           /\ mined' = Append(mined, [tx |-> tx, ok |-> ok])
           /\ mempool' = mempool \ {tx}
    BY Zenon DEF Network, Mine
  <1>2. UNCHANGED execVars
    BY DEF Network
  <1>3. Len(mined) + 1 \in DOMAIN mined' /\ mined'[Len(mined) + 1].tx = tx
    BY <1>1 DEF OnchainTypeOK, AccountTypeOK
  <1>4. NothingReplaced
    BY <1>1, <1>3 DEF NothingReplaced
  <1>5. KeptInv'
    BY <1>1, <1>2 DEF KeptInv, Wired, Fresh, Queued, execVars
  <1>6. QED
    BY <1>4, <1>5

LEMMA NextKeptInv ==
    ASSUME OnchainTypeOK, KeptInv, OneExecutor', [Next]_vars
    PROVE  KeptInv' /\ (~threw' => NothingReplaced)
  <1>1. ASSUME UNCHANGED <<mempool, threw, next, onchain, inst>>,
               \A c \in Callers : \/ pc'[c] = pc[c] /\ num'[c] = num[c]
                                  \/ pc'[c] \notin Holding \cup {"import"}
                                  \/ pc[c] \in Holding /\ pc'[c] \in Holding /\ num'[c] = num[c]
        PROVE  KeptInv' /\ NothingReplaced
    <2>1. NothingReplaced
      BY <1>1 DEF NothingReplaced
    <2>2. CASE threw
      BY <1>1, <2>1, <2>2 DEF KeptInv
    <2>3. CASE ~threw
      <3>1. \A c \in Callers : pc'[c] = "import" => pc[c] = "import"
        BY <1>1 DEF Holding
      <3>2. Wired'
        BY <1>1, <2>3, <3>1, WiredAside DEF KeptInv
      <3>3. KeptInv'
        BY <1>1, <3>2, FreshAside
      <3>4. QED
        BY <2>1, <3>3
    <2>4. QED
      BY <2>2, <2>3
  <1>2. ASSUME NEW t \in Trades, PaperFill(t) PROVE KeptInv' /\ NothingReplaced
    BY <1>1, <1>2 DEF PaperFill, accountVars
  <1>3. ASSUME NEW t \in Trades, Begin(t) PROVE KeptInv' /\ NothingReplaced
    BY <1>3, KeptGot, CallersFacts DEF Begin, accountVars, NothingReplaced
  <1>4. ASSUME NEW p \in Trips, Tripped(p) PROVE KeptInv' /\ NothingReplaced
    BY <1>4, KeptGot, CallersFacts DEF Tripped, accountVars, NothingReplaced
  <1>5. ASSUME NEW c \in Callers, Construct(c) PROVE KeptInv' /\ NothingReplaced
    <2>1. NothingReplaced
      BY <1>5 DEF Construct, accountVars, NothingReplaced
    <2>2. CASE Constructible
      BY <1>5, <2>1, <2>2, KeptConstructed
    <2>3. CASE ~Constructible
      <3>1. /\ UNCHANGED <<mempool, threw, next, onchain, inst, num>>
            /\ \E d \in Callers, l \in {"idle", "done"} : pc' = [pc EXCEPT ![d] = l]
        BY <1>5, <2>3, CallersFacts DEF Construct, Fails, Return, GiveUp, Goto, accountVars
      <3>2. QED
        BY <1>1, <3>1 DEF OnchainTypeOK, Holding
    <2>4. QED
      BY <2>2, <2>3
  <1>6. ASSUME Simulate PROVE KeptInv' /\ NothingReplaced
    <2>1. /\ UNCHANGED <<mempool, threw, next, onchain, inst, num>>
          /\ \E l \in {"idle", "take"} : pc' = [pc EXCEPT ![Loop] = l]
      BY <1>6 DEF Simulate, Return, Goto, accountVars
    <2>2. QED
      BY <1>1, <2>1 DEF OnchainTypeOK, Holding
  <1>7. ASSUME NEW c \in Callers, AskPending(c) PROVE KeptInv' /\ NothingReplaced
    <2>1. /\ UNCHANGED <<mempool, threw, next, onchain, inst>>
          /\ \E n : num' = [num EXCEPT ![c] = n]
          /\ pc' = [pc EXCEPT ![c] = "taken"]
      BY <1>7 DEF AskPending, Goto, accountVars
    <2>2. QED
      BY <1>1, <2>1 DEF OnchainTypeOK, Holding
  <1>8. ASSUME NEW c \in Callers, Take(c) PROVE KeptInv' /\ NothingReplaced
    BY <1>8, KeptTaken DEF Take, accountVars, NothingReplaced
  <1>9. ASSUME Estimate PROVE KeptInv' /\ NothingReplaced
    <2>1. /\ UNCHANGED <<mempool, threw, next, onchain, inst, num>>
          /\ pc[Loop] = "estimate" /\ pc' = [pc EXCEPT ![Loop] = "send"]
      BY <1>9 DEF Estimate, Goto, accountVars
    <2>2. QED
      BY <1>1, <2>1 DEF OnchainTypeOK, Holding
  <1>10. ASSUME Receipt PROVE KeptInv' /\ NothingReplaced
    <2>1. UNCHANGED <<mempool, threw, next, onchain, inst, num>>
      BY <1>10 DEF Receipt, accountVars
    <2>2. Retry \/ Return("executed")
      BY <1>10 DEF Receipt
    <2>3. \E l \in {"idle", "take"} : pc' = [pc EXCEPT ![Loop] = l]
      BY <2>2 DEF Retry, Return, Goto
    <2>4. QED
      BY <1>1, <2>1, <2>3 DEF OnchainTypeOK, Holding
  <1>11. ASSUME threw' = TRUE PROVE KeptInv' /\ (~threw' => NothingReplaced)
    BY <1>11 DEF KeptInv
  <1>12. Caught \/ (\E p \in Trips : PauseFailed(p)) \/ (\E lost \in SUBSET Trips : Crash(lost))
            => threw' = TRUE
    BY DEF Caught, PauseFailed, Crash
  <1>13. ASSUME NEW c \in Callers, Send(c) PROVE KeptInv' /\ (~threw' => NothingReplaced)
    BY <1>13, KeptSent DEF Send
  <1>14. ASSUME OwnerStep \/ UNCHANGED vars PROVE KeptInv' /\ NothingReplaced
    BY <1>1, <1>14 DEF OwnerStep, Unpause, vars, execVars, accountVars
  <1>15. QED
    BY <1>2, <1>3, <1>4, <1>5, <1>6, <1>7, <1>8, <1>9, <1>10, <1>11, <1>12, <1>13, <1>14,
       KeptMined, CallersFacts DEF Next, LoopStep, PauseStep

(* nonceManager.ts:2 and index.ts:13-19: as long as every caller got the   *)
(* same executor and no await has thrown, whatever the signer has queued   *)
(* stays queued until it is mined, so neither a cycle takes the place of a *)
(* pause nor a pause that of a cycle.  Two executors constructed over the  *)
(* await of the import, or a reset after an exception, are what it takes   *)
(* for a pause to be lost.                                                 *)
THEOREM QueuedUntilMined ==
    Spec /\ []OneExecutor => [][~threw' => NothingReplaced]_vars
  <1>1. Init => KeptInv
    BY DEF Init, AccountInit, ExecInit, KeptInv, Wired
  <1>2. OnchainTypeOK /\ KeptInv /\ OneExecutor' /\ [Next]_vars => KeptInv'
    BY NextKeptInv
  <1>3. OnchainTypeOK /\ KeptInv /\ OneExecutor' /\ [Next]_vars => [~threw' => NothingReplaced]_vars
    BY NextKeptInv
  <1>4. QED
    BY <1>1, <1>2, <1>3, OnchainTypes, PTL DEF Spec

(* What the loop waits for is queued or mined, as long as nothing that was *)
(* queued is replaced.                                                     *)
Pending == \/ Payload(Loop) \in mempool
           \/ \E i \in DOMAIN mined : mined[i].tx = Payload(Loop)
PendingInv == ~threw /\ pc[Loop] = "wait" => Pending

LEMMA NextPendingInv ==
    OnchainTypeOK /\ KeptInv /\ PendingInv /\ OneExecutor' /\ [Next]_vars => PendingInv'
  <1> SUFFICES ASSUME OnchainTypeOK, KeptInv, PendingInv, OneExecutor', [Next]_vars,
                      ~threw', pc'[Loop] = "wait"
               PROVE  Pending'
    BY DEF PendingInv
  <1>1. NothingReplaced
    BY NextKeptInv
  <1>2. ASSUME Pending, UNCHANGED <<job, attempt>>, num'[Loop] = num[Loop] PROVE Pending'
    <2>1. Payload(Loop)' = Payload(Loop)
      BY <1>2 DEF Payload
    <2>2. CASE Payload(Loop) \in mempool
      BY <1>1, <2>1, <2>2 DEF NothingReplaced, Pending
    <2>3. CASE \E i \in DOMAIN mined : mined[i].tx = Payload(Loop)
      BY <2>1, <2>3, MinedStays DEF Pending
    <2>4. QED
      BY <1>2, <2>2, <2>3 DEF Pending
  <1>3. ASSUME Send(Loop) PROVE Pending'
    <2>1. Payload(Loop) \in mempool' /\ UNCHANGED <<job, attempt, num>>
      BY <1>3 DEF Send, Submit
    <2>2. Payload(Loop)' = Payload(Loop)
      BY <2>1 DEF Payload
    <2>3. QED
      BY <2>1, <2>2 DEF Pending
  <1>4. ~threw /\ (Send(Loop) \/ (/\ pc[Loop] = "wait" /\ UNCHANGED <<job, attempt>>
                                  /\ num'[Loop] = num[Loop]))
    BY StillWaiting, MinedStays
  <1>5. QED
    BY <1>2, <1>3, <1>4 DEF PendingInv

LEMMA NextExecutedWasMined ==
    OnchainTypeOK /\ ChainInv /\ PendingInv /\ ExecutedWasMined /\ [Next]_vars
        => ExecutedWasMined'
  <1> SUFFICES ASSUME OnchainTypeOK, ChainInv, PendingInv, ExecutedWasMined, [Next]_vars,
                      NEW t \in Trades, fills'[t] = "executed"
               PROVE  t \in Settled' \/ config'.mode = "paper" \/ threw'
    BY DEF ExecutedWasMined
  <1>1. threw => threw'
    BY MinedStays
  <1>2. ASSUME NEW i \in DOMAIN mined, IsReceipt(mined[i]), mined[i].ok, pc[Loop] = "wait", ~threw
        PROVE  job \in Settled
    <2>1. job \in Trades /\ Payload(Loop).of = job /\ Payload(Loop).nonce = num[Loop]
      BY <1>2, CallersFacts DEF Payload, OnchainTypeOK
    <2>2. mined[i].tx.nonce = Payload(Loop).nonce
      BY <1>2, <2>1 DEF IsReceipt
    <2>3. mined[i].tx = Payload(Loop)
      BY <1>2, <2>2, MinedBelow DEF PendingInv, Pending
    <2>4. QED
      BY <1>2, <2>1, <2>3 DEF Settled, Succeeded
  <1>3. CASE fills[t] = "executed"
    BY <1>1, <1>3, MinedStays DEF ExecutedWasMined
  <1>4. CASE fills[t] # "executed"
    BY <1>1, <1>2, <1>4, ToldBy, MinedStays
  <1>5. QED
    BY <1>3, <1>4

(* onchain.ts:76-77 with index.ts:13-19: as long as every caller got the   *)
(* same executor and no await has thrown, the receipt is that of the cycle *)
(* and a trade told as executed has been carried out.  The double          *)
(* construction over the await of the import is what it takes for the      *)
(* receipt of a pause to be told as the execution of a cycle.              *)
THEOREM OneExecutorTellsTruth == Spec /\ []OneExecutor => []ExecutedWasMined
  <1>1. Init => KeptInv /\ PendingInv /\ ExecutedWasMined
    BY CallersFacts DEF Init, AccountInit, ExecInit, KeptInv, Wired, PendingInv,
                        ExecutedWasMined, None
  <1>2. OnchainTypeOK /\ KeptInv /\ OneExecutor' /\ [Next]_vars => KeptInv'
    BY NextKeptInv
  <1>3. QED
    BY <1>1, <1>2, NextPendingInv, NextExecutedWasMined, NoncesInOrder, OnchainTypes, PTL DEF Spec
=============================================================================
