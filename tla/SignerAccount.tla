---------------------------- MODULE SignerAccount ----------------------------
(***************************************************************************)
(* What services/execution/src/modes/onchain.ts talks to: the account of   *)
(* the signer at a node of the chain, and the pause flag of ArbExecutor.   *)
(* At most one transaction per nonce is queued; the one whose nonce is the *)
(* number of mined transactions is the next to be mined, any higher nonce  *)
(* waits.  With a private relay (PRIVATE_RPC) the public node does not see *)
(* what is queued.                                                         *)
(***************************************************************************)
EXTENDS Integers, Sequences, FiniteSets

CONSTANTS Trades,       \* approved trades
          Directional,  \* the trades that are not cycles
          Trips         \* TRIPPED messages on the channel ui:push

ASSUME AccountAssumption ==
    /\ Directional \subseteq Trades
    /\ Trades \cap Trips = {}

VARIABLES relayed,  \* submissions go through PRIVATE_RPC; never changes
          mempool,  \* queued transactions of the signer
          mined,    \* mined transactions with their outcome
          paused    \* ArbExecutor.paused

accountVars == <<relayed, mempool, mined, paused>>

(* A transaction is a cycle of a trade or the pause sent for a trip; the   *)
(* number of the attempt tells the hashes of retries apart.                *)
Tx == [nonce : Nat, of : Trades \cup Trips, attempt : Nat]

AccountInit == /\ relayed \in BOOLEAN
               /\ mempool = {}
               /\ mined = <<>>
               /\ paused = FALSE

AccountTypeOK == /\ relayed \in BOOLEAN
                 /\ mempool \in SUBSET Tx
                 /\ mined \in Seq([tx : Tx, ok : BOOLEAN])
                 /\ paused \in BOOLEAN

Confirmed == Len(mined)
Queued == {tx.nonce : tx \in mempool}

(* eth_getTransactionCount(address, "pending")                             *)
IsPendingCount(n) ==
    IF relayed THEN n = Confirmed
    ELSE /\ n >= Confirmed /\ n \notin Queued
         /\ \A m \in Confirmed .. (n - 1) : m \in Queued

(* The node takes a transaction, possibly in the place of the one that had *)
(* its nonce; whether the higher gas price suffices for that is open.      *)
Submit(tx) == /\ tx.nonce >= Confirmed
              /\ mempool' = {m \in mempool : m.nonce # tx.nonce} \cup {tx}

(* A cycle reverts when the contract is paused or the price has moved, and *)
(* either kind when the owner has taken the signer off the executors.      *)
Mine == \E tx \in mempool, ok \in BOOLEAN :
          /\ tx.nonce = Confirmed
          /\ paused /\ tx.of \in Trades => ~ok
          /\ mined' = Append(mined, [tx |-> tx, ok |-> ok])
          /\ mempool' = mempool \ {tx}
          /\ paused' = (paused \/ (ok /\ tx.of \in Trips))
          /\ UNCHANGED relayed

(* The owner, by hand and from an account of its own.                      *)
Unpause == paused' = FALSE /\ UNCHANGED <<relayed, mempool, mined>>

Succeeded(of) == {i \in DOMAIN mined : mined[i].tx.of = of /\ mined[i].ok}
Settled == {t \in Trades : Succeeded(t) # {}}
PausedOnce == \E p \in Trips : Succeeded(p) # {}
=============================================================================
