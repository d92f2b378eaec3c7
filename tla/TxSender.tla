------------------------------ MODULE TxSender ------------------------------
(***************************************************************************)
(* send_signed_transaction: one call at a time under the lock of the       *)
(* process, with the nonce counted once, up to Attempts tries, and, for    *)
(* the callers that wait, a receipt that stays for N blocks.               *)
(*                                                                         *)
(* The account's transactions at the Ethereum node are external: pending   *)
(* ones, at most one for each nonce, and mined ones, in the order of their *)
(* nonces.  Two transactions are the same if nonce, sender and price are:  *)
(* a thread here sends one kind of call, with the same arguments.          *)
(***************************************************************************)
EXTENDS Integers, FiniteSets

CONSTANTS
    Senders,      \* threads that send transactions
    Waiting,      \* those that set wait_for_transaction_receipt
    None,         \* no thread
    Attempts,     \* attempts
    N,            \* n_blocks_confirmation
    GasPrices,    \* what the strategy may find: gasPrice, or the default
    MaxGasPrice,  \* max_gas_price_wei
    MaxFailures   \* bound: failures of any kind

ASSUME SenderAssumption ==
    /\ Waiting \subseteq Senders
    /\ None \notin Senders
    /\ Attempts \in Nat \ {0}
    /\ N \in Nat
    /\ GasPrices \subseteq Nat
    /\ MaxGasPrice \in Nat

VARIABLES
    lock,           \* the thread that holds the lock, or None
    pc,             \* thread -> where it is in send_signed_transaction
    outcome,        \* how the last call ended
    nonce,          \* of the call under way, as the next four
    attempt,        \* i
    price,          \* gasPrice in args
    elapsed,        \* blockNumber - start_block, while waiting for N blocks
    accepted,       \* history: how often the pool took a transaction of it
    gas_price_wei,  \* config.gas_price_wei
    pending,        \* transactions in the node's pool
    mined,          \* transactions in the chain, and the blocks above them
    count,          \* getTransactionCount: how many are in the chain
    confirmed,      \* history: transactions that were confirmed to their callers
    failures,       \* history: how many failures, and what happened so far
    history

callVars    == <<nonce, attempt, price, elapsed, accepted>>
chainVars   == <<pending, mined, count>>
historyVars == <<failures, history>>
senderVars  == <<lock, pc, outcome, callVars, gas_price_wei, chainVars, confirmed, historyVars>>

Tx == [nonce : Nat, from : Senders, price : Nat]

Lesser(a, b) == IF a <= b THEN a ELSE b

(* compute_gas_price.                                                       *)
Capped(p) == Lesser(p, MaxGasPrice)

SenderInit ==
    /\ lock = None
    /\ pc = [s \in Senders |-> "idle"]
    /\ outcome = "none"
    /\ nonce = 0 /\ attempt = 0 /\ price = 0 /\ elapsed = 0 /\ accepted = 0
    /\ gas_price_wei \in {Capped(p) : p \in GasPrices}
    /\ pending = {} /\ mined = {} /\ count = 0
    /\ confirmed = {} /\ failures = 0 /\ history = {}

(* Something goes wrong, within the bound.                                  *)
Fails(events) ==
    /\ failures < MaxFailures
    /\ failures' = failures + 1
    /\ history' = history \cup events

Never(event) == event \notin history

-----------------------------------------------------------------------------
(* A call by thread s.                                                      *)

GoesTo(s, where) == pc' = [pc EXCEPT ![s] = where]

Calls(s) ==
    /\ pc[s] = "idle"
    /\ GoesTo(s, "acquire")
    /\ UNCHANGED <<lock, outcome, callVars, gas_price_wei, chainVars, historyVars, confirmed>>

(* A wrong variant: pending transactions are counted, too. *)
Begins_CountsPending(s) ==
    /\ pc[s] = "acquire" /\ lock = None
    /\ lock' = s
    /\ GoesTo(s, "send")
    /\ price' = gas_price_wei
    /\ nonce' = count + Cardinality(pending)
    /\ outcome' = "none"
    /\ UNCHANGED <<attempt, elapsed, accepted, gas_price_wei, chainVars, confirmed, historyVars>>

(* The lock, the arguments, and the nonce.                                  *)
Begins(s) ==
    /\ pc[s] = "acquire" /\ lock = None
    /\ lock' = s
    /\ GoesTo(s, "send")
    /\ price' = gas_price_wei
    /\ nonce' = count
    /\ outcome' = "none"
    /\ UNCHANGED <<attempt, elapsed, accepted, gas_price_wei, chainVars,
                   historyVars, confirmed>>

(* The call returns or raises, and the finally clause releases the lock.    *)
Ends(s, how) ==
    /\ lock' = None
    /\ GoesTo(s, "idle")
    /\ outcome' = how
    /\ nonce' = 0 /\ attempt' = 0 /\ price' = 0 /\ elapsed' = 0 /\ accepted' = 0

(* A wrong variant: one attempt too many. *)
Retries_OffByOne(s, n, taken) ==
    \/ /\ attempt < Attempts
       /\ attempt' = attempt + 1
       /\ nonce' = n
       /\ accepted' = taken
       /\ elapsed' = 0
       /\ GoesTo(s, "send")
       /\ UNCHANGED <<lock, outcome, price>>
    \/ /\ attempt = Attempts
       /\ Ends(s, "error")

(* A ValueError: the loop goes on with the nonce n, unless this was the     *)
(* last attempt, which raises it again whatever it says.  The pool took as  *)
(* many transactions of the call as taken.                                  *)
Retries(s, n, taken) ==
    \/ /\ attempt < Attempts - 1
       /\ attempt' = attempt + 1
       /\ nonce' = n
       /\ accepted' = taken
       /\ elapsed' = 0
       /\ GoesTo(s, "send")
       /\ UNCHANGED <<lock, outcome, price>>
    \/ /\ attempt = Attempts - 1
       /\ Ends(s, "error")

(* What the Ethereum node says of the transaction (external).               *)
ThisTx(s)   == [nonce |-> nonce, from |-> s, price |-> price]
IsTooLow    == nonce < count
Rivals      == {t \in pending : t.nonce = nonce}
Underpriced == \E t \in Rivals : price <= t.price
IsKnown(s)  == ThisTx(s) \in pending

(* A higher price takes the place of what had the nonce.                    *)
EntersPool(s) ==
    /\ ~IsTooLow /\ ~Underpriced
    /\ pending' = (pending \ Rivals) \cup {ThisTx(s)}

Displacement == IF Rivals = {} THEN {} ELSE {"displaced"}

(* sendRawTransaction.                                                      *)
Sends(s) ==
    /\ pc[s] = "send"
    /\ EntersPool(s)
    /\ \/ /\ s \in Waiting
          /\ GoesTo(s, "receipt")
          /\ accepted' = accepted + 1
          /\ UNCHANGED <<lock, outcome, nonce, attempt, price, elapsed>>
       \/ /\ s \notin Waiting
          /\ Ends(s, "sent")
    /\ history' = history \cup Displacement
    /\ UNCHANGED <<gas_price_wei, mined, count, failures, confirmed>>

(* A wrong variant: an underpriced transaction is sent again at a higher price. *)
TakesNextNonce_Outbids(s) ==
    /\ pc[s] = "send"
    /\ Underpriced /\ ~IsKnown(s)
    /\ attempt < Attempts - 1
    /\ attempt' = attempt + 1
    /\ price' = price + 1
    /\ UNCHANGED <<lock, pc, outcome, nonce, elapsed, accepted, gas_price_wei, chainVars,
                   confirmed, historyVars>>

(* "nonce too low", or "replacement transaction underpriced".               *)
TakesNextNonce(s) ==
    /\ pc[s] = "send"
    /\ IsTooLow \/ (Underpriced /\ ~IsKnown(s))
    /\ Retries(s, nonce + 1, accepted)
    /\ UNCHANGED <<gas_price_wei, chainVars, historyVars, confirmed>>

(* "known transaction".                                                     *)
IsDuplicate(s) ==
    /\ pc[s] = "send"
    /\ ~IsTooLow /\ IsKnown(s)
    /\ Ends(s, IF attempt < Attempts - 1 THEN "duplicate" ELSE "error")
    /\ UNCHANGED <<gas_price_wei, chainVars, historyVars, confirmed>>

(* A wrong variant: every error moves on to the next nonce. *)
UnknownError_NextNonce(s) ==
    /\ pc[s] = "send"
    /\ Fails({})
    /\ Retries(s, nonce + 1, accepted)
    /\ UNCHANGED <<gas_price_wei, chainVars, confirmed>>

(* Any other ValueError of building, signing or sending...                  *)
UnknownError(s) ==
    /\ pc[s] = "send"
    /\ Fails({})
    /\ Retries(s, nonce, accepted)
    /\ UNCHANGED <<gas_price_wei, chainVars, confirmed>>

(* ...or one that comes after the pool took the transaction, as of an       *)
(* answer that cannot be read: the loop sends it again.                     *)
AnswerIsLost(s) ==
    /\ pc[s] = "send"
    /\ EntersPool(s)
    /\ Fails({"failed"} \cup Displacement)
    /\ Retries(s, nonce, accepted + 1)
    /\ UNCHANGED <<gas_price_wei, mined, count, confirmed>>

(* Any other exception, such as a lost connection, is not caught; while     *)
(* sending, the transaction may have reached the pool.                      *)
Raises(s) ==
    /\ lock = s
    /\ Ends(s, "error")
    /\ \/ UNCHANGED pending /\ Fails({})
       \/ pc[s] = "send" /\ EntersPool(s) /\ Fails(Displacement)
    /\ UNCHANGED <<gas_price_wei, mined, count, confirmed>>

-----------------------------------------------------------------------------
(* Waiting for the receipt, and for N blocks on top of it.                  *)

InChain(s) == {t \in mined : t.nonce = nonce /\ t.from = s /\ t.price = price}

FindsReceipt(s) ==
    /\ pc[s] = "receipt"
    /\ InChain(s) # {}
    /\ IF N > 0
       THEN GoesTo(s, "confirm") /\ UNCHANGED <<lock, outcome, callVars>>
       ELSE Ends(s, "sent")
    /\ UNCHANGED <<gas_price_wei, chainVars, historyVars, confirmed>>

(* A wrong variant: a timeout is one more reason to try again. *)
TimesOut_Retries(s) ==
    /\ pc[s] = "receipt"
    /\ Retries(s, nonce, accepted)
    /\ UNCHANGED <<gas_price_wei, chainVars, confirmed, historyVars>>

(* A wrong variant: the wait for a receipt has no end of its own. *)
TimesOut_Never(s) ==
    /\ pc[s] = "receipt"
    /\ InChain(s) # {}
    /\ Ends(s, "timeout")
    /\ UNCHANGED <<gas_price_wei, chainVars, confirmed, historyVars>>

(* tx_timeout_seconds are over.                                             *)
TimesOut(s) ==
    /\ pc[s] = "receipt"
    /\ Ends(s, "timeout")
    /\ UNCHANGED <<gas_price_wei, chainVars, historyVars, confirmed>>

(* A wrong variant: one block too few. *)
IsDeep_OffByOne(t) == t.age >= N - 1

(* One turn of the loop: current_block, and then the receipt.               *)
IsDeep(t) == t.age >= N

Confirms(s) ==
    /\ pc[s] = "confirm"
    /\ \E t \in InChain(s) : IsDeep(t)
    /\ confirmed' = confirmed \cup {ThisTx(s)}
    /\ Ends(s, "sent")
    /\ UNCHANGED <<gas_price_wei, chainVars, historyVars>>

GivesUp(s) ==
    /\ pc[s] = "confirm"
    /\ \A t \in InChain(s) : ~IsDeep(t)
    /\ elapsed > 3 * N
    /\ Ends(s, "unconfirmed")
    /\ UNCHANGED <<gas_price_wei, chainVars, historyVars, confirmed>>

(* A ValueError while waiting is caught by the loop that sends, which does  *)
(* not know that the transaction is on its way.                             *)
WaitFails(s) ==
    /\ pc[s] \in {"receipt", "confirm"}
    /\ Fails({"failed"})
    /\ Retries(s, nonce, accepted)
    /\ UNCHANGED <<gas_price_wei, chainVars, confirmed>>

Sender(s) ==
    \/ Begins(s)
    \/ Sends(s) \/ TakesNextNonce(s) \/ IsDuplicate(s)
    \/ FindsReceipt(s) \/ TimesOut(s)
    \/ Confirms(s) \/ GivesUp(s)

Failure(s) == UnknownError(s) \/ AnswerIsLost(s) \/ Raises(s) \/ WaitFails(s)

-----------------------------------------------------------------------------
(* The gas price thread.  It assigns after it released the lock, so that a  *)
(* call may be under way; that call keeps the price in its args.            *)
ComputesGasPrice(p) ==
    /\ Capped(p) # gas_price_wei
    /\ gas_price_wei' = Capped(p)
    /\ Fails({"repriced"})
    /\ UNCHANGED <<lock, pc, outcome, callVars, chainVars, confirmed>>

(* The chain (external).                                                    *)
MinesBlock ==
    /\ mined' = {[t EXCEPT !.age = Lesser(@ + 1, N)] : t \in mined}
    /\ elapsed' = IF lock # None /\ pc[lock] = "confirm" THEN Lesser(elapsed + 1, 3 * N + 1)
                 ELSE elapsed
    /\ UNCHANGED <<lock, pc, outcome, nonce, attempt, price, accepted, gas_price_wei, pending,
                   count, historyVars, confirmed>>

MinesTx(t) ==
    /\ t \in pending
    /\ t.nonce = count
    /\ pending' = pending \ {t}
    /\ mined' = mined \cup {[nonce |-> t.nonce, from |-> t.from, price |-> t.price, age |-> 0]}
    /\ count' = count + 1
    /\ UNCHANGED <<lock, pc, outcome, callVars, gas_price_wei, historyVars, confirmed>>

(* The block of the latest transaction is replaced, before it has N blocks  *)
(* on top.  The transaction is pending again, or gone.                      *)
Uncles(t) ==
    /\ t \in mined
    /\ t.nonce = count - 1
    /\ t.age < N
    /\ mined' = mined \ {t}
    /\ count' = count - 1
    /\ \/ /\ pending' = pending \cup {[nonce |-> t.nonce, from |-> t.from, price |-> t.price]}
          /\ Fails({"uncled"})
       \/ /\ UNCHANGED pending
          /\ Fails({"dropped"})
    /\ UNCHANGED <<lock, pc, outcome, callVars, gas_price_wei, confirmed>>

(* The node forgets a pending transaction.                                  *)
Drops(t) ==
    /\ t \in pending
    /\ pending' = pending \ {t}
    /\ Fails({"dropped"})
    /\ UNCHANGED <<lock, pc, outcome, callVars, gas_price_wei, mined, count, confirmed>>
=============================================================================
