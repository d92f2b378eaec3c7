-------------------------- MODULE NodeTransactions --------------------------
(***************************************************************************)
(* The threads that send transactions, over TxSender: main, which sets the *)
(* minimum price before any thread is started and gives up when it cannot, *)
(* the thread that claims rewards until there are none, and others, which  *)
(* bid or send reports.  A process that ends is restarted, with nothing    *)
(* left of its calls but the transactions it sent.                         *)
(***************************************************************************)
EXTENDS TxSender

CONSTANTS
    MaxCalls,    \* bound: bids and reports
    MaxRewards   \* bound: how often rewards become available

ASSUME CallersAssumption == {"main", "claim"} \subseteq Waiting

VARIABLES
    running,     \* the threads have been started
    calls,       \* bids and reports so far
    rewards,     \* hasAvailableRewards (external)
    appeared     \* how often rewards became available

nodeVars == <<running, calls, rewards, appeared>>
vars     == <<senderVars, nodeVars>>

Init ==
    /\ SenderInit
    /\ running = FALSE
    /\ calls = 0
    /\ rewards = FALSE
    /\ appeared = 0

-----------------------------------------------------------------------------
(* Main.                                                                    *)

(* getMinAuditPrice is min_price_in_qsp.                                    *)
MinPriceIsSet == \E t \in mined : t.from = "main"

UpdatesMinPrice ==
    /\ ~running /\ outcome = "none"
    /\ ~MinPriceIsSet
    /\ Calls("main")
    /\ UNCHANGED nodeVars

(* A wrong variant: a failure to set the price is only logged. *)
StartsThreads_Anyway ==
    /\ ~running /\ pc["main"] = "idle"
    /\ MinPriceIsSet \/ outcome # "none"
    /\ running' = TRUE
    /\ UNCHANGED <<senderVars, calls, rewards, appeared>>

(* The price is right, or has been set.                                     *)
StartsThreads ==
    /\ ~running /\ pc["main"] = "idle"
    /\ \/ outcome = "none" /\ MinPriceIsSet
       \/ outcome = "sent"
    /\ running' = TRUE
    /\ UNCHANGED <<senderVars, calls, rewards, appeared>>

(* The process is gone, and the next one starts.                            *)
Restarts ==
    /\ lock' = None
    /\ pc' = [s \in Senders |-> "idle"]
    /\ outcome' = "none"
    /\ nonce' = 0 /\ attempt' = 0 /\ price' = 0 /\ elapsed' = 0 /\ accepted' = 0
    /\ running' = FALSE
    /\ UNCHANGED <<gas_price_wei, chainVars, confirmed, calls, rewards, appeared>>

(* What send_signed_transaction raises ends the process at its start.       *)
ExitsAtStart ==
    /\ ~running
    /\ outcome \notin {"none", "sent"}
    /\ Restarts
    /\ UNCHANGED historyVars

Crash ==
    /\ running
    /\ Fails({})
    /\ Restarts

-----------------------------------------------------------------------------
(* The threads.                                                             *)

(* A bid, or a report.                                                      *)
SendsBidOrReport(s) ==
    /\ running
    /\ s \notin {"main", "claim"}
    /\ calls < MaxCalls
    /\ calls' = calls + 1
    /\ Calls(s)
    /\ UNCHANGED <<running, rewards, appeared>>

(* A wrong variant: no second try after a claim that timed out. *)
ClaimsRewards_Once ==
    /\ running /\ rewards
    /\ lock = None
    /\ outcome # "timeout"
    /\ Calls("claim")
    /\ UNCHANGED nodeVars

(* hasAvailableRewards, which needs the lock, says yes.  Whether the last   *)
(* claim returned or raised makes the next one come at once or a day later. *)
ClaimsRewards ==
    /\ running /\ rewards
    /\ lock = None
    /\ Calls("claim")
    /\ UNCHANGED nodeVars

Sending(s) == (Sender(s) \/ Failure(s)) /\ UNCHANGED nodeVars

GasPrice == (\E p \in GasPrices : ComputesGasPrice(p)) /\ UNCHANGED nodeVars

-----------------------------------------------------------------------------
(* The chain and the contract (external).                                   *)

RewardsAppear ==
    /\ appeared < MaxRewards
    /\ appeared' = appeared + 1
    /\ rewards' = TRUE
    /\ UNCHANGED <<senderVars, running, calls>>

NextBlock == MinesBlock /\ UNCHANGED nodeVars

MinesNext ==
    \E t \in pending :
        /\ MinesTx(t)
        /\ rewards' = (rewards /\ t.from # "claim")
        /\ UNCHANGED <<running, calls, appeared>>

Loses ==
    \/ (\E t \in pending : Drops(t)) /\ UNCHANGED nodeVars
    \/ \E t \in mined :
         /\ Uncles(t)
         /\ rewards' = (rewards \/ t.from = "claim")
         /\ UNCHANGED <<running, calls, appeared>>

-----------------------------------------------------------------------------
Main == UpdatesMinPrice \/ StartsThreads \/ ExitsAtStart

Next ==
    \/ Main \/ Crash
    \/ \E s \in Senders : SendsBidOrReport(s) \/ Sending(s)
    \/ ClaimsRewards \/ GasPrice
    \/ NextBlock \/ MinesNext \/ Loses \/ RewardsAppear

Spec == Init /\ [][Next]_vars

(* The threads go on, the lock is free in between for each that asks again  *)
(* and again, and the chain grows and takes what is pending.                *)
FairSpec ==
    /\ Spec
    /\ WF_vars(Main)
    /\ \A s \in Senders : /\ WF_vars(Sender(s) /\ UNCHANGED nodeVars)
                          /\ SF_vars(Begins(s) /\ UNCHANGED nodeVars)
    /\ SF_vars(ClaimsRewards)
    /\ WF_vars(NextBlock)
    /\ WF_vars(MinesNext)

-----------------------------------------------------------------------------
(* Types of the variables of the node's transactions.                       *)
TypeOK ==
    /\ lock \in Senders \cup {None}
    /\ pc \in [Senders -> {"idle", "acquire", "send", "receipt", "confirm"}]
    /\ outcome \in {"none", "sent", "duplicate", "timeout", "unconfirmed", "error"}
    /\ nonce \in Nat /\ attempt \in 0 .. Attempts - 1 /\ price \in Nat
    /\ elapsed \in 0 .. 3 * N + 1 /\ accepted \in 0 .. Attempts
    /\ gas_price_wei \in 0 .. MaxGasPrice
    /\ pending \subseteq Tx
    /\ mined \subseteq [nonce : Nat, from : Senders, price : Nat, age : 0 .. N]
    /\ count \in Nat
    /\ confirmed \subseteq Tx
    /\ failures \in Nat
    /\ history \subseteq {"failed", "displaced", "repriced", "uncled", "dropped"}
    /\ running \in BOOLEAN /\ calls \in Nat /\ rewards \in BOOLEAN /\ appeared \in Nat

(* Unless the Ethereum node drops one, no pending transaction waits for a   *)
(* nonce that nothing has: those between the chain and it are all taken.    *)
(* Counting from what is mined, and going on by one, is what ensures it.    *)
NoncesHaveNoGap ==
    Never("dropped") =>
        \A t \in pending : \A m \in count .. t.nonce : \E u \in pending : u.nonce = m

(* As long as the gas price is the same, and nothing is dropped or uncled,  *)
(* one kind of call is pending at most once, whatever timed out, failed or  *)
(* was restarted before: a second one meets the first, and is a duplicate.  *)
PendingOnce ==
    Never("repriced") /\ Never("uncled") /\ Never("dropped") =>
        \A t, u \in pending : t.from = u.from => t = u

(* And no call takes the place of a pending one of another thread.          *)
NothingDisplaced ==
    Never("repriced") => Never("displaced")

(* One call of send_signed_transaction puts one transaction in the pool;    *)
(* only if the answer or the wait for the receipt fails, it may put more,   *)
(* and each may be mined.                                                   *)
AcceptedOnce ==
    Never("failed") => accepted <= 1

(* What was confirmed to a caller stays in the chain.                       *)
ConfirmedStays ==
    \A t \in confirmed : \E m \in mined :
        m.nonce = t.nonce /\ m.from = t.from /\ m.price = t.price

(* The threads run only once the contract has the node's minimum price,     *)
(* unless it was read from a block that is replaced later.                  *)
RunsAtItsPrice ==
    running /\ Never("uncled") /\ Never("dropped") => MinPriceIsSet

(* The inductive invariant behind the theorems.                             *)

(* The lock is with the one thread that is in the middle of a call.         *)
LockInv ==
    /\ \A s \in Senders : pc[s] \notin {"idle", "acquire"} <=> lock = s
    /\ ~running => \A s \in Senders \ {"main"} : pc[s] = "idle"

(* Nonces are those of the chain, and then of the pool.                     *)
PoolInv ==
    /\ \A t \in pending : t.nonce >= count
    /\ \A t, u \in pending : t.nonce = u.nonce => t = u
    /\ \A t \in mined : t.nonce < count
    /\ \A t, u \in mined : t.nonce = u.nonce => t = u

(* All the nonces the call has passed by are taken.                         *)
PassedInv ==
    lock # None /\ Never("dropped") =>
        \A m \in count .. nonce - 1 : \E u \in pending : u.nonce = m

(* There is one price.                                                      *)
PriceInv ==
    Never("repriced") =>
        /\ \A t \in pending \cup mined : t.price = gas_price_wei
        /\ lock # None => price = gas_price_wei

(* A call has not passed by a pending transaction of its own.               *)
OwnInv ==
    lock # None /\ Never("repriced") /\ Never("uncled") =>
        \A t \in pending : t.from = lock => t.nonce >= nonce

(* Each attempt adds at most one transaction.                               *)
AcceptedInv ==
    /\ lock = None => accepted = 0
    /\ \A s \in Senders :
         /\ pc[s] = "send" => accepted <= attempt
         /\ pc[s] = "send" /\ Never("failed") => accepted = 0
         /\ pc[s] \in {"receipt", "confirm"} => accepted <= attempt + 1

ConfirmedInv ==
    \A t \in confirmed : \E m \in mined :
        m.nonce = t.nonce /\ m.from = t.from /\ m.price = t.price /\ m.age >= N

StartInv ==
    ~running /\ outcome = "sent" /\ Never("uncled") /\ Never("dropped") => MinPriceIsSet

SendInv ==
    /\ TypeOK /\ LockInv /\ PoolInv
    /\ NoncesHaveNoGap /\ PassedInv
    /\ PriceInv /\ NothingDisplaced /\ OwnInv /\ PendingOnce
    /\ AcceptedInv /\ AcceptedOnce
    /\ ConfirmedInv
    /\ StartInv /\ RunsAtItsPrice

(* A call that holds the lock lets it go again: receipts, confirmations     *)
(* and retries all are bounded.                                             *)
CallsEnd ==
    \A s \in Senders : lock = s ~> lock # s

(* Available rewards are claimed in the end, through duplicates, timeouts,  *)
(* nonces that are taken, and restarts.                                     *)
RewardsAreClaimed == rewards ~> ~rewards
=============================================================================
