------------------------- MODULE TransactionProofs -------------------------
(***************************************************************************)
(* Proofs about NodeTransactions, for any threads, prices, confirmations   *)
(* and attempts, and whatever fails.                                       *)
(***************************************************************************)
EXTENDS NodeTransactions, TLAPS

Outcomes == {"sent", "duplicate", "timeout", "unconfirmed", "error"}

LEMMA CappedType ==
    ASSUME NEW p \in GasPrices
    PROVE  Capped(p) \in 0 .. MaxGasPrice
  BY SenderAssumption DEF Capped, Lesser

LEMMA Zero ==
    /\ 0 \in 0 .. Attempts - 1
    /\ 0 \in 0 .. Attempts
    /\ 0 \in 0 .. 3 * N + 1
    /\ 0 \in 0 .. N
  BY SenderAssumption

LEMMA InitHolds == Init => SendInv
  <1> SUFFICES ASSUME Init PROVE SendInv
    OBVIOUS
  <1> USE SenderAssumption, CallersAssumption DEF Init, SenderInit
  <1>1. TypeOK
    <2>1. gas_price_wei \in 0 .. MaxGasPrice
      BY CappedType
    <2>2. attempt \in 0 .. Attempts - 1 /\ elapsed \in 0 .. 3 * N + 1 /\ accepted \in 0 .. Attempts
      OBVIOUS
    <2> QED
      BY <2>1, <2>2 DEF TypeOK
  <1>2. LockInv /\ PoolInv /\ NoncesHaveNoGap /\ PassedInv
    BY DEF LockInv, PoolInv, NoncesHaveNoGap, PassedInv
  <1>3. PriceInv /\ NothingDisplaced /\ OwnInv /\ PendingOnce
    BY DEF PriceInv, NothingDisplaced, OwnInv, PendingOnce, Never
  <1>4. AcceptedInv /\ AcceptedOnce /\ ConfirmedInv /\ StartInv /\ RunsAtItsPrice
    BY DEF AcceptedInv, AcceptedOnce, ConfirmedInv, StartInv, RunsAtItsPrice, Never
  <1> QED
    BY <1>1, <1>2, <1>3, <1>4 DEF SendInv

(* A call ends.  What it did to the pool is shown elsewhere.                *)
LEMMA CallLeaves ==
    ASSUME SendInv, NEW s \in Senders, NEW how \in Outcomes,
           lock = s, Ends(s, how),
           UNCHANGED <<gas_price_wei, mined, count, nodeVars>>,
           how = "sent" /\ s = "main" => InChain(s) # {},
           failures' \in Nat,
           history \subseteq history',
           history' \subseteq {"failed", "displaced", "repriced", "uncled", "dropped"},
           pending' \subseteq Tx, confirmed' \subseteq Tx,
           PoolInv', NoncesHaveNoGap', PendingOnce', PriceInv', NothingDisplaced',
           ConfirmedInv'
    PROVE  SendInv'
  <1>0. /\ lock' = None /\ outcome' = how
        /\ nonce' = 0 /\ attempt' = 0 /\ price' = 0 /\ elapsed' = 0 /\ accepted' = 0
        /\ pc' = [pc EXCEPT ![s] = "idle"]
    BY DEF Ends, GoesTo
  <1>u. /\ gas_price_wei' = gas_price_wei
        /\ mined' = mined /\ count' = count
        /\ running' = running /\ calls' = calls /\ rewards' = rewards /\ appeared' = appeared
    BY DEF nodeVars
  <1>t. TypeOK /\ LockInv
    BY DEF SendInv
  <1>1. TypeOK'
    <2>1. pc' \in [Senders -> {"idle", "acquire", "send", "receipt", "confirm"}]
      BY <1>t, <1>0 DEF TypeOK
    <2>2. outcome' \in {"none", "sent", "duplicate", "timeout", "unconfirmed", "error"}
      BY <1>0 DEF Outcomes
    <2> QED
      BY <1>t, <2>1, <2>2, <1>0, <1>u, Zero DEF TypeOK
  <1>2. LockInv'
    <2>1. \A x \in Senders : pc'[x] = IF x = s THEN "idle" ELSE pc[x]
      BY <1>t, <1>0 DEF TypeOK
    <2>2. ASSUME NEW x \in Senders
          PROVE  (pc[x] \notin {"idle", "acquire"} <=> lock = x)'
      BY <1>t, <2>1, <1>0, SenderAssumption DEF LockInv
    <2>3. ASSUME ~running', NEW x \in Senders \ {"main"}
          PROVE  pc'[x] = "idle"
      BY <1>t, <2>1, <2>3, <1>u DEF LockInv
    <2> QED
      BY <2>2, <2>3 DEF LockInv
  <1>3. PassedInv' /\ OwnInv'
    BY <1>0 DEF PassedInv, OwnInv
  <1>4. AcceptedInv' /\ AcceptedOnce'
    <2>1. ASSUME NEW x \in Senders
          PROVE  pc'[x] # "send" /\ pc'[x] \notin {"receipt", "confirm"}
      BY <1>2, <1>0, SenderAssumption DEF LockInv
    <2>2. AcceptedInv'
      BY <2>1, <1>0 DEF AcceptedInv
    <2>3. AcceptedOnce'
      BY <1>0 DEF AcceptedOnce, Never
    <2> QED
      BY <2>2, <2>3
  <1>5. RunsAtItsPrice'
    BY <1>u DEF SendInv, RunsAtItsPrice, MinPriceIsSet, Never
  <1>6. StartInv'
    <2>1. CASE running
      BY <2>1, <1>u DEF StartInv
    <2>2. CASE ~running
      <3>1. LockInv /\ pc[s] \notin {"idle", "acquire"}
        BY <1>t DEF LockInv
      <3>2. s = "main"
        BY <3>1, <2>2 DEF LockInv
      <3> QED
        BY <3>2, <1>0, <1>u DEF StartInv, MinPriceIsSet, InChain
    <2> QED
      BY <2>1, <2>2
  <1> QED
    BY <1>1, <1>2, <1>3, <1>4, <1>5, <1>6 DEF SendInv

(* A call ends, and the pool stays as it is.                                *)
LEMMA CallEnds ==
    ASSUME SendInv, NEW s \in Senders, NEW how \in Outcomes,
           lock = s, Ends(s, how),
           UNCHANGED <<gas_price_wei, chainVars, nodeVars>>,
           how = "sent" /\ s = "main" => InChain(s) # {},
           failures' \in Nat,
           history \subseteq history',
           history' \subseteq {"failed", "displaced", "repriced", "uncled", "dropped"},
           "displaced" \in history' => "displaced" \in history,
           confirmed' = confirmed
    PROVE  SendInv'
  <1>u. /\ pending' = pending /\ mined' = mined /\ count' = count /\ gas_price_wei' = gas_price_wei
        /\ UNCHANGED nodeVars
        /\ lock' = None
    BY DEF chainVars, Ends
  <1>1. pending' \subseteq Tx /\ confirmed' \subseteq Tx
    BY <1>u DEF SendInv, TypeOK
  <1>2. PoolInv' /\ NoncesHaveNoGap' /\ PendingOnce'
    BY <1>u DEF SendInv, PoolInv, NoncesHaveNoGap, PendingOnce, Never
  <1>3. PriceInv' /\ NothingDisplaced' /\ ConfirmedInv'
    BY <1>u DEF SendInv, PriceInv, NothingDisplaced, ConfirmedInv, Never
  <1> QED
    BY <1>u, <1>1, <1>2, <1>3, CallLeaves

(* Main or another thread asks for the lock.                                *)
LEMMA CallBegins ==
    ASSUME SendInv, NEW s \in Senders, Calls(s),
           running \/ s = "main",
           running' = running, calls' \in Nat, rewards' = rewards, appeared' = appeared
    PROVE  SendInv'
  <1>0. /\ pc[s] = "idle" /\ pc' = [pc EXCEPT ![s] = "acquire"]
        /\ UNCHANGED <<lock, outcome, nonce, attempt, price, elapsed, accepted, gas_price_wei,
                       pending, mined, count, confirmed, failures, history>>
    BY DEF Calls, GoesTo, callVars, chainVars, historyVars
  <1>t. TypeOK /\ LockInv
    BY DEF SendInv
  <1>p. \A x \in Senders : pc'[x] = IF x = s THEN "acquire" ELSE pc[x]
    BY <1>0, <1>t DEF TypeOK
  <1>1. TypeOK'
    BY <1>0, <1>t DEF TypeOK
  <1>2. LockInv'
    <2>1. ASSUME NEW x \in Senders
          PROVE  (pc[x] \notin {"idle", "acquire"} <=> lock = x)'
      BY <1>0, <1>t, <1>p DEF LockInv
    <2>2. ASSUME ~running', NEW x \in Senders \ {"main"}
          PROVE  pc'[x] = "idle"
      BY <2>2, <1>t, <1>p DEF LockInv
    <2> QED
      BY <2>1, <2>2 DEF LockInv
  <1>3. PoolInv' /\ NoncesHaveNoGap' /\ PassedInv'
    BY <1>0 DEF SendInv, PoolInv, NoncesHaveNoGap, PassedInv, Never
  <1>4. PriceInv' /\ NothingDisplaced' /\ OwnInv' /\ PendingOnce'
    BY <1>0 DEF SendInv, PriceInv, NothingDisplaced, OwnInv, PendingOnce, Never
  <1>5. AcceptedInv' /\ AcceptedOnce'
    BY <1>0, <1>p DEF SendInv, AcceptedInv, AcceptedOnce, Never
  <1>6. ConfirmedInv' /\ RunsAtItsPrice' /\ StartInv'
    BY <1>0 DEF SendInv, ConfirmedInv, RunsAtItsPrice, StartInv, MinPriceIsSet, Never
  <1> QED
    BY <1>1, <1>2, <1>3, <1>4, <1>5, <1>6 DEF SendInv

LEMMA MainStarts ==
    ASSUME SendInv, StartsThreads
    PROVE  SendInv'
  <1>0. /\ running' = TRUE
        /\ ~running
        /\ outcome = "sent" \/ MinPriceIsSet
        /\ UNCHANGED <<lock, pc, outcome, nonce, attempt, price, elapsed, accepted, gas_price_wei,
                       pending, mined, count, confirmed, failures, history, calls, rewards,
                       appeared>>
    BY DEF StartsThreads, senderVars, callVars, chainVars, historyVars
  <1>1. TypeOK' /\ LockInv'
    BY <1>0 DEF SendInv, TypeOK, LockInv
  <1>2. PoolInv' /\ NoncesHaveNoGap' /\ PassedInv'
    BY <1>0 DEF SendInv, PoolInv, NoncesHaveNoGap, PassedInv, Never
  <1>3. PriceInv' /\ NothingDisplaced' /\ OwnInv' /\ PendingOnce'
    BY <1>0 DEF SendInv, PriceInv, NothingDisplaced, OwnInv, PendingOnce, Never
  <1>4. AcceptedInv' /\ AcceptedOnce' /\ ConfirmedInv'
    BY <1>0 DEF SendInv, AcceptedInv, AcceptedOnce, ConfirmedInv, Never
  <1>5. RunsAtItsPrice' /\ StartInv'
    BY <1>0 DEF SendInv, RunsAtItsPrice, StartInv, MinPriceIsSet, Never
  <1> QED
    BY <1>1, <1>2, <1>3, <1>4, <1>5 DEF SendInv

(* The next process knows nothing of the calls of the last one.             *)
LEMMA ProcessRestarts ==
    ASSUME SendInv, Restarts, failures' \in Nat, history' = history
    PROVE  SendInv'
  <1>0. /\ lock' = None /\ outcome' = "none" /\ running' = FALSE
        /\ pc' = [x \in Senders |-> "idle"]
        /\ nonce' = 0 /\ attempt' = 0 /\ price' = 0 /\ elapsed' = 0 /\ accepted' = 0
        /\ UNCHANGED <<gas_price_wei, pending, mined, count, confirmed, calls, rewards, appeared>>
    BY DEF Restarts, chainVars
  <1>1. TypeOK'
    BY <1>0, Zero DEF SendInv, TypeOK
  <1>2. LockInv'
    BY <1>0, SenderAssumption DEF LockInv
  <1>3. PoolInv' /\ NoncesHaveNoGap' /\ PassedInv'
    BY <1>0 DEF SendInv, PoolInv, NoncesHaveNoGap, PassedInv, Never
  <1>4. PriceInv' /\ NothingDisplaced' /\ OwnInv' /\ PendingOnce'
    BY <1>0 DEF SendInv, PriceInv, NothingDisplaced, OwnInv, PendingOnce, Never
  <1>5. AcceptedInv' /\ AcceptedOnce'
    BY <1>0 DEF AcceptedInv, AcceptedOnce
  <1>6. ConfirmedInv' /\ RunsAtItsPrice' /\ StartInv'
    BY <1>0 DEF SendInv, ConfirmedInv, RunsAtItsPrice, StartInv
  <1> QED
    BY <1>1, <1>2, <1>3, <1>4, <1>5, <1>6 DEF SendInv

(* A ValueError: the call goes on with nonce n, or ends.                    *)
LEMMA CallRetries ==
    ASSUME SendInv, NEW s \in Senders, NEW n \in Nat,
           lock = s, Retries(s, n, accepted),
           UNCHANGED <<gas_price_wei, chainVars, nodeVars>>,
           failures' \in Nat,
           history \subseteq history',
           history' \subseteq {"failed", "displaced", "repriced", "uncled", "dropped"},
           "displaced" \in history' => "displaced" \in history,
           confirmed' = confirmed,
           "failed" \in history' \/ accepted = 0,
           "dropped" \in history \/ \A m \in count .. n - 1 : \E u \in pending : u.nonce = m,
           \/ "repriced" \in history \/ "uncled" \in history
           \/ \A t \in pending : t.from = s => t.nonce >= n
    PROVE  SendInv'
  <1>1. CASE Ends(s, "error")
    BY <1>1, CallEnds DEF Outcomes
  <1>2. CASE ~Ends(s, "error")
    <2>0. /\ attempt < Attempts - 1 /\ attempt' = attempt + 1
          /\ nonce' = n /\ elapsed' = 0
          /\ pc' = [pc EXCEPT ![s] = "send"]
          /\ UNCHANGED <<lock, outcome, price, accepted, gas_price_wei, pending, mined, count,
                         running, calls, rewards, appeared>>
      BY <1>2 DEF Retries, GoesTo, chainVars, nodeVars
    <2>t. TypeOK /\ LockInv
      BY DEF SendInv
    <2>s. s # None /\ pc[s] \in {"send", "receipt", "confirm"}
      BY <2>t, SenderAssumption DEF LockInv, TypeOK
    <2>p. \A x \in Senders : pc'[x] = IF x = s THEN "send" ELSE pc[x]
      BY <2>0, <2>t DEF TypeOK
    <2>1. TypeOK'
      <3>1. attempt' \in 0 .. Attempts - 1
        BY <2>0, <2>t, SenderAssumption DEF TypeOK
      <3>2. pc' \in [Senders -> {"idle", "acquire", "send", "receipt", "confirm"}]
        BY <2>0, <2>t DEF TypeOK
      <3> QED
        BY <2>0, <2>t, <3>1, <3>2, Zero DEF TypeOK
    <2>2. LockInv'
      <3>1. ASSUME NEW x \in Senders
            PROVE  (pc[x] \notin {"idle", "acquire"} <=> lock = x)'
        BY <2>0, <2>t, <2>p, <2>s DEF LockInv
      <3>2. ASSUME ~running', NEW x \in Senders \ {"main"}
            PROVE  pc'[x] = "idle"
        BY <2>0, <2>s, <3>2, <2>t, <2>p DEF LockInv
      <3> QED
        BY <3>1, <3>2 DEF LockInv
    <2>3. PoolInv' /\ NoncesHaveNoGap' /\ PassedInv'
      BY <2>0 DEF SendInv, PoolInv, NoncesHaveNoGap, PassedInv, Never
    <2>4. PriceInv' /\ NothingDisplaced' /\ PendingOnce'
      BY <2>0 DEF SendInv, PriceInv, NothingDisplaced, PendingOnce, Never
    <2>5. OwnInv'
      BY <2>0 DEF OwnInv, Never
    <2>6. AcceptedInv' /\ AcceptedOnce'
      <3>1. accepted <= attempt + 1
        BY <2>t, <2>s DEF SendInv, AcceptedInv, TypeOK
      <3>2. \A x \in Senders : x # s => pc'[x] \notin {"send", "receipt", "confirm"}
        BY <2>0, <2>t, <2>p DEF LockInv
      <3>3. AcceptedInv'
        BY <2>0, <2>s, <2>p, <3>1, <3>2 DEF AcceptedInv, Never
      <3>4. AcceptedOnce'
        BY <2>0, <2>t DEF SendInv, AcceptedOnce, Never, TypeOK
      <3> QED
        BY <3>3, <3>4
    <2>7. ConfirmedInv' /\ RunsAtItsPrice' /\ StartInv'
      BY <2>0 DEF SendInv, ConfirmedInv, RunsAtItsPrice, StartInv, MinPriceIsSet, Never
    <2> QED
      BY <2>1, <2>2, <2>3, <2>4, <2>5, <2>6, <2>7 DEF SendInv
  <1> QED
    BY <1>1, <1>2

(* What is known in the middle of a call.                                   *)
LEMMA InCall ==
    ASSUME SendInv, NEW s \in Senders, pc[s] \notin {"idle", "acquire"}
    PROVE  /\ lock = s /\ s # None
           /\ nonce \in Nat /\ count \in Nat
           /\ accepted \in Nat /\ attempt \in Nat
           /\ "dropped" \in history \/ \A m \in count .. nonce - 1 : \E u \in pending : u.nonce = m
           /\ \/ "repriced" \in history \/ "uncled" \in history
              \/ \A t \in pending : t.from = s => t.nonce >= nonce
           /\ history \subseteq {"failed", "displaced", "repriced", "uncled", "dropped"}
           /\ failures \in Nat
  <1>1. lock = s /\ s # None
    BY SenderAssumption DEF SendInv, LockInv
  <1>2. /\ nonce \in Nat /\ count \in Nat /\ accepted \in Nat /\ attempt \in Nat
        /\ history \subseteq {"failed", "displaced", "repriced", "uncled", "dropped"}
        /\ failures \in Nat
    BY SenderAssumption DEF SendInv, TypeOK
  <1>3. "dropped" \in history \/ \A m \in count .. nonce - 1 : \E u \in pending : u.nonce = m
    BY <1>1 DEF SendInv, PassedInv, Never
  <1>4. \/ "repriced" \in history \/ "uncled" \in history
        \/ \A t \in pending : t.from = s => t.nonce >= nonce
    BY <1>1 DEF SendInv, OwnInv, Never
  <1> QED
    BY <1>1, <1>2, <1>3, <1>4

LEMMA NextNonceStep ==
    ASSUME SendInv, NEW s \in Senders, TakesNextNonce(s), UNCHANGED nodeVars
    PROVE  SendInv'
  <1>0. /\ pc[s] = "send"
        /\ IsTooLow \/ (Underpriced /\ ~IsKnown(s))
        /\ Retries(s, nonce + 1, accepted)
        /\ UNCHANGED <<gas_price_wei, chainVars, confirmed, failures, history>>
    BY DEF TakesNextNonce, historyVars
  <1>1. /\ lock = s /\ nonce \in Nat /\ count \in Nat /\ failures \in Nat
        /\ history \subseteq {"failed", "displaced", "repriced", "uncled", "dropped"}
    BY <1>0, InCall
  <1>2. "failed" \in history \/ accepted = 0
    BY <1>0 DEF SendInv, AcceptedInv, Never
  <1>3. "dropped" \in history \/ \A m \in count .. (nonce + 1) - 1 : \E u \in pending : u.nonce = m
    <2>1. SUFFICES ASSUME "dropped" \notin history, NEW m \in count .. nonce
                   PROVE  \E u \in pending : u.nonce = m
      BY <1>1
    <2>2. CASE IsTooLow
      BY <2>2, <1>1 DEF IsTooLow
    <2>3. CASE Underpriced
      <3>1. CASE m = nonce
        BY <2>3, <3>1 DEF Underpriced, Rivals
      <3>2. CASE m # nonce
        BY <2>1, <3>2, <1>0, <1>1, InCall
      <3> QED
        BY <3>1, <3>2
    <2> QED
      BY <1>0, <2>2, <2>3
  <1>4. \/ "repriced" \in history \/ "uncled" \in history
        \/ \A t \in pending : t.from = s => t.nonce >= nonce + 1
    <2>1. SUFFICES ASSUME "repriced" \notin history, "uncled" \notin history,
                          NEW t \in pending, t.from = s
                   PROVE  t.nonce >= nonce + 1
      OBVIOUS
    <2>2. t \in Tx /\ t.nonce >= nonce /\ t.nonce >= count /\ t.price = price
      BY <2>1, <1>0, <1>1, InCall DEF SendInv, TypeOK, PoolInv, PriceInv, Never
    <2>3. CASE IsTooLow
      BY <2>2, <2>3, <1>1 DEF IsTooLow, Tx
    <2>4. CASE ~IsKnown(s)
      <3>1. t.nonce # nonce
        BY <2>1, <2>2, <2>4 DEF IsKnown, ThisTx, Tx
      <3> QED
        BY <3>1, <2>2, <1>1 DEF Tx
    <2> QED
      BY <1>0, <2>3, <2>4
  <1> QED
    BY <1>0, <1>1, <1>2, <1>3, <1>4, CallRetries

(* The transaction enters the pool.  With one price, and nothing dropped or *)
(* uncled, it takes the place of none, and no other call of s is pending.   *)
LEMMA PoolGrows ==
    ASSUME SendInv, NEW s \in Senders, pc[s] = "send", EntersPool(s),
           UNCHANGED <<gas_price_wei, mined, count>>,
           history \subseteq history',
           lock' \in {s, None}, nonce' = nonce \/ lock' = None, price' = price \/ lock' = None
    PROVE  /\ pending' \subseteq Tx
           /\ PoolInv' /\ NoncesHaveNoGap' /\ PassedInv'
           /\ PriceInv' /\ OwnInv' /\ PendingOnce'
           /\ "repriced" \notin history => Rivals = {}
  <1> DEFINE tx == ThisTx(s)
  <1>0. /\ lock = s /\ s # None /\ nonce \in Nat /\ count \in Nat
        /\ nonce >= count /\ price \in Nat
        /\ pending' = (pending \ Rivals) \cup {tx}
        /\ tx \in Tx /\ tx.nonce = nonce /\ tx.from = s /\ tx.price = price
    BY InCall DEF EntersPool, IsTooLow, ThisTx, Tx, SendInv, TypeOK
  <1> HIDE DEF tx
  <1>1. pending \subseteq Tx /\ pending' \subseteq Tx
    BY <1>0 DEF SendInv, TypeOK
  <1>2. PoolInv'
    <2>1. PoolInv
      BY DEF SendInv
    <2>2. \A t \in pending' : t = tx \/ (t \in pending /\ t.nonce # nonce)
      BY <1>0 DEF Rivals
    <2> QED
      BY <1>0, <2>1, <2>2 DEF PoolInv
  <1>3. \A u \in pending : \E v \in pending' : v.nonce = u.nonce
    BY <1>0 DEF Rivals
  <1>4. NoncesHaveNoGap'
    <2> SUFFICES ASSUME "dropped" \notin history', NEW t \in pending', NEW m \in count .. t.nonce
                 PROVE  \E u \in pending' : u.nonce = m
      BY DEF NoncesHaveNoGap, Never
    <2>1. CASE t \in pending
      BY <2>1, <1>3 DEF SendInv, NoncesHaveNoGap, Never
    <2>2. CASE t = tx
      <3>1. CASE m = nonce
        BY <3>1, <1>0
      <3>2. CASE m # nonce
        <4>1. m \in count .. nonce - 1
          BY <2>2, <3>2, <1>0
        <4> QED
          BY <4>1, <1>3, InCall
      <3> QED
        BY <3>1, <3>2
    <2> QED
      BY <1>0, <2>1, <2>2
  <1>5. PassedInv'
    <2> SUFFICES ASSUME "dropped" \notin history', lock' # None, NEW m \in count .. nonce - 1
                 PROVE  \E u \in pending' : u.nonce = m
      BY <1>0 DEF PassedInv, Never
    <2> QED
      BY <1>3, InCall
  <1>6. PriceInv'
    BY <1>0 DEF SendInv, PriceInv, Never
  <1>7. "repriced" \notin history => Rivals = {}
    BY <1>0, <1>1 DEF SendInv, PriceInv, Never, EntersPool, Underpriced, Rivals, Tx
  <1>8. OwnInv'
    <2> SUFFICES ASSUME lock' # None, "repriced" \notin history', "uncled" \notin history',
                        NEW t \in pending', t.from = s
                 PROVE  t.nonce >= nonce
      BY <1>0 DEF OwnInv, Never
    <2>1. CASE t = tx
      BY <2>1, <1>0
    <2>2. CASE t \in pending
      BY <2>2, InCall
    <2> QED
      BY <1>0, <2>1, <2>2
  <1>9. PendingOnce'
    <2> SUFFICES ASSUME "repriced" \notin history', "uncled" \notin history',
                        "dropped" \notin history',
                        NEW t \in pending', NEW u \in pending', t.from = u.from
                 PROVE  t = u
      BY DEF PendingOnce, Never
    <2>1. ASSUME NEW v \in pending PROVE v.from # s
      <3> SUFFICES ASSUME v.from = s PROVE FALSE
        OBVIOUS
      <3>1. v.nonce >= nonce /\ v.nonce \in Nat
        BY InCall, <1>1 DEF Tx
      <3>2. \E w \in pending : w.nonce = nonce
        BY <3>1, <1>0 DEF SendInv, NoncesHaveNoGap, Never
      <3> QED
        BY <3>2, <1>7 DEF Rivals
    <2>2. CASE t \in pending /\ u \in pending
      BY <2>2 DEF SendInv, PendingOnce, Never
    <2> QED
      BY <1>0, <2>1, <2>2
  <1> QED
    BY <1>1, <1>2, <1>4, <1>5, <1>6, <1>7, <1>8, <1>9

LEMMA SendStep ==
    ASSUME SendInv, NEW s \in Senders, Sends(s), UNCHANGED nodeVars
    PROVE  SendInv'
  <1>0. /\ pc[s] = "send" /\ EntersPool(s)
        /\ history' = IF Rivals = {} THEN history ELSE history \cup {"displaced"}
        /\ UNCHANGED <<gas_price_wei, mined, count, confirmed, failures,
                       running, calls, rewards, appeared>>
    BY DEF Sends, Displacement, nodeVars
  <1>1. /\ lock = s /\ s # None /\ accepted \in Nat /\ attempt \in Nat
        /\ history \subseteq history'
        /\ history' \subseteq {"failed", "displaced", "repriced", "uncled", "dropped"}
    BY <1>0, InCall
  <1>t. TypeOK /\ LockInv
    BY DEF SendInv
  <1>2. CASE s \in Waiting /\ pc' = [pc EXCEPT ![s] = "receipt"] /\ accepted' = accepted + 1
             /\ UNCHANGED <<lock, outcome, nonce, attempt, price, elapsed>>
    <2>p. \A x \in Senders : pc'[x] = IF x = s THEN "receipt" ELSE pc[x]
      BY <1>2, <1>t DEF TypeOK
    <2>1. /\ pending' \subseteq Tx /\ PoolInv' /\ NoncesHaveNoGap' /\ PassedInv'
          /\ PriceInv' /\ OwnInv' /\ PendingOnce'
          /\ "repriced" \notin history => Rivals = {}
      BY <1>0, <1>1, <1>2, PoolGrows
    <2>2. accepted <= attempt /\ ("failed" \notin history => accepted = 0)
      BY <1>0 DEF SendInv, AcceptedInv, Never
    <2>3. TypeOK'
      <3>1. accepted' \in 0 .. Attempts
        BY <2>2, <1>2, <1>t, SenderAssumption DEF TypeOK
      <3>2. pc' \in [Senders -> {"idle", "acquire", "send", "receipt", "confirm"}]
        BY <1>2, <1>t DEF TypeOK
      <3> QED
        BY <1>0, <1>1, <1>2, <2>1, <1>t, <3>1, <3>2 DEF TypeOK
    <2>4. LockInv'
      <3>1. ASSUME NEW x \in Senders
            PROVE  (pc[x] \notin {"idle", "acquire"} <=> lock = x)'
        BY <1>0, <1>1, <1>2, <1>t, <2>p DEF LockInv
      <3>2. ASSUME ~running', NEW x \in Senders \ {"main"}
            PROVE  pc'[x] = "idle"
        BY <1>0, <1>1, <3>2, <1>t, <2>p DEF LockInv
      <3> QED
        BY <3>1, <3>2 DEF LockInv
    <2>5. NothingDisplaced'
      BY <1>0, <2>1 DEF SendInv, NothingDisplaced, Never
    <2>6. AcceptedInv' /\ AcceptedOnce'
      <3>1. \A x \in Senders : x # s => pc'[x] \notin {"send", "receipt", "confirm"}
        BY <1>1, <1>t, <2>p DEF LockInv
      <3>2. AcceptedInv'
        BY <1>1, <1>2, <2>2, <2>p, <3>1 DEF AcceptedInv
      <3>3. AcceptedOnce'
        BY <1>1, <1>2, <2>2 DEF AcceptedOnce, Never
      <3> QED
        BY <3>2, <3>3
    <2>7. ConfirmedInv' /\ RunsAtItsPrice' /\ StartInv'
      BY <1>0, <1>1, <1>2 DEF SendInv, ConfirmedInv, RunsAtItsPrice, StartInv, MinPriceIsSet, Never
    <2> QED
      BY <2>1, <2>3, <2>4, <2>5, <2>6, <2>7 DEF SendInv
  <1>3. CASE s \notin Waiting /\ Ends(s, "sent")
    <2>1. /\ pending' \subseteq Tx /\ PoolInv' /\ NoncesHaveNoGap' /\ PriceInv' /\ PendingOnce'
          /\ "repriced" \notin history => Rivals = {}
      BY <1>0, <1>1, <1>3, PoolGrows DEF Ends
    <2>2. NothingDisplaced'
      BY <1>0, <2>1 DEF SendInv, NothingDisplaced, Never
    <2>3. ConfirmedInv' /\ confirmed' \subseteq Tx /\ failures' \in Nat
      BY <1>0 DEF SendInv, TypeOK, ConfirmedInv
    <2>4. s # "main"
      BY <1>3, CallersAssumption
    <2> QED
      BY <1>0, <1>1, <1>3, <2>1, <2>2, <2>3, <2>4, CallLeaves DEF Outcomes
  <1> QED
    BY <1>2, <1>3 DEF Sends, GoesTo

(* The lock, the price and the first nonce: nothing has been passed by.     *)
LEMMA BeginStep ==
    ASSUME SendInv, NEW s \in Senders, Begins(s), UNCHANGED nodeVars
    PROVE  SendInv'
  <1>0. /\ pc[s] = "acquire" /\ lock = None /\ lock' = s
        /\ pc' = [pc EXCEPT ![s] = "send"]
        /\ price' = gas_price_wei /\ nonce' = count /\ outcome' = "none"
        /\ UNCHANGED <<attempt, elapsed, accepted, gas_price_wei, pending, mined, count,
                       failures, history, confirmed, running, calls, rewards, appeared>>
    BY DEF Begins, GoesTo, chainVars, historyVars, nodeVars
  <1>t. TypeOK /\ LockInv
    BY DEF SendInv
  <1>p. \A x \in Senders : pc'[x] = IF x = s THEN "send" ELSE pc[x]
    BY <1>0, <1>t DEF TypeOK
  <1>a. accepted = 0 /\ accepted' = 0 /\ attempt \in Nat
    BY <1>0, SenderAssumption DEF SendInv, AcceptedInv, TypeOK
  <1>1. TypeOK'
    <2>1. gas_price_wei \in Nat /\ pc' \in [Senders -> {"idle", "acquire", "send", "receipt", "confirm"}]
      BY <1>0, <1>t, SenderAssumption DEF TypeOK
    <2> QED
      BY <1>0, <1>t, <2>1 DEF TypeOK
  <1>2. LockInv'
    <2>1. ASSUME NEW x \in Senders
          PROVE  (pc[x] \notin {"idle", "acquire"} <=> lock = x)'
      BY <1>0, <1>t, <1>p, SenderAssumption DEF LockInv
    <2>2. ASSUME ~running', NEW x \in Senders \ {"main"}
          PROVE  pc'[x] = "idle"
      BY <1>0, <2>2, <1>t, <1>p DEF LockInv
    <2> QED
      BY <2>1, <2>2 DEF LockInv
  <1>3. PoolInv' /\ NoncesHaveNoGap'
    BY <1>0 DEF SendInv, PoolInv, NoncesHaveNoGap, Never
  <1>4. PassedInv' /\ OwnInv'
    <2>1. count \in Nat /\ count .. count - 1 = {}
      BY <1>t DEF TypeOK
    <2> QED
      BY <1>0, <2>1 DEF SendInv, PoolInv, PassedInv, OwnInv
  <1>5. PriceInv' /\ NothingDisplaced' /\ PendingOnce'
    BY <1>0 DEF SendInv, PriceInv, NothingDisplaced, PendingOnce, Never
  <1>6. AcceptedInv' /\ AcceptedOnce'
    <2>1. \A x \in Senders : x # s => pc'[x] \notin {"send", "receipt", "confirm"}
      BY <1>0, <1>t, <1>p, SenderAssumption DEF LockInv
    <2> QED
      BY <1>0, <1>a, <1>p, <2>1, SenderAssumption DEF AcceptedInv, AcceptedOnce
  <1>7. ConfirmedInv' /\ RunsAtItsPrice' /\ StartInv'
    BY <1>0 DEF SendInv, ConfirmedInv, RunsAtItsPrice, StartInv, MinPriceIsSet, Never
  <1> QED
    BY <1>1, <1>2, <1>3, <1>4, <1>5, <1>6, <1>7 DEF SendInv

(* Known transactions, timeouts and unconfirmed ones end the call.          *)
LEMMA GiveUpStep ==
    ASSUME SendInv, NEW s \in Senders, UNCHANGED nodeVars,
           IsDuplicate(s) \/ TimesOut(s) \/ GivesUp(s)
    PROVE  SendInv'
  <1>1. PICK how \in Outcomes \ {"sent"} : Ends(s, how)
    BY DEF IsDuplicate, TimesOut, GivesUp, Outcomes
  <1>2. /\ pc[s] \notin {"idle", "acquire"}
        /\ UNCHANGED <<gas_price_wei, chainVars, failures, history, confirmed>>
    BY DEF IsDuplicate, TimesOut, GivesUp, historyVars
  <1> QED
    BY <1>1, <1>2, InCall, CallEnds

LEMMA ReceiptStep ==
    ASSUME SendInv, NEW s \in Senders, FindsReceipt(s), UNCHANGED nodeVars
    PROVE  SendInv'
  <1>0. /\ pc[s] = "receipt" /\ InChain(s) # {}
        /\ UNCHANGED <<gas_price_wei, chainVars, failures, history, confirmed>>
    BY DEF FindsReceipt, historyVars
  <1>1. CASE Ends(s, "sent")
    BY <1>0, <1>1, InCall, CallEnds DEF Outcomes
  <1>2. CASE pc' = [pc EXCEPT ![s] = "confirm"] /\ UNCHANGED <<lock, outcome, callVars>>
    <2>0. UNCHANGED <<lock, outcome, nonce, attempt, price, elapsed, accepted, gas_price_wei,
                      pending, mined, count, failures, history, confirmed,
                      running, calls, rewards, appeared>>
      BY <1>0, <1>2 DEF callVars, chainVars, nodeVars
    <2>t. TypeOK /\ LockInv
      BY DEF SendInv
    <2>p. \A x \in Senders : pc'[x] = IF x = s THEN "confirm" ELSE pc[x]
      BY <1>2, <2>t DEF TypeOK
    <2>1. TypeOK'
      BY <2>0, <1>2, <2>t DEF TypeOK
    <2>2. LockInv'
      <3>1. ASSUME NEW x \in Senders
            PROVE  (pc[x] \notin {"idle", "acquire"} <=> lock = x)'
        BY <1>0, <2>0, <2>t, <2>p DEF LockInv
      <3>2. ASSUME ~running', NEW x \in Senders \ {"main"}
            PROVE  pc'[x] = "idle"
        BY <1>0, <2>0, <3>2, <2>t, <2>p DEF LockInv
      <3> QED
        BY <3>1, <3>2 DEF LockInv
    <2>3. PoolInv' /\ NoncesHaveNoGap' /\ PassedInv'
      BY <2>0 DEF SendInv, PoolInv, NoncesHaveNoGap, PassedInv, Never
    <2>4. PriceInv' /\ NothingDisplaced' /\ OwnInv' /\ PendingOnce'
      BY <2>0 DEF SendInv, PriceInv, NothingDisplaced, OwnInv, PendingOnce, Never
    <2>5. AcceptedInv' /\ AcceptedOnce'
      BY <1>0, <2>0, <2>p DEF SendInv, AcceptedInv, AcceptedOnce, Never
    <2>6. ConfirmedInv' /\ RunsAtItsPrice' /\ StartInv'
      BY <2>0 DEF SendInv, ConfirmedInv, RunsAtItsPrice, StartInv, MinPriceIsSet, Never
    <2> QED
      BY <2>1, <2>2, <2>3, <2>4, <2>5, <2>6 DEF SendInv
  <1> QED
    BY <1>1, <1>2 DEF FindsReceipt, GoesTo

(* What is confirmed is in the chain, with its N blocks.                    *)
LEMMA ConfirmStep ==
    ASSUME SendInv, NEW s \in Senders, Confirms(s), UNCHANGED nodeVars
    PROVE  SendInv'
  <1>0. /\ pc[s] = "confirm" /\ Ends(s, "sent")
        /\ confirmed' = confirmed \cup {ThisTx(s)}
        /\ pending' = pending
        /\ UNCHANGED <<gas_price_wei, mined, count, failures, history>>
    BY DEF Confirms, historyVars, chainVars
  <1>1. PICK m \in mined : m.nonce = nonce /\ m.from = s /\ m.price = price /\ m.age >= N
    BY DEF Confirms, InChain, IsDeep
  <1>2. InChain(s) # {}
    BY <1>1 DEF InChain
  <1>3. confirmed' \subseteq Tx /\ pending' \subseteq Tx
    BY <1>0 DEF SendInv, TypeOK, ThisTx, Tx
  <1>4. ConfirmedInv'
    BY <1>0, <1>1 DEF SendInv, ConfirmedInv, ThisTx
  <1>5. PoolInv' /\ NoncesHaveNoGap' /\ PendingOnce'
    BY <1>0 DEF SendInv, PoolInv, NoncesHaveNoGap, PendingOnce, Never
  <1>6. NothingDisplaced'
    BY <1>0 DEF SendInv, NothingDisplaced, Never
  <1>7. PriceInv'
    BY <1>0, SenderAssumption DEF SendInv, PriceInv, Never, Ends
  <1> QED
    BY <1>0, <1>2, <1>3, <1>4, <1>5, <1>6, <1>7, InCall, CallLeaves DEF Outcomes

LEMMA FailStep ==
    ASSUME SendInv, NEW s \in Senders, UnknownError(s) \/ WaitFails(s), UNCHANGED nodeVars
    PROVE  SendInv'
  <1>0. /\ pc[s] \in {"send", "receipt", "confirm"}
        /\ Retries(s, nonce, accepted)
        /\ failures' = failures + 1
        /\ history \subseteq history' /\ history' \subseteq history \cup {"failed"}
        /\ pc[s] # "send" => "failed" \in history'
        /\ UNCHANGED <<gas_price_wei, chainVars, confirmed>>
    BY DEF UnknownError, WaitFails, Fails
  <1>1. "failed" \in history' \/ accepted = 0
    BY <1>0 DEF SendInv, AcceptedInv, Never
  <1> QED
    BY <1>0, <1>1, InCall, CallRetries

(* The transaction is in the pool, and the call does not know it: it goes   *)
(* on with the same nonce, or ends.                                         *)
LEMMA LostAnswerStep ==
    ASSUME SendInv, NEW s \in Senders, AnswerIsLost(s), UNCHANGED nodeVars
    PROVE  SendInv'
  <1>0. /\ pc[s] = "send" /\ EntersPool(s)
        /\ failures' = failures + 1
        /\ history' = history \cup ({"failed"} \cup Displacement)
        /\ Retries(s, nonce, accepted + 1)
        /\ UNCHANGED <<gas_price_wei, mined, count, confirmed, running, calls, rewards, appeared>>
    BY DEF AnswerIsLost, Fails, nodeVars
  <1>1. /\ lock = s /\ s # None /\ nonce \in Nat /\ accepted \in Nat /\ attempt \in Nat
        /\ failures' \in Nat
        /\ history \subseteq history' /\ "failed" \in history'
        /\ history' \subseteq {"failed", "displaced", "repriced", "uncled", "dropped"}
    BY <1>0, InCall DEF Displacement
  <1>t. TypeOK /\ LockInv
    BY DEF SendInv
  <1>p. /\ pending' \subseteq Tx
        /\ PoolInv' /\ NoncesHaveNoGap' /\ PassedInv'
        /\ PriceInv' /\ OwnInv' /\ PendingOnce'
        /\ "repriced" \notin history => Rivals = {}
    <2>1. /\ lock' \in {s, None}
          /\ nonce' = nonce \/ lock' = None
          /\ price' = price \/ lock' = None
      BY <1>0, <1>1 DEF Retries, Ends
    <2> QED
      BY <1>0, <1>1, <2>1, PoolGrows
  <1>d. NothingDisplaced'
    BY <1>0, <1>p DEF SendInv, NothingDisplaced, Displacement, Never
  <1>c. ConfirmedInv' /\ confirmed' \subseteq Tx
    BY <1>0 DEF SendInv, ConfirmedInv, TypeOK
  <1>2. CASE Ends(s, "error")
    BY <1>0, <1>1, <1>2, <1>p, <1>d, <1>c, CallLeaves DEF Outcomes, nodeVars
  <1>3. CASE ~Ends(s, "error")
    <2>0. /\ attempt < Attempts - 1 /\ attempt' = attempt + 1
          /\ accepted' = accepted + 1 /\ nonce' = nonce /\ elapsed' = 0
          /\ pc' = [pc EXCEPT ![s] = "send"]
          /\ UNCHANGED <<lock, outcome, price>>
      BY <1>0, <1>3 DEF Retries, GoesTo
    <2>p. \A x \in Senders : pc'[x] = IF x = s THEN "send" ELSE pc[x]
      BY <2>0, <1>t DEF TypeOK
    <2>a. accepted <= attempt
      BY <1>0 DEF SendInv, AcceptedInv
    <2>1. TypeOK'
      <3>1. attempt' \in 0 .. Attempts - 1 /\ accepted' \in 0 .. Attempts
        BY <1>1, <2>0, <2>a, SenderAssumption
      <3>2. pc' \in [Senders -> {"idle", "acquire", "send", "receipt", "confirm"}]
        BY <2>0, <1>t DEF TypeOK
      <3> QED
        BY <1>0, <1>1, <1>p, <1>t, <2>0, <3>1, <3>2, Zero DEF TypeOK
    <2>2. LockInv'
      <3>1. ASSUME NEW x \in Senders
            PROVE  (pc[x] \notin {"idle", "acquire"} <=> lock = x)'
        BY <1>0, <1>1, <1>t, <2>0, <2>p DEF LockInv
      <3>2. ASSUME ~running', NEW x \in Senders \ {"main"}
            PROVE  pc'[x] = "idle"
        BY <1>0, <1>1, <3>2, <1>t, <2>p DEF LockInv
      <3> QED
        BY <3>1, <3>2 DEF LockInv
    <2>3. AcceptedInv' /\ AcceptedOnce'
      <3>1. \A x \in Senders : x # s => pc'[x] \notin {"send", "receipt", "confirm"}
        BY <1>1, <1>t, <2>p DEF LockInv
      <3>2. accepted' <= attempt'
        BY <1>1, <2>0, <2>a
      <3>3. AcceptedInv'
        BY <1>1, <2>0, <2>p, <3>1, <3>2 DEF AcceptedInv, Never
      <3>4. AcceptedOnce'
        BY <1>1 DEF AcceptedOnce, Never
      <3> QED
        BY <3>3, <3>4
    <2>4. RunsAtItsPrice' /\ StartInv'
      BY <1>0, <1>1, <2>0 DEF SendInv, RunsAtItsPrice, StartInv, MinPriceIsSet, Never
    <2> QED
      BY <1>p, <1>d, <1>c, <2>1, <2>2, <2>3, <2>4 DEF SendInv
  <1> QED
    BY <1>2, <1>3

(* The transaction may be in the pool, or not; at one price, it took the    *)
(* place of none.                                                           *)
LEMMA RaiseStep ==
    ASSUME SendInv, NEW s \in Senders, Raises(s), UNCHANGED nodeVars
    PROVE  SendInv'
  <1>0. /\ lock = s /\ Ends(s, "error")
        /\ failures' = failures + 1
        /\ UNCHANGED <<gas_price_wei, mined, count, confirmed>>
    BY DEF Raises, Fails
  <1>1. pc[s] \notin {"idle", "acquire"}
    BY <1>0 DEF SendInv, LockInv
  <1>2. CASE pending' = pending /\ history' = history
    BY <1>0, <1>1, <1>2, InCall, CallEnds DEF chainVars, Outcomes
  <1>3. CASE pc[s] = "send" /\ EntersPool(s) /\ history' = history \cup Displacement
    <2>0. history \subseteq history' /\ history' \subseteq history \cup {"displaced"}
      BY <1>3 DEF Displacement
    <2>1. /\ pending' \subseteq Tx
          /\ PoolInv' /\ NoncesHaveNoGap' /\ PriceInv' /\ PendingOnce'
          /\ "repriced" \notin history => Rivals = {}
      BY <1>0, <1>3, <2>0, PoolGrows DEF Ends
    <2>2. NothingDisplaced'
      BY <1>3, <2>0, <2>1 DEF SendInv, NothingDisplaced, Displacement, Never
    <2>3. ConfirmedInv' /\ confirmed' \subseteq Tx
      BY <1>0 DEF SendInv, ConfirmedInv, TypeOK
    <2> QED
      BY <1>0, <1>1, <2>0, <2>1, <2>2, <2>3, InCall, CallLeaves DEF Outcomes
  <1> QED
    BY <1>2, <1>3 DEF Raises, Fails

-----------------------------------------------------------------------------
(* The price and the chain change under the calls.                          *)

LEMMA PriceStep ==
    ASSUME SendInv, NEW p \in GasPrices, ComputesGasPrice(p), UNCHANGED nodeVars
    PROVE  SendInv'
  <1>0. /\ gas_price_wei' = Capped(p)
        /\ failures' = failures + 1 /\ history' = history \cup {"repriced"}
        /\ UNCHANGED <<lock, pc, outcome, nonce, attempt, price, elapsed, accepted,
                       pending, mined, count, confirmed, running, calls, rewards, appeared>>
    BY DEF ComputesGasPrice, Fails, callVars, chainVars, nodeVars
  <1>1. TypeOK' /\ LockInv'
    BY <1>0, CappedType DEF SendInv, TypeOK, LockInv
  <1>2. PoolInv' /\ NoncesHaveNoGap' /\ PassedInv'
    BY <1>0 DEF SendInv, PoolInv, NoncesHaveNoGap, PassedInv, Never
  <1>3. PriceInv' /\ NothingDisplaced' /\ OwnInv' /\ PendingOnce'
    BY <1>0 DEF PriceInv, NothingDisplaced, OwnInv, PendingOnce, Never
  <1>4. AcceptedInv' /\ AcceptedOnce'
    BY <1>0 DEF SendInv, AcceptedInv, AcceptedOnce, Never
  <1>5. ConfirmedInv' /\ RunsAtItsPrice' /\ StartInv'
    BY <1>0 DEF SendInv, ConfirmedInv, RunsAtItsPrice, StartInv, MinPriceIsSet, Never
  <1> QED
    BY <1>1, <1>2, <1>3, <1>4, <1>5 DEF SendInv

LEMMA BlockStep ==
    ASSUME SendInv, NextBlock
    PROVE  SendInv'
  <1> DEFINE older(t) == [t EXCEPT !.age = Lesser(@ + 1, N)]
  <1>0. /\ mined' = {older(t) : t \in mined}
        /\ UNCHANGED <<lock, pc, outcome, nonce, attempt, price, accepted, gas_price_wei, pending,
                       count, failures, history, confirmed, running, calls, rewards, appeared>>
    BY DEF NextBlock, MinesBlock, historyVars, nodeVars
  <1>t. TypeOK
    BY DEF SendInv
  <1>o. ASSUME NEW t \in mined
        PROVE  /\ older(t) \in [nonce : Nat, from : Senders, price : Nat, age : 0 .. N]
               /\ older(t).nonce = t.nonce /\ older(t).from = t.from /\ older(t).price = t.price
               /\ t.age >= N => older(t).age >= N
    <2>1. t \in [nonce : Nat, from : Senders, price : Nat, age : 0 .. N] /\ N \in Nat
      BY <1>t, SenderAssumption DEF TypeOK
    <2>2. Lesser(t.age + 1, N) \in 0 .. N /\ (t.age >= N => Lesser(t.age + 1, N) >= N)
      BY <2>1 DEF Lesser
    <2>3. older(t) = [nonce |-> t.nonce, from |-> t.from, price |-> t.price,
                      age |-> Lesser(t.age + 1, N)]
      BY <2>1
    <2> QED
      BY <2>1, <2>2, <2>3
  <1> HIDE DEF older
  <1>1. TypeOK'
    <2>1. elapsed' \in 0 .. 3 * N + 1
      BY <1>t, SenderAssumption DEF TypeOK, NextBlock, MinesBlock, Lesser
    <2>2. mined' \subseteq [nonce : Nat, from : Senders, price : Nat, age : 0 .. N]
      BY <1>0, <1>o
    <2> QED
      BY <1>0, <1>t, <2>1, <2>2 DEF TypeOK
  <1>2. LockInv' /\ NoncesHaveNoGap' /\ PassedInv'
    BY <1>0 DEF SendInv, LockInv, NoncesHaveNoGap, PassedInv, Never
  <1>3. PoolInv'
    <2>1. \A t \in mined' : \E u \in mined : t = older(u) /\ t.nonce = u.nonce
      BY <1>0, <1>o
    <2>2. PoolInv
      BY DEF SendInv
    <2> QED
      BY <1>0, <2>1, <2>2 DEF PoolInv
  <1>4. PriceInv' /\ NothingDisplaced' /\ OwnInv' /\ PendingOnce'
    BY <1>0, <1>o DEF SendInv, PriceInv, NothingDisplaced, OwnInv, PendingOnce, Never
  <1>5. AcceptedInv' /\ AcceptedOnce'
    BY <1>0 DEF SendInv, AcceptedInv, AcceptedOnce, Never
  <1>6. ConfirmedInv'
    <2>1. ConfirmedInv
      BY DEF SendInv
    <2> QED
      BY <1>0, <1>o, <2>1 DEF ConfirmedInv
  <1>7. MinPriceIsSet => MinPriceIsSet'
    BY <1>0, <1>o DEF MinPriceIsSet
  <1>8. RunsAtItsPrice' /\ StartInv'
    BY <1>0, <1>7 DEF SendInv, RunsAtItsPrice, StartInv, Never
  <1> QED
    BY <1>1, <1>2, <1>3, <1>4, <1>5, <1>6, <1>8 DEF SendInv

LEMMA MineStep ==
    ASSUME SendInv, MinesNext
    PROVE  SendInv'
  <1>0. PICK t \in pending :
          /\ t.nonce = count
          /\ pending' = pending \ {t}
          /\ mined' = mined \cup {[nonce |-> t.nonce, from |-> t.from, price |-> t.price, age |-> 0]}
          /\ count' = count + 1
          /\ rewards' = (rewards /\ t.from # "claim")
          /\ UNCHANGED <<lock, pc, outcome, nonce, attempt, price, elapsed, accepted, gas_price_wei,
                         failures, history, confirmed, running, calls, appeared>>
    BY DEF MinesNext, MinesTx, callVars, historyVars
  <1> DEFINE mt == [nonce |-> t.nonce, from |-> t.from, price |-> t.price, age |-> 0]
  <1>t. /\ TypeOK /\ count \in Nat /\ nonce \in Nat /\ pending \subseteq Tx
        /\ \A u \in pending : u.nonce \in Nat /\ u.nonce >= count
        /\ \A u \in mined : u.nonce \in Nat /\ u.nonce < count
    BY DEF SendInv, TypeOK, Tx, PoolInv
  <1>m. /\ mined' = mined \cup {mt}
        /\ mt \in [nonce : Nat, from : Senders, price : Nat, age : 0 .. N]
        /\ mt.nonce = count /\ mt.from = t.from /\ mt.price = t.price
    BY <1>0, <1>t, Zero DEF Tx
  <1> HIDE DEF mt
  <1>1. TypeOK'
    <2>1. rewards' \in BOOLEAN /\ count' \in Nat /\ pending' \subseteq Tx
      BY <1>0, <1>t
    <2>2. mined' \subseteq [nonce : Nat, from : Senders, price : Nat, age : 0 .. N]
      BY <1>m, <1>t DEF TypeOK
    <2> QED
      BY <1>0, <1>t, <2>1, <2>2 DEF TypeOK
  <1>2. LockInv'
    BY <1>0 DEF SendInv, LockInv
  <1>3. PoolInv'
    <2>1. PoolInv
      BY DEF SendInv
    <2>2. \A u \in pending' : u \in pending /\ u.nonce # count
      BY <1>0, <2>1 DEF PoolInv
    <2>3. \A u \in pending' : u.nonce >= count + 1
      BY <2>2, <1>t
    <2>4. \A u \in mined' : u.nonce < count + 1
      BY <1>m, <1>t
    <2>5. \A u, v \in mined' : u.nonce = v.nonce => u = v
      BY <1>m, <1>t, <2>1 DEF PoolInv
    <2> QED
      BY <1>0, <2>1, <2>2, <2>3, <2>4, <2>5 DEF PoolInv
  <1>4. NoncesHaveNoGap'
    <2> SUFFICES ASSUME "dropped" \notin history, NEW u \in pending', NEW m \in count + 1 .. u.nonce
                 PROVE  \E v \in pending' : v.nonce = m
      BY <1>0 DEF NoncesHaveNoGap, Never
    <2>1. m \in count .. u.nonce /\ m # count
      BY <1>t, <1>0
    <2>2. PICK v \in pending : v.nonce = m
      BY <2>1, <1>0 DEF SendInv, NoncesHaveNoGap, Never
    <2> QED
      BY <2>1, <2>2, <1>0
  <1>5. PassedInv'
    <2> SUFFICES ASSUME "dropped" \notin history, lock # None, NEW m \in count + 1 .. nonce - 1
                 PROVE  \E v \in pending' : v.nonce = m
      BY <1>0 DEF PassedInv, Never
    <2>1. m \in count .. nonce - 1 /\ m # count
      BY <1>t
    <2>2. PICK v \in pending : v.nonce = m
      BY <2>1 DEF SendInv, PassedInv, Never
    <2> QED
      BY <2>1, <2>2, <1>0
  <1>6. PriceInv' /\ NothingDisplaced' /\ OwnInv' /\ PendingOnce'
    BY <1>0, <1>m DEF SendInv, PriceInv, NothingDisplaced, OwnInv, PendingOnce, Never
  <1>7. AcceptedInv' /\ AcceptedOnce' /\ ConfirmedInv'
    BY <1>0 DEF SendInv, AcceptedInv, AcceptedOnce, ConfirmedInv, Never
  <1>8. RunsAtItsPrice' /\ StartInv'
    BY <1>0 DEF SendInv, RunsAtItsPrice, StartInv, MinPriceIsSet, Never
  <1> QED
    BY <1>1, <1>2, <1>3, <1>4, <1>5, <1>6, <1>7, <1>8 DEF SendInv

LEMMA DropStep ==
    ASSUME SendInv, NEW t \in pending, Drops(t), UNCHANGED nodeVars
    PROVE  SendInv'
  <1>0. /\ pending' \subseteq pending
        /\ failures' = failures + 1 /\ history' = history \cup {"dropped"}
        /\ UNCHANGED <<lock, pc, outcome, nonce, attempt, price, elapsed, accepted, gas_price_wei,
                       mined, count, confirmed, running, calls, rewards, appeared>>
    BY DEF Drops, Fails, callVars, nodeVars
  <1>1. TypeOK' /\ LockInv' /\ PoolInv'
    BY <1>0 DEF SendInv, TypeOK, LockInv, PoolInv
  <1>2. NoncesHaveNoGap' /\ PassedInv' /\ PendingOnce' /\ RunsAtItsPrice' /\ StartInv'
    BY <1>0 DEF NoncesHaveNoGap, PassedInv, PendingOnce, RunsAtItsPrice, StartInv, Never
  <1>3. PriceInv' /\ NothingDisplaced' /\ OwnInv'
    BY <1>0 DEF SendInv, PriceInv, NothingDisplaced, OwnInv, Never
  <1>4. AcceptedInv' /\ AcceptedOnce' /\ ConfirmedInv'
    BY <1>0 DEF SendInv, AcceptedInv, AcceptedOnce, ConfirmedInv, Never
  <1> QED
    BY <1>1, <1>2, <1>3, <1>4 DEF SendInv

(* Only a transaction below its N blocks leaves the chain.                  *)
LEMMA UncleStep ==
    ASSUME SendInv, NEW t \in mined, Uncles(t),
           rewards' \in BOOLEAN, UNCHANGED <<running, calls, appeared>>
    PROVE  SendInv'
  <1> DEFINE pt == [nonce |-> t.nonce, from |-> t.from, price |-> t.price]
  <1>0. /\ t.nonce = count - 1 /\ t.age < N
        /\ mined' = mined \ {t} /\ count' = count - 1
        /\ failures' = failures + 1
        /\ history \subseteq history'
        /\ history' \subseteq history \cup {"uncled", "dropped"}
        /\ UNCHANGED <<lock, pc, outcome, nonce, attempt, price, elapsed, accepted, gas_price_wei,
                       confirmed, running, calls, appeared>>
    BY DEF Uncles, Fails, callVars
  <1>1. \/ pending' = pending \cup {pt} /\ "uncled" \in history'
        \/ pending' = pending /\ "dropped" \in history'
    BY DEF Uncles, Fails
  <1>t. /\ TypeOK /\ PoolInv /\ count \in Nat /\ nonce \in Nat /\ pending \subseteq Tx
        /\ t \in [nonce : Nat, from : Senders, price : Nat, age : 0 .. N] /\ N \in Nat
        /\ \A u \in pending : u.nonce \in Nat /\ u.nonce >= count
        /\ \A u \in mined : u.nonce \in Nat /\ u.nonce < count
    BY SenderAssumption DEF SendInv, TypeOK, Tx, PoolInv
  <1>p. pt \in Tx /\ pt.nonce = count - 1 /\ pt.from = t.from /\ pt.price = t.price
    BY <1>0, <1>t DEF Tx
  <1> HIDE DEF pt
  <1>2. TypeOK'
    <2>1. count' \in Nat /\ pending' \subseteq Tx
      BY <1>0, <1>1, <1>t, <1>p
    <2>2. history' \subseteq {"failed", "displaced", "repriced", "uncled", "dropped"}
      BY <1>0, <1>t DEF TypeOK
    <2> QED
      BY <1>0, <1>t, <2>1, <2>2 DEF TypeOK
  <1>3. LockInv'
    BY <1>0 DEF SendInv, LockInv
  <1>4. PoolInv'
    <2>1. \A u \in mined' : u \in mined /\ u.nonce # count - 1
      BY <1>0, <1>t DEF PoolInv
    <2>2. \A u \in mined' : u.nonce < count - 1
      BY <2>1, <1>t
    <2>3. \A u \in pending' : u.nonce >= count - 1
      BY <1>1, <1>p, <1>t
    <2>4. \A u, v \in pending' : u.nonce = v.nonce => u = v
      BY <1>1, <1>p, <1>t DEF PoolInv
    <2> QED
      BY <1>0, <1>t, <2>1, <2>2, <2>3, <2>4 DEF PoolInv
  <1>5. NoncesHaveNoGap'
    <2> SUFFICES ASSUME "dropped" \notin history', NEW u \in pending', NEW m \in count - 1 .. u.nonce
                 PROVE  \E v \in pending' : v.nonce = m
      BY <1>0 DEF NoncesHaveNoGap, Never
    <2>1. CASE m = count - 1
      BY <2>1, <1>1, <1>p
    <2>2. CASE m # count - 1
      <3>1. u \in pending /\ m \in count .. u.nonce
        BY <2>2, <1>1, <1>p, <1>t
      <3> QED
        BY <3>1, <1>0, <1>1 DEF SendInv, NoncesHaveNoGap, Never
    <2> QED
      BY <2>1, <2>2
  <1>6. PassedInv'
    <2> SUFFICES ASSUME "dropped" \notin history', lock # None, NEW m \in count - 1 .. nonce - 1
                 PROVE  \E v \in pending' : v.nonce = m
      BY <1>0 DEF PassedInv, Never
    <2>1. CASE m = count - 1
      BY <2>1, <1>1, <1>p
    <2>2. CASE m # count - 1
      <3>1. m \in count .. nonce - 1
        BY <2>2, <1>t
      <3> QED
        BY <3>1, <1>0, <1>1 DEF SendInv, PassedInv, Never
    <2> QED
      BY <2>1, <2>2
  <1>7. PriceInv' /\ NothingDisplaced'
    BY <1>0, <1>1, <1>p DEF SendInv, PriceInv, NothingDisplaced, Never
  <1>8. OwnInv' /\ PendingOnce'
    BY <1>0, <1>1 DEF SendInv, OwnInv, PendingOnce, Never
  <1>9. AcceptedInv' /\ AcceptedOnce'
    BY <1>0 DEF SendInv, AcceptedInv, AcceptedOnce, Never
  <1>10. ConfirmedInv'
    BY <1>0, <1>t DEF SendInv, ConfirmedInv
  <1>11. RunsAtItsPrice' /\ StartInv'
    BY <1>1 DEF RunsAtItsPrice, StartInv, Never
  <1> QED
    BY <1>2, <1>3, <1>4, <1>5, <1>6, <1>7, <1>8, <1>9, <1>10, <1>11 DEF SendInv

LEMMA SameSender ==
    ASSUME SendInv, UNCHANGED <<senderVars, running, calls>>,
           rewards' \in BOOLEAN, appeared' \in Nat
    PROVE  SendInv'
  <1>0. UNCHANGED <<lock, pc, outcome, nonce, attempt, price, elapsed, accepted, gas_price_wei,
                    pending, mined, count, failures, history, confirmed, running, calls>>
    BY DEF senderVars, callVars, chainVars, historyVars
  <1>1. TypeOK' /\ LockInv' /\ PoolInv'
    BY <1>0 DEF SendInv, TypeOK, LockInv, PoolInv
  <1>2. NoncesHaveNoGap' /\ PassedInv' /\ PriceInv' /\ NothingDisplaced' /\ OwnInv' /\ PendingOnce'
    BY <1>0 DEF SendInv, NoncesHaveNoGap, PassedInv, PriceInv, NothingDisplaced, OwnInv,
                PendingOnce, Never
  <1>3. AcceptedInv' /\ AcceptedOnce' /\ ConfirmedInv' /\ RunsAtItsPrice' /\ StartInv'
    BY <1>0 DEF SendInv, AcceptedInv, AcceptedOnce, ConfirmedInv, RunsAtItsPrice, StartInv,
                MinPriceIsSet, Never
  <1> QED
    BY <1>1, <1>2, <1>3 DEF SendInv

-----------------------------------------------------------------------------
LEMMA NextStep == SendInv /\ [Next]_vars => SendInv'
  <1> SUFFICES ASSUME SendInv, [Next]_vars PROVE SendInv'
    OBVIOUS
  <1>n. calls \in Nat /\ appeared \in Nat /\ rewards \in BOOLEAN /\ failures \in Nat
    BY DEF SendInv, TypeOK
  <1>1. CASE Main
    <2>1. CASE UpdatesMinPrice
      BY <2>1, <1>n, CallBegins, CallersAssumption, SenderAssumption DEF UpdatesMinPrice, nodeVars
    <2>2. CASE ExitsAtStart
      BY <2>2, <1>n, ProcessRestarts DEF ExitsAtStart, historyVars
    <2> QED
      BY <1>1, <2>1, <2>2, MainStarts DEF Main
  <1>2. CASE Crash
    BY <1>2, <1>n, ProcessRestarts DEF Crash, Fails
  <1>3. ASSUME NEW s \in Senders, SendsBidOrReport(s) PROVE SendInv'
    BY <1>3, <1>n, CallBegins DEF SendsBidOrReport
  <1>4. ASSUME NEW s \in Senders, Sending(s) PROVE SendInv'
    BY <1>4, BeginStep, SendStep, NextNonceStep, GiveUpStep, ReceiptStep, ConfirmStep, FailStep,
       LostAnswerStep, RaiseStep DEF Sending, Sender, Failure
  <1>5. CASE ClaimsRewards
    BY <1>5, <1>n, CallBegins, CallersAssumption, SenderAssumption DEF ClaimsRewards, nodeVars
  <1>6. CASE GasPrice
    BY <1>6, PriceStep DEF GasPrice
  <1>7. CASE Loses
    <2>1. ASSUME NEW t \in pending, Drops(t), UNCHANGED nodeVars PROVE SendInv'
      BY <2>1, DropStep
    <2>2. ASSUME NEW t \in mined, Uncles(t), rewards' = (rewards \/ t.from = "claim"),
                 UNCHANGED <<running, calls, appeared>>
          PROVE  SendInv'
      <3>1. rewards' \in BOOLEAN
        BY <2>2, <1>n
      <3> QED
        BY <2>2, <3>1, UncleStep
    <2> QED
      BY <1>7, <2>1, <2>2 DEF Loses
  <1>8. CASE RewardsAppear
    BY <1>8, <1>n, SameSender DEF RewardsAppear
  <1>9. CASE UNCHANGED vars
    BY <1>9, <1>n, SameSender DEF vars, nodeVars
  <1> QED
    BY <1>1, <1>2, <1>3, <1>4, <1>5, <1>6, <1>7, <1>8, <1>9, BlockStep, MineStep DEF Next

(* The inductive invariant.                                                 *)
THEOREM SendSafety == Spec => []SendInv
  <1>1. Init => SendInv
    BY InitHolds
  <1>2. SendInv /\ [Next]_vars => SendInv'
    BY NextStep
  <1> QED
    BY <1>1, <1>2, PTL DEF Spec

THEOREM SendTypes == Spec => []TypeOK
  <1>1. SendInv => TypeOK
    BY DEF SendInv
  <1> QED
    BY <1>1, SendSafety, PTL

(* Unless a pending transaction is dropped, all of them can be mined.       *)
THEOREM NoGaps == Spec => []NoncesHaveNoGap
  <1>1. SendInv => NoncesHaveNoGap
    BY DEF SendInv
  <1> QED
    BY <1>1, SendSafety, PTL

(* At one price, a thread has one transaction pending, however often it     *)
(* tries.                                                                   *)
THEOREM OnePending == Spec => []PendingOnce
  <1>1. SendInv => PendingOnce
    BY DEF SendInv
  <1> QED
    BY <1>1, SendSafety, PTL

(* And it takes the place of no other.                                      *)
THEOREM NoneDisplaced == Spec => []NothingDisplaced
  <1>1. SendInv => NothingDisplaced
    BY DEF SendInv
  <1> QED
    BY <1>1, SendSafety, PTL

(* Unless its wait for a receipt fails, a call adds one transaction.        *)
THEOREM OneAccepted == Spec => []AcceptedOnce
  <1>1. SendInv => AcceptedOnce
    BY DEF SendInv
  <1> QED
    BY <1>1, SendSafety, PTL

(* Confirmed transactions stay in the chain.                                *)
THEOREM Confirmed == Spec => []ConfirmedStays
  <1>1. SendInv => ConfirmedStays
    BY DEF SendInv, ConfirmedInv, ConfirmedStays
  <1> QED
    BY <1>1, SendSafety, PTL

(* The threads run once the price is in the contract.                       *)
THEOREM RunsPriced == Spec => []RunsAtItsPrice
  <1>1. SendInv => RunsAtItsPrice
    BY DEF SendInv
  <1> QED
    BY <1>1, SendSafety, PTL
=============================================================================
