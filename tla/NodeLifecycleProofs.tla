------------------------- MODULE NodeLifecycleProofs -------------------------
(***************************************************************************)
(* Proofs about NodeLifecycle, for any set of threads, any capacity of the *)
(* queue, and whatever may fail.                                           *)
(***************************************************************************)
EXTENDS NodeLifecycle, SequenceTheorems, TLAPS

(* What the steps of the queue make of the statements in it.                *)
LEMMA QueueSteps ==
    ASSUME NEW S, NEW q \in Seq(S)
    PROVE  /\ \A s \in S : /\ Append(q, s) \in Seq(S)
                           /\ Len(Append(q, s)) = Len(q) + 1
                           /\ \A i \in DOMAIN Append(q, s) :
                                Append(q, s)[i] = s
                                \/ (i \in DOMAIN q /\ Append(q, s)[i] = q[i])
           /\ q # <<>> => /\ Tail(q) \in Seq(S)
                          /\ Len(Tail(q)) = Len(q) - 1
                          /\ Head(q) \in S
  <1>1. ASSUME NEW s \in S
        PROVE  /\ Append(q, s) \in Seq(S)
               /\ Len(Append(q, s)) = Len(q) + 1
               /\ \A i \in DOMAIN Append(q, s) :
                    Append(q, s)[i] = s
                    \/ (i \in DOMAIN q /\ Append(q, s)[i] = q[i])
    <2>1. /\ Append(q, s) \in Seq(S)
          /\ Len(Append(q, s)) = Len(q) + 1
          /\ \A i \in 1..Len(q) : Append(q, s)[i] = q[i]
          /\ Append(q, s)[Len(q) + 1] = s
      BY <1>1, AppendProperties
    <2>2. /\ Len(q) \in Nat
          /\ DOMAIN q = 1..Len(q)
          /\ DOMAIN Append(q, s) = 1..Len(Append(q, s))
      BY <2>1, LenProperties
    <2> QED
      BY <2>1, <2>2
  <1>2. ASSUME q # <<>>
        PROVE  Tail(q) \in Seq(S) /\ Len(Tail(q)) = Len(q) - 1 /\ Head(q) \in S
    BY <1>2, HeadTailProperties
  <1> QED
    BY <1>1, <1>2

LEMMA InitHolds == Init => LifecycleInv
  <1> SUFFICES ASSUME Init PROVE LifecycleInv
    OBVIOUS
  <1>1. /\ sql_queue \in Seq(Statement \cup {ExitToken})
        /\ Len(sql_queue) <= QueueSize
    BY EmptySeq, WorkerAssumption DEF Init, WorkerInit
  <1>2. TypeOK
    BY <1>1 DEF Init, WorkerInit, TypeOK, WorkerTypeOK
  <1>3. WorkerInv
    BY DEF Init, WorkerInit, WorkerInv, AcceptedIsExecuted
  <1>4. StopInv
    BY DEF Init, WorkerInit, StopInv
  <1> QED
    BY <1>2, <1>3, <1>4 DEF LifecycleInv

(* The steps of the callers.                                                *)
LEMMA CallersStep ==
    ASSUME LifecycleInv, NEW t \in Callers,
           UsesDatabase(t) \/ GoesOn(t)
    PROVE  LifecycleInv'
  <1> USE DEF LifecycleInv
  <1>1. CASE UsesDatabase(t)
    BY <1>1 DEF UsesDatabase, Executes, mainVars, TypeOK, WorkerTypeOK, WorkerInv,
                AcceptedIsExecuted, StopInv
  <1>2. CASE PutTimesOut(t) /\ UNCHANGED <<thread, exec, mainVars>>
    BY <1>2 DEF PutTimesOut, mainVars, TypeOK, WorkerTypeOK, WorkerInv,
                AcceptedIsExecuted, StopInv
  <1>3. CASE Receives(t) /\ UNCHANGED <<thread, exec, mainVars>>
    BY <1>3 DEF Receives, mainVars, TypeOK, WorkerTypeOK, WorkerInv,
                AcceptedIsExecuted, StopInv
  <1>4. CASE Puts(t) /\ UNCHANGED <<thread, exec, mainVars>>
    <2> DEFINE s == [op |-> call[t], by |-> t, early |-> ~exit_set]
    <2>1. s \in Statement \cup {ExitToken}
      BY <1>4 DEF Puts, TypeOK, WorkerTypeOK, Statement
    <2>2. sql_queue' = Append(sql_queue, s)
      BY <1>4 DEF Puts
    <2> HIDE DEF s
    <2>3. /\ sql_queue' \in Seq(Statement \cup {ExitToken})
          /\ Len(sql_queue') = Len(sql_queue) + 1
          /\ \A i \in DOMAIN sql_queue' :
                \/ sql_queue'[i] = s
                \/ i \in DOMAIN sql_queue /\ sql_queue'[i] = sql_queue[i]
      BY <2>1, <2>2, QueueSteps DEF TypeOK, WorkerTypeOK
    <2>4. Len(sql_queue') <= QueueSize
      <3>1. Len(sql_queue) \in Nat
        BY LenProperties DEF TypeOK, WorkerTypeOK
      <3> QED
        BY <1>4, <2>3, <3>1, WorkerAssumption DEF Puts
    <2>5. TypeOK'
      BY <1>4, <2>3, <2>4 DEF Puts, mainVars, TypeOK, WorkerTypeOK
    <2>6. WorkerInv'
      <3>1. exit_set => ~s.early
        BY DEF s
      <3> QED
        BY <1>4, <2>3, <3>1 DEF Puts, WorkerInv, AcceptedIsExecuted
    <2>7. StopInv'
      BY <1>4 DEF Puts, mainVars, StopInv
    <2> QED
      BY <2>5, <2>6, <2>7
  <1> QED
    BY <1>1, <1>2, <1>3, <1>4 DEF GoesOn

(* The steps of the worker.                                                 *)
LEMMA WorkerStep ==
    ASSUME LifecycleInv, Worker
    PROVE  LifecycleInv'
  <1> USE DEF LifecycleInv
  <1>1. CASE Serves /\ UNCHANGED <<thread, exec, mainVars>>
    <2>1. /\ sql_queue' \in Seq(Statement \cup {ExitToken})
          /\ Len(sql_queue') <= QueueSize
          /\ Head(sql_queue) \in Statement \cup {ExitToken}
      <3>1. /\ sql_queue' \in Seq(Statement \cup {ExitToken})
            /\ Len(sql_queue') = Len(sql_queue) - 1
            /\ Head(sql_queue) \in Statement \cup {ExitToken}
        BY <1>1, QueueSteps DEF Serves, TypeOK, WorkerTypeOK
      <3>2. Len(sql_queue) \in Nat
        BY LenProperties DEF TypeOK, WorkerTypeOK
      <3> QED
        BY <3>1, <3>2, WorkerAssumption DEF TypeOK, WorkerTypeOK
    <2>2. results' \subseteq Callers
      BY <1>1, <2>1 DEF Serves, TypeOK, WorkerTypeOK, Statement, ExitToken
    <2> QED
      BY <1>1, <2>1, <2>2 DEF Serves, mainVars, TypeOK, WorkerTypeOK, WorkerInv,
                              AcceptedIsExecuted, StopInv
  <1>2. CASE WorkerDies /\ UNCHANGED <<thread, exec, mainVars>>
    <2>1. /\ sql_queue' \in Seq(Statement \cup {ExitToken})
          /\ Len(sql_queue') <= QueueSize
      <3>1. /\ sql_queue' \in Seq(Statement \cup {ExitToken})
            /\ Len(sql_queue') = Len(sql_queue) - 1
        BY <1>2, QueueSteps DEF WorkerDies, TypeOK, WorkerTypeOK
      <3>2. Len(sql_queue) \in Nat
        BY LenProperties DEF TypeOK, WorkerTypeOK
      <3> QED
        BY <3>1, <3>2, WorkerAssumption DEF TypeOK, WorkerTypeOK
    <2> QED
      BY <1>2, <2>1 DEF WorkerDies, mainVars, TypeOK, WorkerTypeOK, WorkerInv,
                        AcceptedIsExecuted, StopInv
  <1>3. CASE TestsExitSet /\ UNCHANGED <<thread, exec, mainVars>>
    BY <1>3 DEF TestsExitSet, mainVars, TypeOK, WorkerTypeOK, WorkerInv,
                AcceptedIsExecuted, StopInv
  <1>4. CASE TestsEmpty /\ UNCHANGED <<thread, exec, mainVars>>
    BY <1>4 DEF TestsEmpty, mainVars, TypeOK, WorkerTypeOK, WorkerInv,
                AcceptedIsExecuted, StopInv
  <1> QED
    BY <1>1, <1>2, <1>3, <1>4 DEF Worker, WorkerRuns

(* The steps of a thread.                                                   *)
LEMMA ThreadStep ==
    ASSUME LifecycleInv, NEW t \in Callers,
           Thread(t) \/ Returns(t) \/ Raises(t)
    PROVE  LifecycleInv'
  <1> USE DEF LifecycleInv, TypeOK, WorkerTypeOK, workerVars, mainVars, WorkerInv,
              AcceptedIsExecuted, StopInv
  <1>1. CASE Runs(t)        BY <1>1 DEF Runs
  <1>2. CASE CallsTarget(t) BY <1>2 DEF CallsTarget
  <1>3. CASE LeavesLoop(t)  BY <1>3 DEF LeavesLoop
  <1>4. CASE Returns(t)     BY <1>4 DEF Returns
  <1>5. CASE Raises(t)      BY <1>5 DEF Raises
  <1> QED
    BY <1>1, <1>2, <1>3, <1>4, <1>5 DEF Thread

(* The steps of the main thread.                                            *)
LEMMA MainStep ==
    ASSUME LifecycleInv, Main \/ HandlesSignal
    PROVE  LifecycleInv'
  <1> USE DEF LifecycleInv, TypeOK, WorkerTypeOK, workerVars, WorkerInv,
              AcceptedIsExecuted, StopInv
  <1>1. CASE \E t \in Callers : StartsThread(t)
    BY <1>1 DEF StartsThread, mainVars
  <1>2. CASE StartsWatching
    BY <1>2 DEF StartsWatching
  <1>3. CASE StartRaises
    BY <1>3 DEF StartRaises, BeginsStop
  <1>4. CASE HandlesSignal
    BY <1>4 DEF HandlesSignal, BeginsStop
  <1>5. CASE \E t \in Callers : Marks(t)
    BY <1>5 DEF Marks
  <1>6. CASE HasMarkedAll
    BY <1>6 DEF HasMarkedAll
  <1>7. CASE HasJoinedAll
    BY <1>7 DEF HasJoinedAll
  <1>8. CASE Closes
    BY <1>8 DEF Closes, SetsExit
  <1>9. CASE PutsToken
    <2>1. sql_queue' = Append(sql_queue, ExitToken)
      BY <1>9 DEF PutsToken, PutsExitToken
    <2>2. /\ sql_queue' \in Seq(Statement \cup {ExitToken})
          /\ Len(sql_queue') = Len(sql_queue) + 1
          /\ \A i \in DOMAIN sql_queue' :
                \/ sql_queue'[i] = ExitToken
                \/ i \in DOMAIN sql_queue /\ sql_queue'[i] = sql_queue[i]
      BY <2>1, QueueSteps
    <2>3. Len(sql_queue') <= QueueSize
      <3>1. Len(sql_queue) \in Nat
        BY LenProperties
      <3> QED
        BY <1>9, <2>2, <3>1, WorkerAssumption DEF PutsToken, PutsExitToken
    <2>4. ~IsStatement(ExitToken)
      BY DEF IsStatement, ExitToken
    <2> QED
      BY <1>9, <2>2, <2>3, <2>4 DEF PutsToken, PutsExitToken
  <1>10. CASE TokenTimesOut
    BY <1>10 DEF TokenTimesOut
  <1>11. CASE AwaitsWorker
    BY <1>11 DEF AwaitsWorker
  <1> QED
    BY <1>1, <1>2, <1>3, <1>4, <1>5, <1>6, <1>7, <1>8, <1>9, <1>10, <1>11 DEF Main

-----------------------------------------------------------------------------
(* The inductive invariant of starting, stopping and closing.               *)
THEOREM LifecycleHolds == Spec => []LifecycleInv
  <1>1. Init => LifecycleInv
    BY InitHolds
  <1>2. LifecycleInv /\ [Next]_vars => LifecycleInv'
    <2> SUFFICES ASSUME LifecycleInv, [Next]_vars
                 PROVE  LifecycleInv'
      OBVIOUS
    <2>1. CASE Main \/ HandlesSignal
      BY <2>1, MainStep
    <2>2. CASE Worker
      BY <2>2, WorkerStep
    <2>3. ASSUME NEW t \in Callers,
                 Thread(t) \/ UsesDatabase(t) \/ GoesOn(t) \/ Returns(t) \/ Raises(t)
          PROVE  LifecycleInv'
      BY <2>3, CallersStep, ThreadStep
    <2>4. CASE UNCHANGED vars
      BY <2>4 DEF vars, workerVars, mainVars, LifecycleInv, TypeOK, WorkerTypeOK, WorkerInv,
                  AcceptedIsExecuted, StopInv
    <2> QED
      BY <2>1, <2>2, <2>3, <2>4 DEF Next
  <1> QED
    BY <1>1, <1>2, PTL DEF Spec

(* Closing loses no statement that was put before it.                       *)
THEOREM ClosingLosesNothing == Spec => []AcceptedIsExecuted
  <1>1. LifecycleInv => AcceptedIsExecuted
    BY DEF LifecycleInv, WorkerInv
  <1> QED
    BY <1>1, LifecycleHolds, PTL

(* A clean stop closes the database when every thread has ended.            *)
THEOREM CleanStopClosesLast == Spec => []ClosedAfterThreads
  <1>1. LifecycleInv => ClosedAfterThreads
    BY DEF LifecycleInv, StopInv, ClosedAfterThreads
  <1> QED
    BY <1>1, LifecycleHolds, PTL
=============================================================================
