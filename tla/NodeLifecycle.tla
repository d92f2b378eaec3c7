---------------------------- MODULE NodeLifecycle ----------------------------
(***************************************************************************)
(* How the node starts and stops: QSPAuditNode.start and stop, the exec    *)
(* flags and loops of its internal threads, the signal handler of          *)
(* utils/stop.py, and the closing of the database worker (SqlWorker).      *)
(*                                                                         *)
(* start, stop and the signal handler all run in the main thread.  A       *)
(* signal interrupts start, or a stop that an exception began; the handler *)
(* then runs a stop of its own, exits the interpreter, and what it         *)
(* interrupted is never resumed.  The process ends when the threads that   *)
(* are not daemons, all but the worker, have ended.                        *)
(***************************************************************************)
EXTENDS SqlWorker

CONSTANTS
    Signals,         \* whether SIGTERM or SIGINT may arrive
    HandlersRaise    \* whether start or the handler of a thread may raise

ASSUME LifecycleAssumption == {Signals, HandlersRaise} \subseteq BOOLEAN

VARIABLES
    thread,      \* thread -> new, started, running (in its loop), busy (in
                 \* its target function) or ended
    exec,        \* thread -> its exec flag
    main,        \* what the main thread does
    unmarked,    \* the threads that stop has not signalled to stop yet
    skip,        \* the threads that stop will not join
    stopping,    \* the signal handler has been called
    clean        \* history: stop was called once at most, when every thread
                 \* that was started had set its exec flag

mainVars == <<main, unmarked, skip, stopping, clean>>
vars == <<workerVars, thread, exec, mainVars>>

Init ==
    /\ WorkerInit
    /\ thread = [t \in Callers |-> "new"]
    /\ exec = [t \in Callers |-> FALSE]
    /\ main = "start"
    /\ unmarked = {}
    /\ skip = {}
    /\ stopping = FALSE
    /\ clean = TRUE

-----------------------------------------------------------------------------
(* An internal thread: the loop of its run.                                 *)

Runs(t) ==
    /\ thread[t] = "started"
    /\ thread' = [thread EXCEPT ![t] = "running"]
    /\ exec' = [exec EXCEPT ![t] = TRUE]
    /\ UNCHANGED <<workerVars, mainVars>>

CallsTarget(t) ==
    /\ thread[t] = "running"
    /\ exec[t]
    /\ thread' = [thread EXCEPT ![t] = "busy"]
    /\ UNCHANGED <<workerVars, exec, mainVars>>

(* The target function uses the database, any number of times...            *)
UsesDatabase(t) ==
    /\ thread[t] = "busy"
    /\ \E op \in {"select", "write"} : Executes(t, op)
    /\ UNCHANGED <<thread, exec, mainVars>>

GoesOn(t) ==
    /\ Puts(t) \/ PutTimesOut(t) \/ Receives(t)
    /\ UNCHANGED <<thread, exec, mainVars>>

(* ...and returns...                                                        *)
Returns(t) ==
    /\ thread[t] = "busy"
    /\ call[t] = "idle"
    /\ thread' = [thread EXCEPT ![t] = "running"]
    /\ UNCHANGED <<workerVars, exec, mainVars>>

(* ...or raises, which ends the thread and leaves its flag set.             *)
Raises(t) ==
    /\ HandlersRaise
    /\ thread[t] = "busy"
    /\ call[t] = "idle"
    /\ thread' = [thread EXCEPT ![t] = "ended"]
    /\ UNCHANGED <<workerVars, exec, mainVars>>

LeavesLoop(t) ==
    /\ thread[t] = "running"
    /\ ~exec[t]
    /\ thread' = [thread EXCEPT ![t] = "ended"]
    /\ UNCHANGED <<workerVars, exec, mainVars>>

-----------------------------------------------------------------------------
(* start.                                                                   *)

StartsThread(t) ==
    /\ main = "start"
    /\ thread[t] = "new"
    /\ thread' = [thread EXCEPT ![t] = "started"]
    /\ UNCHANGED <<workerVars, exec, mainVars>>

StartsWatching ==
    /\ main = "start"
    /\ \A t \in Callers : thread[t] # "new"
    /\ main' = "watch"
    /\ UNCHANGED <<workerVars, thread, exec, unmarked, skip, stopping, clean>>

-----------------------------------------------------------------------------
(* stop, from its beginning.                                                *)

BeginsStop ==
    /\ main' = "mark"
    /\ unmarked' = Callers
    /\ skip' = {}
    /\ clean' = /\ main \in {"start", "watch"}
                /\ \A t \in Callers : thread[t] # "started"
    /\ UNCHANGED <<workerVars, thread, exec>>

(* The handler of __main__ for an exception out of start: the checks before *)
(* the threads are started, or a thread that is not alive any more.         *)
StartRaises ==
    /\ \/ main = "start" /\ HandlersRaise
       \/ main = "watch" /\ \E t \in Callers : thread[t] = "ended"
    /\ BeginsStop
    /\ UNCHANGED stopping

(* The first signal; its handler ignores every other one.  One that arrives *)
(* when main has nothing left to do is left out.                            *)
HandlesSignal ==
    /\ Signals
    /\ ~stopping
    /\ main # "exit"
    /\ stopping' = TRUE
    /\ BeginsStop

(* A wrong variant: every thread is skipped. *)
Marks_Skips(t) ==
    /\ main = "mark"
    /\ t \in unmarked
    /\ unmarked' = unmarked \ {t}
    /\ exec' = [exec EXCEPT ![t] = FALSE]
    /\ skip' = skip \cup {t}
    /\ UNCHANGED <<workerVars, thread, main, stopping, clean>>

(* Signals a thread to stop if its flag is set, and else takes it for one   *)
(* that was never started.                                                  *)
Marks(t) ==
    /\ main = "mark"
    /\ t \in unmarked
    /\ unmarked' = unmarked \ {t}
    /\ exec' = [exec EXCEPT ![t] = FALSE]
    /\ skip' = IF exec[t] THEN skip ELSE skip \cup {t}
    /\ UNCHANGED <<workerVars, thread, main, stopping, clean>>

HasMarkedAll ==
    /\ main = "mark"
    /\ unmarked = {}
    /\ main' = "join"
    /\ UNCHANGED <<workerVars, thread, exec, unmarked, skip, stopping, clean>>

(* Every join has returned.                                                 *)
HasJoinedAll ==
    /\ main = "join"
    /\ \A t \in Callers \ skip : thread[t] = "ended"
    /\ main' = "close"
    /\ UNCHANGED <<workerVars, thread, exec, unmarked, skip, stopping, clean>>

Closes ==
    /\ main = "close"
    /\ SetsExit
    /\ main' = "token"
    /\ UNCHANGED <<thread, exec, unmarked, skip, stopping, clean>>

PutsToken ==
    /\ main = "token"
    /\ PutsExitToken
    /\ main' = "await"
    /\ UNCHANGED <<thread, exec, unmarked, skip, stopping, clean>>

(* Full, raised out of stop: main exits without waiting for the worker.     *)
TokenTimesOut ==
    /\ main = "token"
    /\ Len(sql_queue) = QueueSize
    /\ main' = "exit"
    /\ UNCHANGED <<workerVars, thread, exec, unmarked, skip, stopping, clean>>

AwaitsWorker ==
    /\ main = "await"
    /\ ~thread_running
    /\ main' = "exit"
    /\ UNCHANGED <<workerVars, thread, exec, unmarked, skip, stopping, clean>>

-----------------------------------------------------------------------------
Thread(t) == Runs(t) \/ CallsTarget(t) \/ LeavesLoop(t)

Main == StartsWatching \/ StartRaises \/ HasMarkedAll \/ HasJoinedAll
          \/ Closes \/ PutsToken \/ TokenTimesOut \/ AwaitsWorker
          \/ \E t \in Callers : StartsThread(t) \/ Marks(t)

Worker == (WorkerRuns \/ WorkerDies) /\ UNCHANGED <<thread, exec, mainVars>>

Next ==
    \/ Main \/ HandlesSignal \/ Worker
    \/ \E t \in Callers :
        Thread(t) \/ UsesDatabase(t) \/ GoesOn(t) \/ Returns(t) \/ Raises(t)

Spec == Init /\ [][Next]_vars

(* Every thread runs.  A target function makes finitely many calls of the   *)
(* database, so that it cannot use the database for ever without returning. *)
Fairness ==
    /\ WF_vars(Main)
    /\ WF_vars(Worker)
    /\ \A t \in Callers :
        WF_vars(Thread(t)) /\ WF_vars(GoesOn(t)) /\ SF_vars(Returns(t))

FairSpec == Spec /\ Fairness

(* All the threads that would keep the process alive have ended.            *)
HasEnded == main = "exit" /\ \A t \in Callers : thread[t] \in {"new", "ended"}

-----------------------------------------------------------------------------
TypeOK ==
    /\ WorkerTypeOK
    /\ thread \in [Callers -> {"new", "started", "running", "busy", "ended"}]
    /\ exec \in [Callers -> BOOLEAN]
    /\ main \in {"start", "watch", "mark", "join", "close", "token", "await", "exit"}
    /\ unmarked \subseteq Callers
    /\ skip \subseteq Callers
    /\ stopping \in BOOLEAN
    /\ clean \in BOOLEAN

(* The database is closed after the threads that use it have ended, and     *)
(* skipping a thread whose flag is not set does no harm, provided that stop *)
(* is called once, and not between the start of a thread and its first      *)
(* step.                                                                    *)
ClosedAfterThreads ==
    clean /\ exit_set => \A t \in Callers : thread[t] \in {"new", "ended"}

(* A select that was put before the database is closed is answered, unless  *)
(* the worker dies.                                                         *)
AcceptedIsAnswered ==
    \A t \in Callers :
        call[t] = "wait" /\ ~exit_set ~> call[t] # "wait" \/ worker = "dead"

(* A clean stop ends the process: no thread waits for another for ever,     *)
(* unless a second stop interrupts it, or the worker is dead.               *)
CleanStopEnds == main = "mark" /\ clean ~> HasEnded \/ ~clean \/ worker = "dead"

(* The two invariants are not inductive.  The worker is about to end only   *)
(* once exit_set is set, from when on nothing that is put counts as early.  *)
WorkerInv ==
    /\ worker \in {"exiting", "ended"} => exit_set
    /\ AcceptedIsExecuted

(* Until stop is called, a flag is set exactly in the loop of its thread;   *)
(* a clean stop therefore skips no thread but those that never ran.         *)
StopInv ==
    /\ \A t \in Callers : thread[t] \in {"new", "started"} => ~exec[t]
    /\ main \in {"start", "watch"} =>
        /\ clean
        /\ ~exit_set
        /\ \A t \in Callers : thread[t] \in {"running", "busy"} => exec[t]
    /\ clean =>
        /\ exit_set => main \in {"token", "await", "exit"}
        /\ main \notin {"start", "watch"} => \A t \in Callers : thread[t] # "started"
        /\ main = "mark" =>
            \A t \in unmarked : thread[t] \in {"running", "busy"} => exec[t]
        /\ main \in {"mark", "join"} => \A t \in skip : thread[t] \in {"new", "ended"}
        /\ main \in {"close", "token", "await", "exit"} =>
            \A t \in Callers : thread[t] \in {"new", "ended"}

LifecycleInv == TypeOK /\ WorkerInv /\ StopInv
=============================================================================
