------------------------------ MODULE SqlWorker ------------------------------
(***************************************************************************)
(* Sqlite3Worker: the one thread that owns the connection to the database, *)
(* the bounded FIFO of statements in front of it, the threads that call    *)
(* execute, and close.                                                     *)
(*                                                                         *)
(* EventPool takes for granted that the queue loses no statement and that  *)
(* every select is answered.  Here is what that rests on while the worker  *)
(* is being closed: execute tests exit_set before it puts its statement,   *)
(* and the worker tests exit_set before it looks whether the queue is      *)
(* empty.                                                                  *)
(***************************************************************************)
EXTENDS Naturals, Sequences

CONSTANTS
    Callers,      \* the threads that call execute
    QueueSize,    \* max_queue_size
    WorkerFails   \* whether an exception may end the worker

ASSUME WorkerAssumption ==
    /\ QueueSize \in Nat \ {0}
    /\ WorkerFails \in BOOLEAN

VARIABLES
    exit_set,     \* close has been called
    sql_queue,    \* statements not taken by the worker yet
    results,      \* callers whose select is answered
    worker,       \* what the worker's loop does
    call          \* caller -> what its call of execute does

workerVars == <<exit_set, sql_queue, results, worker, call>>

(* A statement remembers whether it was put before close was called.  What  *)
(* it does to the database is left to EventPool.                            *)
ExitToken == [op |-> "exit"]
Statement == [op : {"select", "write"}, by : Callers, early : BOOLEAN]

IsStatement(s) == s.op # "exit"

WorkerInit ==
    /\ exit_set = FALSE
    /\ sql_queue = <<>>
    /\ results = {}
    /\ worker = "get"
    /\ call = [t \in Callers |-> "idle"]

-----------------------------------------------------------------------------
(* execute, by a caller t.                                                  *)

(* The test of exit_set.  Once it is set, execute returns at once.          *)
Executes(t, op) ==
    /\ call[t] = "idle"
    /\ ~exit_set
    /\ call' = [call EXCEPT ![t] = op]
    /\ UNCHANGED <<exit_set, sql_queue, results, worker>>

(* A wrong variant: a queue without a capacity. *)
Puts_Unbounded(t) ==
    /\ call[t] \in {"select", "write"}
    /\ sql_queue' = Append(sql_queue, [op |-> call[t], by |-> t, early |-> ~exit_set])
    /\ call' = [call EXCEPT ![t] = IF @ = "select" THEN "wait" ELSE "idle"]
    /\ UNCHANGED <<exit_set, results, worker>>

(* A select goes on to wait for its answer in query_results.                *)
Puts(t) ==
    /\ call[t] \in {"select", "write"}
    /\ Len(sql_queue) < QueueSize
    /\ sql_queue' = Append(sql_queue, [op |-> call[t], by |-> t, early |-> ~exit_set])
    /\ call' = [call EXCEPT ![t] = IF @ = "select" THEN "wait" ELSE "idle"]
    /\ UNCHANGED <<exit_set, results, worker>>

(* The queue stays full for 5 seconds: the exception Full.                  *)
PutTimesOut(t) ==
    /\ call[t] \in {"select", "write"}
    /\ Len(sql_queue) = QueueSize
    /\ call' = [call EXCEPT ![t] = "idle"]
    /\ UNCHANGED <<exit_set, sql_queue, results, worker>>

(* query_results finds the rows, or the message of an error.                *)
Receives(t) ==
    /\ call[t] = "wait"
    /\ t \in results
    /\ results' = results \ {t}
    /\ call' = [call EXCEPT ![t] = "idle"]
    /\ UNCHANGED <<exit_set, sql_queue, worker>>

-----------------------------------------------------------------------------
(* run: the loop of the worker.                                             *)

(* The worker takes a statement and runs it; a select gets an answer, even  *)
(* when it fails.  The exit token is only taken.                            *)
Serves ==
    /\ worker = "get"
    /\ sql_queue # <<>>
    /\ sql_queue' = Tail(sql_queue)
    /\ LET s == Head(sql_queue) IN
        results' = IF s.op = "select" THEN results \cup {s.by} ELSE results
    /\ worker' = "test"
    /\ UNCHANGED <<exit_set, call>>

(* A rollback that fails, or an exception that is none of the database's,   *)
(* ends the thread, and thread_running stays set.                           *)
WorkerDies ==
    /\ WorkerFails
    /\ worker = "get"
    /\ sql_queue # <<>>
    /\ IsStatement(Head(sql_queue))
    /\ sql_queue' = Tail(sql_queue)
    /\ worker' = "dead"
    /\ UNCHANGED <<exit_set, results, call>>

(* "Only exit if the queue is empty": two reads, exit_set first.            *)
TestsExitSet ==
    /\ worker = "test"
    /\ worker' = IF exit_set THEN "exiting" ELSE "get"
    /\ UNCHANGED <<exit_set, sql_queue, results, call>>

(* A wrong variant: the queue is not looked at. *)
TestsEmpty_Unchecked ==
    /\ worker = "exiting"
    /\ worker' = "ended"
    /\ UNCHANGED <<exit_set, sql_queue, results, call>>

TestsEmpty ==
    /\ worker = "exiting"
    /\ worker' = IF sql_queue = <<>> THEN "ended" ELSE "get"
    /\ UNCHANGED <<exit_set, sql_queue, results, call>>

WorkerRuns == Serves \/ TestsExitSet \/ TestsEmpty

thread_running == worker # "ended"

-----------------------------------------------------------------------------
(* close.                                                                   *)

SetsExit ==
    /\ exit_set' = TRUE
    /\ UNCHANGED <<sql_queue, results, worker, call>>

(* A wrong variant: close puts no token. *)
PutsExitToken_None ==
    /\ Len(sql_queue) < QueueSize
    /\ UNCHANGED <<exit_set, sql_queue, results, worker, call>>

PutsExitToken ==
    /\ Len(sql_queue) < QueueSize
    /\ sql_queue' = Append(sql_queue, ExitToken)
    /\ UNCHANGED <<exit_set, results, worker, call>>

-----------------------------------------------------------------------------
WorkerTypeOK ==
    /\ exit_set \in BOOLEAN
    /\ sql_queue \in Seq(Statement \cup {ExitToken})
    /\ Len(sql_queue) <= QueueSize
    /\ results \subseteq Callers
    /\ worker \in {"get", "test", "exiting", "ended", "dead"}
    /\ call \in [Callers -> {"idle", "select", "write", "wait"}]

(* Closing loses nothing that execute had put before: a worker that ended   *)
(* left no such statement behind, however the calls of execute and the two  *)
(* reads of the worker interleaved with close.                              *)
AcceptedIsExecuted ==
    worker = "ended" =>
        \A i \in DOMAIN sql_queue : IsStatement(sql_queue[i]) => ~sql_queue[i].early
=============================================================================
