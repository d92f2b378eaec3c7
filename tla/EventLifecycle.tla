--------------------------- MODULE EventLifecycle ---------------------------
(***************************************************************************)
(* What the node's internal database promises about one audit event: the   *)
(* finite automaton of statuses that the statements under evt/*.sql and    *)
(* the threads under audit/threads/ implement together.                    *)
(*                                                                         *)
(* NA is the absence of a row.  The other five statuses are the rows that  *)
(* createdb.sql inserts in evt_status: assigned, to be submitted,          *)
(* submitted, done and error.                                              *)
(***************************************************************************)
EXTENDS Naturals

CONSTANTS
    Events,                 \* the audit events: a request id and its type
    MaxSubmissionAttempts   \* MonitorSubmissionThread.MAX_SUBMISSION_ATTEMPTS

VARIABLE life               \* request id -> its status and submission attempts

Status == {"NA", "AS", "TS", "SB", "DN", "ER"}

(* A row is moved from a status to another one, and its counter with it.    *)
Moves(k, from, to, attempts) ==
    /\ life[k].status \in from
    /\ life' = [life EXCEPT ![k] = [status |-> to, attempts |-> attempts]]

-----------------------------------------------------------------------------
Init == life = [k \in Events |-> [status |-> "NA", attempts |-> 0]]

(* The node won the request and saved it.                                   *)
Assign(k) == Moves(k, {"NA"}, "AS", 0)

(* The analyzers produced a report.                                         *)
Report(k) == Moves(k, {"AS"}, "TS", 1)

(* The report was sent to the audit contract.                               *)
Submit(k) == Moves(k, {"TS"}, "SB", life[k].attempts)

(* The report is not in the contract yet; another attempt is left.          *)
Resubmit(k) ==
    /\ life[k].attempts < MaxSubmissionAttempts
    /\ Moves(k, {"SB"}, "TS", life[k].attempts + 1)

(* The contract has the report.                                             *)
Finish(k) == Moves(k, {"SB"}, "DN", life[k].attempts)

(* Any stage may fail; nothing leaves the error status.                     *)
Fail(k) == Moves(k, {"AS", "TS", "SB"}, "ER", life[k].attempts)

Next ==
    \E k \in Events :
        Assign(k) \/ Report(k) \/ Submit(k) \/ Resubmit(k) \/ Finish(k) \/ Fail(k)

Spec == Init /\ [][Next]_life
=============================================================================
