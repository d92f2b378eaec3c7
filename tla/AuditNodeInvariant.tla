------------------------- MODULE AuditNodeInvariant -------------------------
(***************************************************************************)
(* The inductive invariants behind the safety properties of AuditNode:     *)
(* Ownership, and, on top of it, HistoryInv.                               *)
(*                                                                         *)
(* The idea of the first: a row that is not terminal belongs to the one    *)
(* thread that works on its status, and the queue is a FIFO, so that a     *)
(* thread whose select is answered has no update of its own, and none of   *)
(* main's, still to come on the rows it receives.  The second says what    *)
(* of the past can be read off the state.                                  *)
(***************************************************************************)
EXTENDS AuditNode

(* The threads that select.                                                 *)
Selectors == {"main", "audit", "submit", "monitor"}

(* The statuses of the row for which an update is put on the queue.         *)
MayPut(s) ==
    /\ s.op = "add" => s.evt.fk_status = "NA"
    /\ s.op = "to_be_submitted" =>
            \/ s.evt.fk_status = "AS"
            \/ /\ s.evt.fk_status = "SB"
               /\ rows[Key(s.evt)].submission_attempts < MaxSubmissionAttempts
    /\ s.op = "submitted" => s.evt.fk_status = "TS"
    /\ s.op = "done" => s.evt.fk_status = "SB"
    /\ s.op = "error" => s.evt.fk_status \in {"AS", "TS", "SB"}

(* A row is the row of its key; the attempts are counted from the report    *)
(* on; and a request has one row.                                           *)
RowsInv ==
    /\ \A k \in Keys :
        /\ Key(rows[k]) = k
        /\ rows[k].fk_status \in {"NA", "AS"} => rows[k].submission_attempts = 0
        /\ rows[k].submission_attempts <= MaxSubmissionAttempts
    /\ OneRowPerRequest

(* Threads off, waiting, or looping, and what they hold then.               *)
ThreadsInv ==
    /\ \A t \in Threads : t # "main" /\ pc[t] # "off" => pc["main"] = "watch"
    /\ \A t \in Threads : pc[t] # "loop" => todo[t] = {}
    /\ pc["main"] = "off" => sql_queue = <<>>
    /\ pc["main"] \in {"off", "watch", "loop", "select"}
    /\ \A t \in {"audit", "submit", "monitor"} : pc[t] \in {"off", "loop", "select"}
    /\ todo["poll"] = {}
    /\ now["main"] = None /\ now["audit"] = None
    /\ \A t \in {"submit", "monitor"} : now[t] # None => now[t] \in todo[t]
    /\ pc["poll"] # "watch"
    /\ pc["poll"] \in {"select", "new", "known"} =>
            now["poll"] \in Event /\ now["poll"].fk_status = "NA"

(* The held events.                                                         *)
HeldInv ==
    /\ HeldEventsAreCurrent
    /\ \A t \in Threads : \A e \in todo[t] :
        e.fk_status = Handles(t)

(* The waiting updates.                                                     *)
QueuedInv ==
    /\ WritesFindTheirRows
    /\ \A i \in Queued : MayPut(sql_queue[i])
    /\ \A i \in Queued : sql_queue[i].op = "add" => ~HasRow(sql_queue[i].evt.request_id)

(* The waiting selects: the thread waits, for rows of its status; behind a  *)
(* select there is no update of a row it will return, and behind a lookup   *)
(* no insert.                                                               *)
SelectsInv ==
    /\ \A i \in DOMAIN sql_queue :
        IsSelection(sql_queue[i]) =>
            /\ sql_queue[i].by \in Selectors
            /\ pc[sql_queue[i].by] = "select"
            /\ sql_queue[i].status = Handles(sql_queue[i].by)
            /\ \A j \in DOMAIN sql_queue :
                /\ IsSelection(sql_queue[j]) /\ i # j => sql_queue[i].by # sql_queue[j].by
                /\ i < j /\ j \in Queued => sql_queue[j].evt.fk_status # sql_queue[i].status
    /\ \A i \in DOMAIN sql_queue :
        IsLookup(sql_queue[i]) =>
            /\ pc["poll"] = "select"
            /\ sql_queue[i].evt = now["poll"]
            /\ \A j \in DOMAIN sql_queue :
                /\ IsLookup(sql_queue[j]) => i = j
                /\ i < j /\ j \in Queued => sql_queue[j].evt.fk_status # "NA"

(* A request found to be new stays new until it is saved.                   *)
NewInv ==
    pc["poll"] = "new" =>
        /\ ~HasRow(now["poll"].request_id)
        /\ \A i \in Queued : sql_queue[i].evt.fk_status # "NA"

Ownership ==
    /\ TypeOK
    /\ RowsInv
    /\ ThreadsInv
    /\ HeldInv
    /\ QueuedInv
    /\ SelectsInv
    /\ NewInv

(* The waiting updates as a set: no two of them are for one request.        *)
Waiting == {sql_queue[i] : i \in Queued}

(* A report that may still be selected by the submit thread: to be          *)
(* submitted, not in the thread's hands after a send, and not about to be   *)
(* moved on by an update.                                                   *)
Unsent(k) ==
    /\ rows[k].fk_status = "TS"
    /\ now["submit"] = None \/ Key(now["submit"]) # k
    /\ \A s \in Waiting : Key(s.evt) # k

(* Of the transactions sent for an event, all but one for each crash, lost  *)
(* update and lost answer are accounted for by an attempt that is over.     *)
SentInv ==
    \A k \in Keys :
        sent[k] + (IF Unsent(k) THEN 1 ELSE 0)
            <= rows[k].submission_attempts + crashes + lost + unanswered

(* The assignment of an event is the one the contract has, and no block     *)
(* that may still be replaced holds it.                                     *)
Settled(evt) ==
    /\ assigned[Key(evt)] # 0
    /\ evt.assigned_block_nbr = assigned[Key(evt)]
    /\ evt.assigned_block_nbr + NConfirmations <= block

(* Only settled assignments are saved.  An audit is settled before poll     *)
(* looks it up; a police check perhaps not, but poll decides by the block   *)
(* number with which it began, and then it is settled if it is saved.       *)
AssignedInv ==
    /\ block # 0 /\ lastBlock <= block
    /\ mostRecent # None => assigned[<<mostRecent, "AU">>] # 0
    /\ \A k \in Keys : rows[k].fk_status # "NA" => Settled(rows[k])
    /\ \A s \in Waiting : s.op = "add" => Settled(s.evt)
    /\ pc["poll"] \in {"select", "new", "known"} =>
            /\ now["poll"].fk_type = "AU" => PoliceConfirmed
            /\ PoliceConfirmed => Settled(now["poll"])

IsReported(r) == reportBlock[<<r, "AU">>] # 0

(* From the monitor's first read to the row: a report that was seen in the  *)
(* contract is still there.                                                 *)
ReportedInv ==
    ~Reorgs =>
        /\ isFinished /\ now["monitor"] # None => IsReported(now["monitor"].request_id)
        /\ \A s \in Waiting : s.op = "done" => IsReported(s.evt.request_id)
        /\ \A k \in Keys : rows[k].fk_status = "DN" => IsReported(k[1])

IsStale(k) ==
    /\ rows[k].fk_status \in {"AS", "TS"}
    /\ rows[k].assigned_block_nbr <= scan.firstValid

TimesOutSoon(k) ==
    \E s \in Waiting : s.op = "error" /\ Key(s.evt) = k

(* The scan has not come to the row yet: its status comes later, or the     *)
(* select is not answered yet, or the row is among the answer.              *)
ScanAhead(k) ==
    \/ scan.status = "AS" /\ rows[k].fk_status = "TS"
    \/ /\ rows[k].fk_status = scan.status
       /\ pc["main"] = "select" \/ rows[k] \in todo["main"]

(* While main scans, nobody else puts updates, and no row that is too old   *)
(* slips through.                                                           *)
ScanInv ==
    pc["main"] \in {"select", "loop"} =>
        /\ \A s \in Waiting : s.op = "error"
        /\ lost = 0 => \A k \in Keys : IsStale(k) => TimesOutSoon(k) \/ ScanAhead(k)

(* What the node's state says of its past: of the transactions it sent, the *)
(* assignments and the reports it saw, and the rows it scanned.             *)
HistoryInv == SentInv /\ AssignedInv /\ ReportedInv /\ ScanInv
=============================================================================
