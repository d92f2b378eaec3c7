------------------------------ MODULE EventPool ------------------------------
(***************************************************************************)
(* The node's internal database: the rows of table audit_evt, the SQL      *)
(* statements that EventPoolManager issues on them, and the FIFO of        *)
(* statements between the node's threads and the one database thread       *)
(* (Sqlite3Worker).                                                        *)
(*                                                                         *)
(* A select makes its caller wait for the answer; every other statement    *)
(* is put on the queue and its caller goes on at once, so that a row       *)
(* changes some time after the thread that decided the change went on.     *)
(* An answer is a copy: the dictionaries a thread works on are not the     *)
(* rows any more once another statement has been executed.                 *)
(***************************************************************************)
EXTENDS Integers, Sequences

CONSTANTS
    Requests,    \* request ids of the audit contract
    None         \* no request, no event

VARIABLES
    rows,        \* key -> row of audit_evt (durable)
    sql_queue    \* Sqlite3Worker.sql_queue, without its capacity of 10000

poolVars == <<rows, sql_queue>>

Status == {"NA", "AS", "TS", "SB", "DN", "ER"}

(* Audits and police checks; together with the request id, the primary key. *)
Types == {"AU", "PC"}
Keys  == Requests \X Types

(* A row, and also the dictionary a select returns for it.  NA marks the    *)
(* key that has no row.  A column that is null is 0.  Columns that no       *)
(* thread reads back (status_info, tx_hash, audit_uri, ...) are left out.   *)
Event == [request_id           : Requests,
          fk_type              : Types,
          fk_status            : Status,
          submission_attempts  : Nat,
          assigned_block_nbr   : Nat,
          submission_block_nbr : Nat]

Key(evt) == <<evt.request_id, evt.fk_type>>

NoRow(k) == [request_id |-> k[1], fk_type |-> k[2], fk_status |-> "NA",
             submission_attempts |-> 0, assigned_block_nbr |-> 0,
             submission_block_nbr |-> 0]

(* A row of the event evt, with these values of the columns that change.    *)
Row(evt, status, attempts, block) ==
    [request_id           |-> evt.request_id,
     fk_type              |-> evt.fk_type,
     fk_status            |-> status,
     submission_attempts  |-> attempts,
     assigned_block_nbr   |-> evt.assigned_block_nbr,
     submission_block_nbr |-> block]

-----------------------------------------------------------------------------
(* Statements.                                                              *)

Updates == {"add", "to_be_submitted", "submitted", "done", "error"}

Threads == {"main", "poll", "audit", "submit", "monitor"}

Write     == [op : Updates, evt : Event]
Selection == [op : {"select"}, by : Threads, status : Status]
Lookup    == [op : {"lookup"}, evt : Event]
Statement == Write \cup Selection \cup Lookup

IsWrite(s)     == s.op \in Updates
IsSelection(s) == s.op = "select"
IsLookup(s)    == s.op = "lookup"

(* The insert fails on the primary key when the row exists;                 *)
(* insert_error_handler only logs it.                                       *)
add_evt_to_be_assigned(row, evt) ==
    IF row.fk_status = "NA" THEN Row(evt, "AS", 0, 0) ELSE row

set_evt_status_to_be_submitted(row, evt) ==
    IF row.fk_status \in {"AS", "TS", "SB"}
    THEN Row(row, "TS", row.submission_attempts + 1, evt.submission_block_nbr)
    ELSE row

set_evt_status_to_submitted(row) ==
    IF row.fk_status = "TS" THEN [row EXCEPT !.fk_status = "SB"] ELSE row

set_evt_status_to_done(row) ==
    IF row.fk_status \in {"AS", "TS", "SB"}
    THEN [row EXCEPT !.fk_status = "DN"] ELSE row

(* The one update that does not look at the status of the row.              *)
set_evt_status_to_error(row) ==
    IF row.fk_status # "NA" THEN [row EXCEPT !.fk_status = "ER"] ELSE row

(* The rows a write addresses: the insert its key, but every update all the *)
(* rows with its request id, whatever their type.                           *)
Addresses(s, k) ==
    IF s.op = "add" THEN k = Key(s.evt) ELSE k[1] = s.evt.request_id

(* An addressed row after a write.                                          *)
After(row, s) ==
    CASE s.op = "add"             -> add_evt_to_be_assigned(row, s.evt)
      [] s.op = "to_be_submitted" -> set_evt_status_to_be_submitted(row, s.evt)
      [] s.op = "submitted"       -> set_evt_status_to_submitted(row)
      [] s.op = "done"            -> set_evt_status_to_done(row)
      [] s.op = "error"           -> set_evt_status_to_error(row)

(* A wrong variant: the select of submissions also returns the rows of the next status. *)
RowsWith_Loose(status) ==
    {rows[k] : k \in {x \in Keys :
        rows[x].fk_status = status \/ (status = "TS" /\ rows[x].fk_status = "SB")}}

(* What get_events_to_be_processed, _submitted and _monitored return.       *)
RowsWith(status) == {rows[k] : k \in {x \in Keys : rows[x].fk_status = status}}

(* A wrong variant: only rows that are still being worked on count. *)
HasRow_Open(r) ==
    \E type \in Types : rows[<<r, type>>].fk_status \in {"AS", "TS", "SB"}

(* What get_event_by_request_id finds: a row of either type.                *)
HasRow(r) == \E type \in Types : rows[<<r, type>>].fk_status # "NA"

-----------------------------------------------------------------------------
(* Putting statements on the queue.                                         *)

PutWrite(op, evt)  == sql_queue' = Append(sql_queue, [op |-> op, evt |-> evt])
PutSelect(t, status) ==
    sql_queue' = Append(sql_queue, [op |-> "select", by |-> t, status |-> status])
PutLookup(evt) == sql_queue' = Append(sql_queue, [op |-> "lookup", evt |-> evt])

PoolInit ==
    /\ rows = [k \in Keys |-> NoRow(k)]
    /\ sql_queue = <<>>


(* The database thread executes a write within a transaction...             *)
ExecuteWrite ==
    /\ sql_queue # <<>>
    /\ LET s == Head(sql_queue) IN
        /\ IsWrite(s)
        /\ rows' = [k \in Keys |-> IF Addresses(s, k) THEN After(rows[k], s) ELSE rows[k]]
    /\ sql_queue' = Tail(sql_queue)

(* ...or rolls it back on an error; whoever put it is never told.           *)
RollBackWrite ==
    /\ sql_queue # <<>>
    /\ IsWrite(Head(sql_queue))
    /\ sql_queue' = Tail(sql_queue)
    /\ UNCHANGED rows
=============================================================================
