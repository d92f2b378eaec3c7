------------------------------ MODULE AuditNode ------------------------------
(***************************************************************************)
(* The audit pipeline of the node: the threads that QSPAuditNode starts,   *)
(* the database they share (EventPool), and the audit contract they talk   *)
(* to.                                                                     *)
(*                                                                         *)
(*   poll     saves an assigned request as AS, and bids for more;          *)
(*   audit    works on the AS rows, makes a report: TS, or ER;             *)
(*   submit   works on the TS rows, sends the report: SB, or ER;           *)
(*   monitor  works on the SB rows: DN, back to TS, or ER;                 *)
(*   main     at start only: ER for the AS and TS rows that are too old.   *)
(*                                                                         *)
(* Each of them selects the rows with its status, then handles the copies  *)
(* one by one while the others run, the chain moves on and its own writes  *)
(* wait in the queue of the database thread.                               *)
(***************************************************************************)
EXTENDS EventPool, FiniteSets

CONSTANTS
    NConfirmations,          \* config n_blocks_confirmation
    AuditTimeout,            \* what the contract's getAuditTimeoutInBlocks answers
    SubmissionTimeoutLimit,  \* config submission_timeout_limit_blocks
    BlockDiscardOnRestart,   \* config block_discard_on_restart
    MaxAssignedRequests,     \* config max_assigned_requests
    PoliceNode,              \* whether the contract lists the node as a police node
    EnablePoliceAuditPolling, \* config enable_police_audit_polling
    MaxSubmissionAttempts,   \* MonitorSubmissionThread.MAX_SUBMISSION_ATTEMPTS
    Reorgs,                  \* whether unconfirmed blocks may be replaced
    PollReadsRaise,          \* whether poll's first read of the chain may raise
    \* Bounds of the explored behaviours, none of them in the code:
    MaxBlock,                \* height at which the chain stops
    MaxCrashes,              \* crashes of the node
    MaxLostWrites,           \* updates that the database rolls back
    MaxUnanswered,           \* sent reports whose answer is lost
    MaxBids                  \* bid transactions pending at a time

ASSUME ConstantsAssumption ==
    /\ NConfirmations \in Nat
    /\ AuditTimeout \in Nat
    /\ SubmissionTimeoutLimit \in Nat
    /\ BlockDiscardOnRestart \in Nat
    /\ MaxAssignedRequests \in Nat
    /\ MaxSubmissionAttempts \in Nat \ {0}
    /\ {PoliceNode, EnablePoliceAuditPolling, Reorgs, PollReadsRaise} \subseteq BOOLEAN
    /\ {MaxBlock, MaxCrashes, MaxLostWrites, MaxUnanswered, MaxBids} \subseteq Nat

ASSUME NoneAssumption == None \notin Requests /\ None \notin Event

VARIABLES
    (* the chain and the audit contract *)
    block,         \* height of the head
    assigned,      \* key -> block at which the node got the audit or the police
                   \* check of the request, 0 if it did not
    mostRecent,    \* request id in myMostRecentAssignedAudit
    bids,          \* getNextAuditRequest transactions not mined yet
    pending,       \* key -> report transactions not mined yet
    reportBlock,   \* key -> block of its report, 0 if the contract has none
    (* the memory of the node *)
    pc,            \* thread -> what it is doing
    todo,          \* thread -> selected events it has not finished with
    now,           \* thread -> event it is in the middle of, or None
    isFinished,    \* monitor's last answer of isAuditFinished
    scan,          \* main's scan at start: its status and its first valid block
    lastBlock,     \* poll's last_block_number
    isPolice,      \* poll's __is_police_officer_cached
    (* counters for bounds and properties *)
    sent,          \* key -> report transactions ever sent
    crashes, lost, unanswered

chainVars  == <<block, assigned, mostRecent, bids, pending, reportBlock>>
localVars  == <<isFinished, scan, lastBlock, isPolice>>
threadVars == <<pc, todo, now, localVars>>
countVars  == <<sent, crashes, lost, unanswered>>
vars == <<poolVars, chainVars, threadVars, countVars>>

(* The status of the rows a thread works on.                                *)
Handles(t) == CASE t = "audit"   -> "AS"
                [] t = "submit"  -> "TS"
                [] t = "monitor" -> "SB"
                [] t = "main"    -> scan.status
                [] t = "poll"    -> "NA"

(* The event that __add_evt_to_db makes of what the contract answered.      *)
AssignedEvent(k) == [NoRow(k) EXCEPT !.assigned_block_nbr = assigned[k]]

NodeOff ==
    /\ pc = [t \in Threads |-> "off"]
    /\ todo = [t \in Threads |-> {}]
    /\ now = [t \in Threads |-> None]
    /\ isFinished = FALSE
    /\ scan = [status |-> "AS", firstValid |-> 0]
    /\ lastBlock = 0
    /\ isPolice = "unknown"

Init ==
    /\ PoolInit
    /\ block = 1
    /\ assigned = [k \in Keys |-> 0]
    /\ mostRecent = None
    /\ bids = 0
    /\ pending = [k \in Keys |-> 0]
    /\ reportBlock = [k \in Keys |-> 0]
    /\ NodeOff
    /\ sent = [k \in Keys |-> 0]
    /\ crashes = 0
    /\ lost = 0
    /\ unanswered = 0

-----------------------------------------------------------------------------
(* Selecting events, and leaving them.                                      *)

(* A select is issued when all the events of the previous one are handled.  *)
Selects(t) ==
    /\ pc[t] = "loop"
    /\ todo[t] = {}
    /\ pc' = [pc EXCEPT ![t] = "select"]
    /\ PutSelect(t, Handles(t))
    /\ UNCHANGED <<rows, chainVars, todo, now, localVars, countVars>>

(* t is free to handle e, one of the events it selected.                    *)
Picks(t, e) ==
    /\ pc[t] = "loop"
    /\ e \in todo[t]
    /\ now[t] = None

(* t is through with e, and goes on with its next event.                    *)
Leaves(t, e) ==
    /\ todo' = [todo EXCEPT ![t] = @ \ {e}]
    /\ now' = [now EXCEPT ![t] = None]

(* t ends its handling of e with an update that it puts on the queue.       *)
LeavesWith(t, e, op, evt) ==
    /\ Leaves(t, e)
    /\ PutWrite(op, evt)
    /\ UNCHANGED <<rows, chainVars, pc, localVars, countVars>>

(* t ends its handling of e and leaves the row as it is.                    *)
LeavesAlone(t, e) ==
    /\ Leaves(t, e)
    /\ UNCHANGED <<poolVars, chainVars, pc, localVars, countVars>>

-----------------------------------------------------------------------------
(* main: QSPAuditNode.start, from __timeout_stale_requests on.              *)

Start ==
    /\ pc["main"] = "off"
    /\ pc' = [pc EXCEPT !["main"] = "select"]
    /\ scan' = [status |-> "AS",
                firstValid |-> block - SubmissionTimeoutLimit + BlockDiscardOnRestart]
    /\ PutSelect("main", "AS")
    /\ UNCHANGED <<rows, chainVars, todo, now, isFinished, lastBlock, isPolice, countVars>>

TimesOut(e) ==
    /\ Picks("main", e)
    /\ scan.firstValid >= e.assigned_block_nbr
    /\ LeavesWith("main", e, "error", e)

(* A wrong variant: a row of the very block that is too old is kept. *)
StillValid_OffByOne(e) ==
    /\ Picks("main", e)
    /\ scan.firstValid <= e.assigned_block_nbr
    /\ LeavesAlone("main", e)

StillValid(e) ==
    /\ Picks("main", e)
    /\ scan.firstValid < e.assigned_block_nbr
    /\ LeavesAlone("main", e)

ScansSubmissions ==
    /\ pc["main"] = "loop"
    /\ todo["main"] = {}
    /\ scan.status = "AS"
    /\ scan' = [scan EXCEPT !.status = "TS"]
    /\ pc' = [pc EXCEPT !["main"] = "select"]
    /\ PutSelect("main", "TS")
    /\ UNCHANGED <<rows, chainVars, todo, now, isFinished, lastBlock, isPolice, countVars>>

(* A wrong variant: the rows to be submitted are not scanned. *)
StartsThreads_NoSecondScan ==
    /\ pc["main"] = "loop"
    /\ todo["main"] = {}
    /\ pc' = [t \in Threads |-> IF t = "main" THEN "watch" ELSE "loop"]
    /\ UNCHANGED <<poolVars, chainVars, todo, now, localVars, countVars>>

StartsThreads ==
    /\ pc["main"] = "loop"
    /\ todo["main"] = {}
    /\ scan.status = "TS"
    /\ pc' = [t \in Threads |-> IF t = "main" THEN "watch" ELSE "loop"]
    /\ UNCHANGED <<poolVars, chainVars, todo, now, localVars, countVars>>

-----------------------------------------------------------------------------
(* poll: PollRequestsThread.__poll_requests, called once for every block    *)
(* number that the block polling thread is seen to hold.                    *)

(* __is_police_officer: the first answer is kept, and a read that fails     *)
(* counts as the answer no.                                                 *)
ChecksRole ==
    /\ pc["poll"] = "loop"
    /\ isPolice = "unknown"
    /\ isPolice' \in IF PoliceNode THEN {"yes", "no"} ELSE {"no"}
    /\ UNCHANGED <<poolVars, chainVars, pc, todo, now, isFinished, scan, lastBlock, countVars>>

(* __poll_requests polls for audits, then for police checks.                *)
Polls(current_block) ==
    /\ pc["poll"] = "loop"
    /\ isPolice # "unknown"
    /\ current_block \in (lastBlock + 1) .. block
    /\ lastBlock' = current_block

PollsForAudits == isPolice = "yes" => EnablePoliceAuditPolling

AfterAuditPoll == IF isPolice = "yes" THEN "police" ELSE "loop"

(* A police node may be told not to poll for audits.                        *)
SkipsAudits(current_block) ==
    /\ Polls(current_block)
    /\ ~PollsForAudits
    /\ pc' = [pc EXCEPT !["poll"] = "police"]
    /\ UNCHANGED <<poolVars, chainVars, todo, now, isFinished, scan, isPolice, countVars>>

(* No request was ever won: straight to bidding.                            *)
FindsNothing(current_block) ==
    /\ Polls(current_block)
    /\ PollsForAudits
    /\ mostRecent = None
    /\ pc' = [pc EXCEPT !["poll"] = "bid"]
    /\ UNCHANGED <<poolVars, chainVars, todo, now, isFinished, scan, isPolice, countVars>>

(* A wrong variant: waits one block too many. *)
FindsUnconfirmed_OffByOne(current_block) ==
    /\ Polls(current_block)
    /\ PollsForAudits
    /\ mostRecent # None
    /\ assigned[<<mostRecent, "AU">>] + NConfirmations >= current_block
    /\ pc' = [pc EXCEPT !["poll"] = AfterAuditPoll]
    /\ UNCHANGED <<poolVars, chainVars, todo, now, isFinished, scan, isPolice, countVars>>

(* The assignment is not confirmed for N blocks: look again at the next.    *)
FindsUnconfirmed(current_block) ==
    /\ Polls(current_block)
    /\ PollsForAudits
    /\ mostRecent # None
    /\ assigned[<<mostRecent, "AU">>] + NConfirmations > current_block
    /\ pc' = [pc EXCEPT !["poll"] = AfterAuditPoll]
    /\ UNCHANGED <<poolVars, chainVars, todo, now, isFinished, scan, isPolice, countVars>>

(* The first read of the poll raises: it is over for this block.            *)
PollRaises(current_block) ==
    /\ PollReadsRaise
    /\ Polls(current_block)
    /\ PollsForAudits
    /\ pc' = [pc EXCEPT !["poll"] = AfterAuditPoll]
    /\ UNCHANGED <<poolVars, chainVars, todo, now, isFinished, scan, isPolice, countVars>>

(* poll asks the database whether the request of evt is known.              *)
LooksUp(evt) ==
    /\ pc' = [pc EXCEPT !["poll"] = "select"]
    /\ now' = [now EXCEPT !["poll"] = evt]
    /\ PutLookup(evt)

(* A wrong variant: does not wait for confirmations. *)
FindsConfirmed_AtOnce(current_block) ==
    /\ Polls(current_block)
    /\ PollsForAudits
    /\ mostRecent # None
    /\ LooksUp(AssignedEvent(<<mostRecent, "AU">>))
    /\ UNCHANGED <<rows, chainVars, todo, isFinished, scan, isPolice, countVars>>

FindsConfirmed(current_block) ==
    /\ Polls(current_block)
    /\ PollsForAudits
    /\ mostRecent # None
    /\ assigned[<<mostRecent, "AU">>] + NConfirmations <= current_block
    /\ LooksUp(AssignedEvent(<<mostRecent, "AU">>))
    /\ UNCHANGED <<rows, chainVars, todo, isFinished, scan, isPolice, countVars>>

(* __add_evt_to_db, for a request that is not known: on with the bidding... *)
SavesRequest ==
    /\ pc["poll"] = "new"
    /\ now["poll"].fk_type = "AU"
    /\ PutWrite("add", now["poll"])
    /\ pc' = [pc EXCEPT !["poll"] = "bid"]
    /\ now' = [now EXCEPT !["poll"] = None]
    /\ UNCHANGED <<rows, chainVars, todo, localVars, countVars>>

(* ...as for one that is known.                                             *)
KnowsRequest ==
    /\ pc["poll"] = "known"
    /\ now["poll"].fk_type = "AU"
    /\ pc' = [pc EXCEPT !["poll"] = "bid"]
    /\ now' = [now EXCEPT !["poll"] = None]
    /\ UNCHANGED <<poolVars, chainVars, todo, localVars, countVars>>

(* The requests the contract counts in assignedRequestCount, and those that *)
(* anyRequestAvailable finds.                                               *)
Unfinished == {r \in Requests : assigned[<<r, "AU">>] # 0 /\ reportBlock[<<r, "AU">>] = 0}
Available  == {r \in Requests : assigned[<<r, "AU">>] = 0 /\ reportBlock[<<r, "AU">>] = 0}

(* A request is available and the node holds less than its limit:           *)
(* __get_next_audit_request sends a bid and waits for its receipt.          *)
Bids ==
    /\ pc["poll"] = "bid"
    /\ Available # {}
    /\ Cardinality(Unfinished) < MaxAssignedRequests
    /\ bids < MaxBids
    /\ bids' = bids + 1
    /\ pc' = [pc EXCEPT !["poll"] = "receipt"]
    /\ UNCHANGED <<poolVars, block, assigned, mostRecent, pending, reportBlock,
                   todo, now, localVars, countVars>>

(* Nothing available, the limit reached, or any exception in the handler.   *)
DoesNotBid ==
    /\ pc["poll"] = "bid"
    /\ pc' = [pc EXCEPT !["poll"] = AfterAuditPoll]
    /\ UNCHANGED <<poolVars, chainVars, todo, now, localVars, countVars>>

(* The receipt is confirmed, or given up after tx_timeout_seconds, or found *)
(* to be gone: the poll for audits ends either way.                         *)
EndsWait ==
    /\ pc["poll"] = "receipt"
    /\ pc' = [pc EXCEPT !["poll"] = AfterAuditPoll]
    /\ UNCHANGED <<poolVars, chainVars, todo, now, localVars, countVars>>

(* __poll_police_request: the next police check the contract has for the    *)
(* node, one it has not reported on.                                        *)
FindsPoliceCheck(r) ==
    /\ pc["poll"] = "police"
    /\ assigned[<<r, "PC">>] # 0
    /\ reportBlock[<<r, "PC">>] = 0
    /\ LooksUp(AssignedEvent(<<r, "PC">>))
    /\ UNCHANGED <<rows, chainVars, todo, localVars, countVars>>

(* There is none, or a read raises.                                         *)
FindsNoPoliceCheck ==
    /\ pc["poll"] = "police"
    /\ pc' = [pc EXCEPT !["poll"] = "loop"]
    /\ UNCHANGED <<poolVars, chainVars, todo, now, localVars, countVars>>

PoliceConfirmed == now["poll"].assigned_block_nbr + NConfirmations <= lastBlock

SavesPoliceCheck ==
    /\ pc["poll"] = "new"
    /\ now["poll"].fk_type = "PC"
    /\ PoliceConfirmed
    /\ PutWrite("add", now["poll"])
    /\ pc' = [pc EXCEPT !["poll"] = "loop"]
    /\ now' = [now EXCEPT !["poll"] = None]
    /\ UNCHANGED <<rows, chainVars, todo, localVars, countVars>>

(* Known already, under either type, or not confirmed yet.                  *)
LeavesPoliceCheck ==
    /\ \/ pc["poll"] = "known"
       \/ pc["poll"] = "new" /\ ~PoliceConfirmed
    /\ now["poll"].fk_type = "PC"
    /\ pc' = [pc EXCEPT !["poll"] = "loop"]
    /\ now' = [now EXCEPT !["poll"] = None]
    /\ UNCHANGED <<poolVars, chainVars, todo, localVars, countVars>>

-----------------------------------------------------------------------------
(* audit: PerformAuditThread.__process_audit_request.                       *)

(* A wrong variant: the block number of the report is left null. *)
Reports_NoBlock(e) ==
    /\ Picks("audit", e)
    /\ LeavesWith("audit", e, "to_be_submitted",
                  [e EXCEPT !.submission_block_nbr = None])

(* The block number is read when the report is generated.                   *)
Reports(e) ==
    /\ Picks("audit", e)
    /\ LeavesWith("audit", e, "to_be_submitted",
                  [e EXCEPT !.submission_block_nbr = block])

AuditRaises(e) ==
    /\ Picks("audit", e)
    /\ LeavesWith("audit", e, "error", e)

(* A KeyError is only logged: the row stays AS and is selected again.       *)
AuditRaisesKeyError(e) ==
    /\ Picks("audit", e)
    /\ LeavesAlone("audit", e)

-----------------------------------------------------------------------------
(* submit: SubmitReportThread.__process_submission_request.                 *)

(* The transaction reaches the pool of the Ethereum node...                 *)
Sends(e) ==
    /\ Picks("submit", e)
    /\ now' = [now EXCEPT !["submit"] = e]
    /\ pending' = [pending EXCEPT ![Key(e)] = @ + 1]
    /\ sent' = [sent EXCEPT ![Key(e)] = @ + 1]
    /\ UNCHANGED <<poolVars, block, assigned, mostRecent, bids, reportBlock,
                   pc, todo, localVars, crashes, lost, unanswered>>

(* ...or does so, but its answer cannot be read: the loop of                *)
(* send_signed_transaction is to send it again, and finds it pending        *)
(* (IsDuplicate) or mined (Sends), or fails for good (SubmitRaises).        *)
GoesUnanswered(e) ==
    /\ Picks("submit", e)
    /\ unanswered < MaxUnanswered
    /\ unanswered' = unanswered + 1
    /\ pending' = [pending EXCEPT ![Key(e)] = @ + 1]
    /\ sent' = [sent EXCEPT ![Key(e)] = @ + 1]
    /\ UNCHANGED <<poolVars, block, assigned, mostRecent, bids, reportBlock,
                   threadVars, crashes, lost>>

(* A wrong variant: set_evt_status_to_submitted is not called. *)
RecordsSubmission_Forgets(e) ==
    /\ now["submit"] = e
    /\ e # None
    /\ LeavesAlone("submit", e)

(* ...and only then the event is recorded as submitted.                     *)
RecordsSubmission(e) ==
    /\ now["submit"] = e
    /\ e # None
    /\ LeavesWith("submit", e, "submitted", e)

(* A wrong variant: any failure to send is taken for a duplicate. *)
IsDuplicate_Always(e) ==
    /\ Picks("submit", e)
    /\ LeavesAlone("submit", e)

(* The very same transaction is in the pool already                         *)
(* (DeduplicationException): the row stays TS and is selected again.        *)
IsDuplicate(e) ==
    /\ Picks("submit", e)
    /\ pending[Key(e)] > 0
    /\ LeavesAlone("submit", e)

(* Any other exception, before or after the transaction reached the pool.   *)
SubmitRaises(e) ==
    /\ \/ Picks("submit", e)
       \/ now["submit"] = e /\ e # None
    /\ LeavesWith("submit", e, "error", e)

-----------------------------------------------------------------------------
(* monitor: MonitorSubmissionThread.__monitor_submission_timeout.           *)

(* The first read, isAuditFinished: is the report of the audit in the       *)
(* contract?  That is what is asked for a police check, too.                *)
Asks(e) ==
    /\ Picks("monitor", e)
    /\ now' = [now EXCEPT !["monitor"] = e]
    /\ isFinished' = (reportBlock[<<e.request_id, "AU">>] # 0)
    /\ UNCHANGED <<poolVars, chainVars, pc, todo, scan, lastBlock, isPolice, countVars>>

(* A wrong variant: one attempt too many. *)
AttemptsExhausted_OffByOne(e) == e.submission_attempts > MaxSubmissionAttempts

AttemptsExhausted(e) == e.submission_attempts + 1 > MaxSubmissionAttempts

Answered(e) == now["monitor"] = e /\ e # None

(* A wrong variant: waits one block too many. *)
AwaitsConfirmation_OffByOne(e) ==
    /\ Answered(e)
    /\ isFinished
    /\ block - e.submission_block_nbr <= NConfirmations
    /\ LeavesAlone("monitor", e)

(* The second read, of the block number, and the decision.                  *)
AwaitsConfirmation(e) ==
    /\ Answered(e)
    /\ isFinished
    /\ block - e.submission_block_nbr < NConfirmations
    /\ LeavesAlone("monitor", e)

(* A wrong variant: done for any submission that is old enough. *)
Finishes_Unasked(e) ==
    /\ Answered(e)
    /\ block - e.submission_block_nbr >= NConfirmations
    /\ LeavesWith("monitor", e, "done", e)

Finishes(e) ==
    /\ Answered(e)
    /\ isFinished
    /\ block - e.submission_block_nbr >= NConfirmations
    /\ LeavesWith("monitor", e, "done", e)

Resubmits(e) ==
    /\ Answered(e)
    /\ ~isFinished
    /\ block < e.assigned_block_nbr + AuditTimeout
    /\ ~AttemptsExhausted(e)
    /\ LeavesWith("monitor", e, "to_be_submitted", e)

GivesUp(e) ==
    /\ Answered(e)
    /\ ~isFinished
    /\ block >= e.assigned_block_nbr + AuditTimeout \/ AttemptsExhausted(e)
    /\ LeavesWith("monitor", e, "error", e)

(* A wrong variant: retries for ever. *)
MonitorRaises_Retries(e) ==
    /\ Picks("monitor", e) \/ Answered(e)
    /\ LeavesWith("monitor", e, "to_be_submitted", e)

(* Either read raises: one more attempt, whatever the contract holds.       *)
MonitorRaises(e) ==
    /\ Picks("monitor", e) \/ Answered(e)
    /\ LeavesWith("monitor", e,
                  IF AttemptsExhausted(e) THEN "error" ELSE "to_be_submitted", e)

-----------------------------------------------------------------------------
(* The database thread.                                                     *)

Writes ==
    /\ ExecuteWrite
    /\ UNCHANGED <<chainVars, threadVars, countVars>>

LosesWrite ==
    /\ lost < MaxLostWrites
    /\ RollBackWrite
    /\ lost' = lost + 1
    /\ UNCHANGED <<chainVars, threadVars, sent, crashes, unanswered>>

(* A thread receives copies of the rows with the status it asked for.       *)
AnswersSelect ==
    /\ sql_queue # <<>>
    /\ sql_queue' = Tail(sql_queue)
    /\ LET s == Head(sql_queue) IN
        /\ IsSelection(s)
        /\ todo' = [todo EXCEPT ![s.by] = RowsWith(s.status)]
        /\ pc' = [pc EXCEPT ![s.by] = "loop"]
    /\ UNCHANGED <<rows, chainVars, now, localVars, countVars>>

(* is_request_processed: does any row have this request id?                 *)
AnswersLookup ==
    /\ sql_queue # <<>>
    /\ sql_queue' = Tail(sql_queue)
    /\ LET s == Head(sql_queue) IN
        /\ IsLookup(s)
        /\ pc' = [pc EXCEPT !["poll"] =
                    IF HasRow(s.evt.request_id) THEN "known" ELSE "new"]
    /\ UNCHANGED <<rows, chainVars, todo, now, localVars, countVars>>

(* The process ends at any point, for whatever reason, and the memory with  *)
(* it: a kill, but also a signal or a dead thread after which the others    *)
(* finish and the queue drains first.  It can be started again.             *)
Crash ==
    /\ crashes < MaxCrashes
    /\ pc["main"] # "off"
    /\ crashes' = crashes + 1
    /\ pc' = [t \in Threads |-> "off"]
    /\ todo' = [t \in Threads |-> {}]
    /\ now' = [t \in Threads |-> None]
    /\ isFinished' = FALSE
    /\ scan' = [status |-> "AS", firstValid |-> 0]
    /\ lastBlock' = 0
    /\ isPolice' = "unknown"
    /\ sql_queue' = <<>>
    /\ UNCHANGED <<rows, chainVars, sent, lost, unanswered>>

-----------------------------------------------------------------------------
(* The chain and the audit contract (external).                             *)

MinesBlock ==
    /\ block < MaxBlock
    /\ block' = block + 1
    /\ UNCHANGED <<poolVars, assigned, mostRecent, bids, pending, reportBlock,
                   threadVars, countVars>>

(* A bid is mined and wins a request...                                     *)
AssignsRequest(r) ==
    /\ bids > 0
    /\ r \in Available
    /\ bids' = bids - 1
    /\ assigned' = [assigned EXCEPT ![<<r, "AU">>] = block]
    /\ mostRecent' = r
    /\ UNCHANGED <<poolVars, block, pending, reportBlock, threadVars, countVars>>

(* ...or wins nothing, or is never mined.                                   *)
BidFails ==
    /\ bids > 0
    /\ bids' = bids - 1
    /\ UNCHANGED <<poolVars, block, assigned, mostRecent, pending, reportBlock,
                   threadVars, countVars>>

(* A finished audit, of this node or of another one whose report comes in   *)
(* now, is assigned to the node for a police check.                         *)
AssignsPoliceCheck(r) ==
    /\ PoliceNode
    /\ assigned[<<r, "PC">>] = 0
    /\ r \notin Unfinished
    /\ assigned' = [assigned EXCEPT ![<<r, "PC">>] = block]
    /\ reportBlock' = [reportBlock EXCEPT ![<<r, "AU">>] = IF @ = 0 THEN block ELSE @]
    /\ UNCHANGED <<poolVars, block, mostRecent, bids, pending, threadVars, countVars>>

(* A report is mined within the window of its request...                    *)
AcceptsReport(k) ==
    /\ pending[k] > 0
    /\ reportBlock[k] = 0
    /\ block <= assigned[k] + AuditTimeout
    /\ pending' = [pending EXCEPT ![k] = @ - 1]
    /\ reportBlock' = [reportBlock EXCEPT ![k] = block]
    /\ UNCHANGED <<poolVars, block, assigned, mostRecent, bids, threadVars, countVars>>

(* ...or is reverted (a second report, or a late one), or is never mined.   *)
DropsReport(k) ==
    /\ pending[k] > 0
    /\ pending' = [pending EXCEPT ![k] = @ - 1]
    /\ UNCHANGED <<poolVars, block, assigned, mostRecent, bids, reportBlock,
                   threadVars, countVars>>

(* A block that is not confirmed is replaced, and with it a report...       *)
LosesReport(k) ==
    /\ Reorgs
    /\ reportBlock[k] # 0
    /\ block < reportBlock[k] + NConfirmations
    /\ reportBlock' = [reportBlock EXCEPT ![k] = 0]
    /\ UNCHANGED <<poolVars, block, assigned, mostRecent, bids, pending,
                   threadVars, countVars>>

(* ...or an assignment; the audit won before it is the most recent again.   *)
LosesAssignment(k) ==
    /\ Reorgs
    /\ assigned[k] # 0
    /\ block < assigned[k] + NConfirmations
    /\ assigned' = [assigned EXCEPT ![k] = 0]
    /\ LET others == {r \in Requests \ {k[1]} : assigned[<<r, "AU">>] # 0} IN
        mostRecent' \in
            IF k # <<mostRecent, "AU">> THEN {mostRecent}
            ELSE IF others = {} THEN {None}
            ELSE {r \in others : \A x \in others :
                                    assigned[<<x, "AU">>] <= assigned[<<r, "AU">>]}
    /\ UNCHANGED <<poolVars, block, bids, pending, reportBlock, threadVars, countVars>>

-----------------------------------------------------------------------------
Main    == Start \/ ScansSubmissions \/ StartsThreads
             \/ \E e \in todo["main"] : TimesOut(e) \/ StillValid(e)
Poll    == ChecksRole \/ SavesRequest \/ KnowsRequest \/ Bids \/ DoesNotBid \/ EndsWait
             \/ FindsNoPoliceCheck \/ SavesPoliceCheck \/ LeavesPoliceCheck
             \/ \E r \in Requests : FindsPoliceCheck(r)
             \/ \E b \in 1 .. MaxBlock :
                    \/ SkipsAudits(b) \/ FindsNothing(b) \/ FindsUnconfirmed(b)
                    \/ FindsConfirmed(b) \/ PollRaises(b)
Audit   == Selects("audit")
             \/ \E e \in todo["audit"] : Reports(e) \/ AuditRaises(e) \/ AuditRaisesKeyError(e)
Submit  == Selects("submit")
             \/ \E e \in todo["submit"] :
                    \/ Sends(e) \/ GoesUnanswered(e) \/ RecordsSubmission(e)
                    \/ IsDuplicate(e) \/ SubmitRaises(e)
Monitor == Selects("monitor")
             \/ \E e \in todo["monitor"] :
                    \/ Asks(e) \/ AwaitsConfirmation(e) \/ Finishes(e)
                    \/ Resubmits(e) \/ GivesUp(e) \/ MonitorRaises(e)
Worker  == Writes \/ AnswersSelect \/ AnswersLookup
Chain   == MinesBlock \/ BidFails
             \/ \E r \in Requests : AssignsRequest(r) \/ AssignsPoliceCheck(r)
             \/ \E k \in Keys :
                    AcceptsReport(k) \/ DropsReport(k) \/ LosesReport(k) \/ LosesAssignment(k)

Next == Main \/ Poll \/ Audit \/ Submit \/ Monitor \/ Worker \/ LosesWrite \/ Crash \/ Chain

Spec == Init /\ [][Next]_vars

(* Every thread of the node keeps running, and the operator starts the node *)
(* again when the process ended; the database thread keeps executing;       *)
(* blocks keep being mined; a pending transaction is mined or dropped some  *)
(* day.  No fairness for losses, crashes and reorganisations.               *)
Fairness ==
    /\ WF_vars(Main) /\ WF_vars(Poll) /\ WF_vars(Audit) /\ WF_vars(Submit)
    /\ WF_vars(Monitor) /\ WF_vars(Worker) /\ WF_vars(MinesBlock)
    /\ \A k \in Keys : WF_vars(AcceptsReport(k) \/ DropsReport(k))

FairSpec == Spec /\ Fairness

-----------------------------------------------------------------------------
(* Properties.                                                              *)

ScanType == [status : {"AS", "TS"}, firstValid : Int]

TypeOK ==
    /\ rows \in [Keys -> Event]
    /\ sql_queue \in Seq(Statement)
    /\ block \in Nat
    /\ assigned \in [Keys -> Nat]
    /\ mostRecent \in Requests \cup {None}
    /\ bids \in Nat
    /\ pending \in [Keys -> Nat]
    /\ reportBlock \in [Keys -> Nat]
    /\ pc \in [Threads -> {"off", "watch", "loop", "select", "new", "known",
                         "bid", "receipt", "police"}]
    /\ todo \in [Threads -> SUBSET Event]
    /\ now \in [Threads -> Event \cup {None}]
    /\ isFinished \in BOOLEAN
    /\ scan \in ScanType
    /\ lastBlock \in Nat
    /\ isPolice \in {"unknown", "yes", "no"}
    /\ sent \in [Keys -> Nat]
    /\ crashes \in Nat
    /\ lost \in Nat
    /\ unanswered \in Nat

(* An update waiting for the database thread.                               *)
Queued == {i \in DOMAIN sql_queue : IsWrite(sql_queue[i])}

(* Stale copies do no harm.  A thread works on copies of rows that it read  *)
(* some time ago (__process_evt_with_status), but whatever the other        *)
(* threads did meanwhile, the copy is still the row, and no update of that  *)
(* request waits in the queue.                                              *)
HeldEventsAreCurrent ==
    \A t \in Threads : \A e \in todo[t] :
        /\ rows[Key(e)] = e
        /\ \A i \in Queued : sql_queue[i].evt.request_id # e.request_id

(* The delay between deciding an update and executing it does no harm: an   *)
(* update still finds its row in the status in which its author saw it, so  *)
(* that no guard of an update statement ever drops one, no insert ever hits *)
(* an existing row, and the unguarded set_evt_status_to_error never hits a  *)
(* row that is done.  No two updates of one request wait at the same time.  *)
WritesFindTheirRows ==
    \A i \in Queued :
        /\ rows[Key(sql_queue[i].evt)].fk_status = sql_queue[i].evt.fk_status
        /\ \A j \in Queued :
            i # j => sql_queue[i].evt.request_id # sql_queue[j].evt.request_id

(* The primary key allows an audit and a police check of one request, and   *)
(* every update addresses both by the request id; but a request never has   *)
(* two rows, since is_request_processed looks for a row of either type.     *)
OneRowPerRequest ==
    \A r \in Requests :
        rows[<<r, "AU">>].fk_status = "NA" \/ rows[<<r, "PC">>].fk_status = "NA"

(* Errors are not recoverable and a done event stays done (audit.py, third  *)
(* invariant), although set_evt_status_to_error does not look at the row.   *)
TerminalIsFinal ==
    [][\A k \in Keys : rows[k].fk_status \in {"DN", "ER"} => rows'[k] = rows[k]]_vars

(* No event is submitted more often than MAX_SUBMISSION_ATTEMPTS allows,    *)
(* counted by submission_attempts...                                        *)
AttemptsBounded ==
    \A k \in Keys : rows[k].submission_attempts <= MaxSubmissionAttempts

(* ...and by the transactions really sent for it: only a crash, an update   *)
(* that the database lost, or an answer that did not arrive makes the node  *)
(* send one more.                                                           *)
SubmissionsBounded ==
    \A k \in Keys : sent[k] <= rows[k].submission_attempts + crashes + lost + unanswered

(* A row exists only for an assignment that the node really has, with its   *)
(* block: waiting for N confirmations before saving keeps assignments of    *)
(* replaced blocks out of the database.                                     *)
SavedIsAssigned ==
    \A k \in Keys :
        rows[k].fk_status # "NA" =>
            assigned[k] # 0 /\ rows[k].assigned_block_nbr = assigned[k]

(* When the threads start, every AS or TS row that is too old is on its way *)
(* to ER, ahead of the first select of the threads ("Upon restart, before   *)
(* processing, set all events that timed out to err", audit.py), provided   *)
(* the database lost no update.                                             *)
StaleIsDiscarded ==
    [][StartsThreads /\ lost = 0 =>
        \A k \in Keys :
            /\ rows[k].fk_status \in {"AS", "TS"}
            /\ rows[k].assigned_block_nbr <= scan.firstValid
            => \E i \in Queued : /\ sql_queue[i].op = "error"
                                 /\ Key(sql_queue[i].evt) = k]_vars

(* Unless blocks are replaced, an audit that is done has its report in the  *)
(* contract: isAuditFinished was read before, of the same request.          *)
DoneMeansReported ==
    ~Reorgs => \A r \in Requests :
        rows[<<r, "AU">>].fk_status = "DN" => reportBlock[<<r, "AU">>] # 0

(* The pipeline implements the automaton of statuses: no step of any thread *)
(* moves a row along an edge that EventLifecycle does not have.             *)
Lifecycle == INSTANCE EventLifecycle WITH
    Events <- Keys,
    life   <- [k \in Keys |-> [status   |-> rows[k].fk_status,
                             attempts |-> rows[k].submission_attempts]]

ImplementsLifecycle == Lifecycle!Spec

(* A submitted event does not stay submitted: the monitor moves it on once  *)
(* the chain is N blocks past the generation of its report.                 *)
SubmittedIsResolved ==
    \A k \in Keys :
        rows[k].fk_status = "SB" /\ rows[k].submission_block_nbr + NConfirmations <= MaxBlock
            ~> rows[k].fk_status # "SB"

(* A report to be submitted does not wait for ever, although the node       *)
(* refuses to send a transaction that is pending already.                   *)
ReportIsSubmitted ==
    \A k \in Keys : rows[k].fk_status = "TS" ~> rows[k].fk_status # "TS"

(* The request the node won last is saved once it is confirmed, or another  *)
(* one takes its place in myMostRecentAssignedAudit; unless the node is a   *)
(* police node that does not poll for audits.                               *)
ConfirmedIsSaved ==
    \A r \in Requests :
        /\ mostRecent = r
        /\ assigned[<<r, "AU">>] + NConfirmations <= MaxBlock
        /\ ~PoliceNode \/ EnablePoliceAuditPolling
        ~> HasRow(r) \/ mostRecent # r

-----------------------------------------------------------------------------
(* What the code's comments and messages say of it.                         *)

(* "Submission is finished and final. Move its status to done."             *)
(* (monitor_submission_thread.py): the report of an audit has N             *)
(* confirmations when its event is set to done.                             *)
DoneIsFinal ==
    [][\A e \in todo["monitor"] :
        Finishes(e) /\ e.fk_type = "AU" =>
            block - reportBlock[Key(e)] >= NConfirmations]_vars

(* "Report successfully submitted" is the status_info of an event that is   *)
(* done (monitor_submission_thread.py): the contract has its report.        *)
PoliceDoneMeansReported ==
    ~Reorgs => \A r \in Requests :
        rows[<<r, "PC">>].fk_status = "DN" => reportBlock[<<r, "PC">>] # 0
=============================================================================
